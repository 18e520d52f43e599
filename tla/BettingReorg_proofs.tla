------------------------- MODULE BettingReorg_proofs -------------------------
(***************************************************************************)
(* Proofs about BettingChain: what reorganisations and settlements do to   *)
(* the bets, for any transactions, chains and interleavings of connecting  *)
(* and disconnecting.                                                      *)
(*                                                                         *)
(* RInv says that undoing is the inverse of connecting for all databases   *)
(* but the one of the bets: every block has a history of stages, one per   *)
(* transaction.  BInv says what blocks make of the bets: placed, settled   *)
(* by the results of the block before, paid in the same step.  With the    *)
(* invariants of BettingChain_proofs they are CInv, from which most of the *)
(* theorems follow; PInv adds the history of the payments, NInv and FNInv  *)
(* the counters of peerless events and of contenders.  FieldInv, about the *)
(* payouts for field bets, needs none of them, and leaves out no game and  *)
(* no field result.                                                        *)
(*                                                                         *)
(* The hypotheses are Ordinary, Lists and FieldLists, of                   *)
(* BettingChain_proofs, and Reversible, Uncounted, FieldLegsComplete,      *)
(* FieldUncounted and Countable.                                           *)
(***************************************************************************)
EXTENDS BettingChain_proofs

-----------------------------------------------------------------------------
\* The steps that begin and end a block, and RInv.

(* What the code can take back.  UndoBettingTx restores neither the drawings of a
   lotto nor the settlement of field bets, and quick games only those of the
   block itself: there is none of them (NoGames).  GetPLBetPayoutsV3 looks for
   the bets to settle from another height on than UndoPLBetPayouts for those to
   open again, both Timespan blocks back: the chain is not longer than that,
   and its first databases have no bets. *)
Reversible ==
    /\ NoGames
    /\ Sound(BaseView, BaseHeight)
    /\ DOMAIN BaseView.fieldResults = {}
    /\ \A tx \in Txs : tx.id \in Nat
    /\ DOMAIN BaseView.bets = {}
    /\ \A p \in BaseView.payoutsInfo : p[1] \in Nat /\ p[1] <= BaseHeight
    /\ MaxHeight \in Nat /\ MaxHeight <= BaseHeight + Timespan

\* Nothing at no positions.
LEMMA AtNothing ==
    ASSUME NEW s
    PROVE  At(s, {}) = <<>> /\ AtPairs(s, {}) = <<>>
<1>1. Cardinality({}) = 0
  BY FS_EmptySet
<1>2. 1 .. Cardinality({}) = {}
  BY <1>1
<1>3. \A f : DOMAIN f = {} /\ f = [i \in DOMAIN f |-> f[i]] => f = <<>>
  OBVIOUS
<1>4. /\ At(s, {}) = [i \in DOMAIN At(s, {}) |-> At(s, {})[i]] /\ DOMAIN At(s, {}) = {}
      /\ AtPairs(s, {}) = [i \in DOMAIN AtPairs(s, {}) |-> AtPairs(s, {})[i]] /\ DOMAIN AtPairs(s, {}) = {}
  BY <1>2 DEF At, AtPairs
<1> QED BY <1>3, <1>4

\* Without results of field events no field bet is settled.
LEMMA NoResultsNoBets ==
    ASSUME NEW bets, IsDb("fieldBets", bets), NEW results, DOMAIN results = {},
           NEW ids, NEW h, NEW pairs, NEW offers, NEW r, r = SettleResults(bets, results, ids, h, pairs, offers)
    PROVE  r.bets = bets /\ r.payouts = <<>>
<1>0. bets = [k \in DOMAIN bets |-> bets[k]]
  BY DEF IsDb, SetDbs
<1>1. Settlements(bets, results, ids, SearchStart(h - 1)) = {}
  BY DEF Settlements, SettledBy, Posted
<1> DEFINE odds == [k \in {} |-> FinalOdds(bets[k], pairs[k])]
<1>2. \A due, o : due = {} => PaidOut(bets, due, o) = <<>>
  <2> SUFFICES ASSUME NEW due, NEW o, due = {} PROVE PaidOut(bets, due, o) = <<>>
    OBVIOUS
  <2>1. {p \in due : Worth(bets[p[2]].amount, o[p[2]][2]) > 0} = {} /\ Cardinality({}) = 0
    BY FS_EmptySet
  <2> QED BY <2>1 DEF PaidOut
<1> QED BY <1>0, <1>1, <1>2 DEF SettleResults

\* No result of a lotto in these transactions.
LEMMA NoLottoResults ==
    ASSUME Ordinary, NoGames, NEW last, last.txs \in Seq(Txs)
    PROVE  GetCGLottoEventResults(last) = <<>>
<1> DEFINE outs == [i \in DOMAIN last.txs |-> last.txs[i].outs]
           ps == {p \in Positions(outs) : last.txs[p[1]].oracle /\ Len(outs[p[1]]) <= 2
                                            /\ outs[p[1]][p[2]].type = "cgResult"}
<1>1. \A i \in DOMAIN last.txs : last.txs[i] \in Txs
  BY LenProperties, ElementOfSeq
<1>2. ASSUME NEW p \in Positions(outs) PROVE outs[p[1]][p[2]].type # "cgResult"
  <2>1. PICK i \in DOMAIN outs : p \in {i} \X DOMAIN outs[i]
    BY DEF Positions
  <2>2. p[1] = i /\ p[2] \in DOMAIN last.txs[i].outs /\ last.txs[i] \in Txs
    BY <1>1, <2>1
  <2>3. p[2] = 1
    BY <2>2 DEF Ordinary
  <2> QED BY <2>1, <2>2, <2>3 DEF NoGames, HasType, First, GameTypes
<1>3. ps = {}
  BY <1>2
<1>4. GetCGLottoEventResults(last) = AtPairs(outs, ps)
  BY DEF GetCGLottoEventResults
<1> HIDE DEF ps, outs
<1> QED BY <1>3, <1>4, AtNothing

\* Settling is about the bets on peerless events.
LEMMA GamesPayNothing ==
    ASSUME Ordinary, NoGames, NEW c, IsView(c), AllDbs(c), DOMAIN c.quickGamesBets = {}, DOMAIN c.fieldResults = {},
           NEW last, last.txs \in Seq(Txs), NEW h
    PROVE  LET pl == GetPLBetPayouts(c, last.vResultIDs, h)
               r  == GetBettingPayouts(c, last, h)
           IN  /\ IsView(r.view) /\ r.view.bets = pl.bets
               /\ \A d \in Databases \ {"bets"} : r.view[d] = c[d]
               /\ r.payouts = pl.payouts \o <<>> \o <<>> \o <<>>
<1> DEFINE pl == GetPLBetPayouts(c, last.vResultIDs, h)
           cg == GetCGLottoBetPayouts(c, last, h)
           qg == GetQuickGamesBetPayouts(c, last, h)
           fl == IF h >= V4Start THEN GetFieldBetPayouts(c, last.vResultIDs, h)
                 ELSE [bets |-> c.fieldBets, payouts |-> <<>>]
           r  == GetBettingPayouts(c, last, h)
<1>0. \A d \in BetDbs : c[d] = [k \in DOMAIN c[d] |-> c[d][k]]
  BY DEF AllDbs, Dbs, BetDbs, SetDbs, IsDb
<1>1. cg.bets = c.chainGamesLottoBets /\ cg.payouts = <<>>
  <2> DEFINE all == GetCGLottoEventResults(last)
             results == At(all, {i \in DOMAIN all : all[i].event \in DOMAIN c.chainGamesLottoEvents})
             draws == DrawResults(c, results, last.proof, h)
  <2>1. all = <<>>
    BY NoLottoResults
  <2>2. {i \in DOMAIN all : all[i].event \in DOMAIN c.chainGamesLottoEvents} = {}
    BY <2>1
  <2>3. results = <<>>
    <3> HIDE DEF all
    <3> QED BY <2>2, AtNothing
  <2>4. cg = SettleDraws(c.chainGamesLottoBets, draws)
    BY DEF GetCGLottoBetPayouts
  <2>5. DOMAIN draws = {}
    <3> HIDE DEF results
    <3> QED BY <2>3 DEF DrawResults
  <2> HIDE DEF draws
  <2> DEFINE payouts == [i \in DOMAIN draws |-> draws[i].payouts]
  <2>6. Positions(payouts) = {}
    BY <2>5 DEF Positions
  <2>7. AtPairs(payouts, Positions(payouts)) = <<>>
    <3> HIDE DEF payouts
    <3> QED BY <2>6, AtNothing
  <2>8. cg.payouts = AtPairs(payouts, Positions(payouts))
    BY <2>4 DEF SettleDraws
  <2>9. cg.bets = [k \in DOMAIN c.chainGamesLottoBets |-> c.chainGamesLottoBets[k]]
    BY <2>4, <2>5 DEF SettleDraws
  <2> QED BY <1>0, <2>7, <2>8, <2>9 DEF BetDbs
<1>2. qg.bets = c.quickGamesBets /\ qg.payouts = <<>>
  <2> DEFINE games == [k \in QuickGamesDue(c, h) |-> QuickGame(c.quickGamesBets[k], last.proof)]
             paid  == {k \in DOMAIN games : games[k].payout > 0}
             ks    == InKeyOrder(paid)
             front == [i \in DOMAIN ks |-> QuickGamePayout(ks[i], games[ks[i]])]
  <2>1. QuickGamesDue(c, h) = {}
    BY DEF QuickGamesDue
  <2>2. DOMAIN games = {} /\ paid = {}
    BY <2>1
  <2>3. /\ qg.bets = [k \in DOMAIN c.quickGamesBets |->
                        IF k \in DOMAIN games THEN PlayedQuickGame(c.quickGamesBets[k], games[k]) ELSE c.quickGamesBets[k]]
        /\ qg.payouts = front \o QuickGamesRewards(games, paid, h)
    BY DEF GetQuickGamesBetPayouts, SettleQuickGames
  <2> HIDE DEF games, paid
  <2>4. ks = <<>>
    BY <2>2, FS_EmptySet DEF InKeyOrder, InOrder
  <2>5. front = <<>>
    <3> HIDE DEF ks
    <3> QED BY <2>4
  <2>6. QuickGamesRewards(games, paid, h) = <<>>
    BY <2>2 DEF QuickGamesRewards
  <2> HIDE DEF front
  <2>7. qg.payouts = <<>>
    BY <2>3, <2>5, <2>6
  <2>8. qg.bets = [k \in DOMAIN c.quickGamesBets |-> c.quickGamesBets[k]]
    BY <2>2, <2>3
  <2> QED BY <1>0, <2>7, <2>8 DEF BetDbs
<1>3. fl.bets = c.fieldBets /\ fl.payouts = <<>>
  <2>1. CASE h >= V4Start
    <3> DEFINE ids == IF h - 1 >= V4Start THEN last.vResultIDs ELSE <<>>
               pairs == [k \in DOMAIN c.fieldBets |-> FieldLegOdds(c.fieldBets[k], c)]
               offers == [k \in DOMAIN c.fieldBets |-> FieldQuotes(c.fieldBets[k])]
    <3>1. fl = SettleResults(c.fieldBets, c.fieldResults, ids, h, pairs, offers)
      BY <2>1 DEF GetFieldBetPayouts
    <3>2. IsDb("fieldBets", c.fieldBets)
      BY DEF AllDbs, Dbs, BetDbs
    <3> HIDE DEF ids, pairs, offers, fl
    <3>3. ASSUME NEW bets, NEW results, bets = c.fieldBets, results = c.fieldResults
          PROVE  fl.bets = bets /\ fl.payouts = <<>>
      <4>1. fl = SettleResults(bets, results, ids, h, pairs, offers) /\ IsDb("fieldBets", bets) /\ DOMAIN results = {}
        BY <3>1, <3>2, <3>3
      <4> QED BY <4>1, NoResultsNoBets
    <3> QED BY <3>3
  <2>2. CASE ~(h >= V4Start)
    BY <2>2
  <2> QED BY <2>1, <2>2
<1>4. r = AllPayouts(c, pl, cg, qg, fl)
  BY DEF GetBettingPayouts
<1> HIDE DEF pl, cg, qg, fl, r
<1>5. /\ r.view = [c EXCEPT !.bets = pl.bets, !.chainGamesLottoBets = c.chainGamesLottoBets,
                        !.quickGamesBets = c.quickGamesBets, !.fieldBets = c.fieldBets]
      /\ r.payouts = pl.payouts \o <<>> \o <<>> \o <<>>
  BY <1>1, <1>2, <1>3, <1>4 DEF AllPayouts
<1>6. IsView(r.view) /\ r.view.bets = pl.bets /\ \A d \in Databases \ {"bets"} : r.view[d] = c[d]
  BY <1>5 DEF IsView, Databases
<1> QED BY <1>5, <1>6 DEF pl, r

\* What BettingChain_proofs shows about every reachable state.
Base == IInv /\ UInv /\ GInv /\ mode # "failed"

\* The bets and what they are paid, as BeginConnect finds them.
Settled == GetPLBetPayouts(view, chain[Len(chain)].vResultIDs, TipHeight + 1)

\* BeginConnect settles and changes nothing else.
LEMMA BlockStarts ==
    ASSUME Ordinary, NoGames, Base, RInv, NEW time, NEW proof, BeginConnect(time, proof)
    PROVE  /\ mode = "idle" /\ cache = view /\ TipHeight < MaxHeight
           /\ mode' = "connect" /\ view' = view /\ chain' = chain
           /\ blk'.txs = <<>> /\ blk'.vResultIDs = <<>> /\ pos'.tx = 0
           /\ blk'.payouts = Settled.payouts \o <<>> \o <<>> \o <<>>
           /\ IsView(cache') /\ cache'.bets = Settled.bets
           /\ \A d \in Databases \ {"bets", "payoutsInfo"} : cache'[d] = view[d]
           /\ cache'.payoutsInfo = view.payoutsInfo
                \cup {<<TipHeight + 1, i, blk'.payouts[i]>> : i \in DOMAIN blk'.payouts}
<1> DEFINE n == Len(chain)
           due == GetBettingPayouts(view, chain[n], TipHeight + 1)
<1>1. TypeOK /\ mode = "idle" /\ view.lastHeight = TipHeight /\ cache = view /\ IsView(view)
  BY DEF BeginConnect, Base, IInv, HeightsAgree, UInv, TypeOK
<1>2. Last(chain) = chain[n] /\ chain[n].txs \in Seq(Txs)
  BY <1>1, ChainSeq DEF Last
<1>3. StartBlock(time, proof, due) /\ TipHeight < MaxHeight
  BY <1>1, <1>2 DEF BeginConnect
<1>4. /\ AllDbs(view) /\ DOMAIN view.quickGamesBets = {} /\ DOMAIN view.fieldResults = {}
  BY <1>1 DEF RInv, Sound, Base, GInv
<1>5. /\ IsView(due.view) /\ due.view.bets = Settled.bets
      /\ \A d \in Databases \ {"bets"} : due.view[d] = view[d]
      /\ due.payouts = Settled.payouts \o <<>> \o <<>> \o <<>>
  BY <1>1, <1>2, <1>4, GamesPayNothing DEF Settled
<1> HIDE DEF due
<1>6. /\ mode' = "connect" /\ view' = view /\ chain' = chain
      /\ cache' = SavePayoutsInfo(due.view, due.payouts, TipHeight + 1)
      /\ blk' = Block(time, proof, due.payouts) /\ pos'.tx = 0
  BY <1>3 DEF StartBlock
<1>7. blk'.txs = <<>> /\ blk'.vResultIDs = <<>> /\ blk'.payouts = due.payouts
  BY <1>6 DEF Block
<1>8. /\ IsView(cache') /\ \A d \in Databases \ {"payoutsInfo"} : cache'[d] = due.view[d]
      /\ cache'.payoutsInfo = due.view.payoutsInfo \cup {<<TipHeight + 1, i, due.payouts[i]>> : i \in DOMAIN due.payouts}
  BY <1>5, <1>6 DEF SavePayoutsInfo, IsView, Databases
<1>9. due.view.payoutsInfo = view.payoutsInfo /\ "bets" \in Databases
  BY <1>5 DEF Databases
<1>10. cache'.bets = Settled.bets /\ \A d \in Databases \ {"bets", "payoutsInfo"} : cache'[d] = view[d]
  BY <1>5, <1>8, <1>9
<1> QED BY <1>1, <1>3, <1>5, <1>6, <1>7, <1>8, <1>9, <1>10

\* EndConnect makes the block the tip.
LEMMA BlockEnds ==
    ASSUME Ordinary, Base, EndConnect
    PROVE  /\ mode = "connect" /\ OutputsDone /\ mode' = "idle" /\ cache' = view'
           /\ \A d \in Databases \ {"undos", "lastHeight"} : view'[d] = cache[d]
           /\ \A k : k \in DOMAIN cache'.undos => k \in DOMAIN cache.undos /\ cache'.undos[k] = cache.undos[k]
           /\ view'.lastHeight = BlkHeight
           /\ Len(chain') = Len(chain) + 1
           /\ \A i \in 1 .. Len(chain) : chain'[i] = chain[i]
           /\ chain'[Len(chain) + 1] = Connected(blk, view')
           /\ BlkHeight = TipHeight + 1 /\ TipHeight' = BlkHeight /\ BlkHeight' = BlkHeight
<1> DEFINE pruned == IF BlkHeight % (MaxUndoDepth - 1) = 0
                     THEN PruneOlderUndos(cache, BlkHeight - MaxUndoDepth) ELSE cache
           done   == [pruned EXCEPT !.lastHeight = BlkHeight]
           last   == Connected(blk, done)
<1>1. /\ mode = "connect" /\ mode' = "idle" /\ OutputsDone
      /\ view' = done /\ cache' = done /\ chain' = Append(chain, last)
  BY DEF EndConnect
<1>2. TypeOK
  BY DEF Base, IInv
<1>3. /\ \A d \in Databases \ {"undos", "lastHeight"} : done[d] = cache[d]
      /\ \A k : k \in DOMAIN done.undos => k \in DOMAIN cache.undos /\ done.undos[k] = cache.undos[k]
      /\ done.lastHeight = BlkHeight
  <2>1. IsView(cache) /\ IsView(pruned)
    BY <1>2, ExceptView DEF PruneOlderUndos, TypeOK
  <2>2. /\ \A d \in Databases \ {"undos"} : pruned[d] = cache[d]
        /\ \A k : k \in DOMAIN pruned.undos => k \in DOMAIN cache.undos /\ pruned.undos[k] = cache.undos[k]
    BY <2>1 DEF PruneOlderUndos, Restrict, IsView, Databases
  <2> HIDE DEF pruned
  <2> QED BY <2>1, <2>2 DEF IsView, Databases
<1> HIDE DEF done, last
<1>4. /\ Len(chain') = Len(chain) + 1 /\ \A i \in 1 .. Len(chain) : chain'[i] = chain[i]
      /\ chain'[Len(chain) + 1] = last
  <2>1. /\ IsSeq(chain') /\ Len(chain') = Len(chain) + 1
        /\ \A i \in DOMAIN chain' : chain'[i] = IF i <= Len(chain) THEN chain[i] ELSE last
    BY <1>1, <1>2, AppendSeq DEF TypeOK
  <2>2. DOMAIN chain' = 1 .. Len(chain) + 1 /\ Len(chain) \in Nat
    BY <1>2, <2>1, ChainSeq, LenProperties DEF IsSeq
  <2> QED BY <2>1, <2>2
<1>5. last = Connected(blk, view')
  BY <1>1 DEF last
<1>6. BlkHeight = TipHeight + 1 /\ TipHeight' = BlkHeight /\ BlkHeight' = BlkHeight
  BY <1>1, <1>2, <1>4, ChainSeq, HeightsAssumption DEF BlkHeight, TipHeight
<1> QED BY <1>1, <1>3, <1>4, <1>5, <1>6

\* BeginDisconnect opens the settled bets again and changes nothing else.
LEMMA UndoStarts ==
    ASSUME Ordinary, NoGames, Base, RInv, BeginDisconnect, mode' = "disconnect"
    PROVE  /\ mode = "idle" /\ cache = view /\ Len(chain) > 1
           /\ view' = view /\ chain' = chain
           /\ blk'.txs = chain[Len(chain)].txs /\ pos'.tx = Len(chain[Len(chain)].txs)
           /\ IsView(cache')
           /\ cache'.bets = UndoPLBetPayouts(view, chain[Len(chain) - 1].vResultIDs, TipHeight).bets
           /\ \A d \in Databases \ {"bets", "payoutsInfo"} : cache'[d] = view[d]
           /\ cache'.payoutsInfo = {p \in view.payoutsInfo : p[1] # TipHeight}
<1> DEFINE last == Last(chain)
           paid == UndoPLBetPayouts(view, chain[Len(chain) - 1].vResultIDs, TipHeight)
           undone == UndoQGBetPayouts(paid, TipHeight)
<1>1. mode = "idle" /\ TypeOK /\ IsView(view) /\ cache = view /\ Len(chain) > 1
  BY DEF BeginDisconnect, Base, IInv, UInv, TypeOK
<1>2. cache' = UndoPayoutsInfo(undone, TipHeight)
  BY DEF BeginDisconnect, Abort
<1>3. /\ blk'.txs = last.txs
      /\ pos' = [tx |-> Len(last.txs), out |-> IF last.txs = <<>> THEN 0 ELSE Len(Last(last.txs).outs)]
      /\ UNCHANGED <<view, chain, peak>>
  BY DEF BeginDisconnect, Block, Abort
<1>4. last = chain[Len(chain)]
  BY DEF Last
<1>5. /\ IsView(paid) /\ \A d \in Databases \ {"bets"} : paid[d] = view[d]
  BY <1>1, ExceptView DEF UndoPLBetPayouts, IsView, Databases
<1>6. IsDb("quickGamesBets", view.quickGamesBets) /\ DOMAIN view.quickGamesBets = {}
  BY DEF RInv, Sound, AllDbs, Dbs, BetDbs
<1>7. view.quickGamesBets = [k \in DOMAIN view.quickGamesBets |-> view.quickGamesBets[k]]
  BY <1>6 DEF IsDb, SetDbs
<1> HIDE DEF paid, last
<1>8. IsView(undone) /\ \A d \in Databases : undone[d] = paid[d]
  <2>1. paid.quickGamesBets = view.quickGamesBets
    BY <1>5 DEF Databases
  <2>2. DOMAIN paid.quickGamesBets = {} /\ paid.quickGamesBets = [k \in DOMAIN paid.quickGamesBets |-> paid.quickGamesBets[k]]
    BY <1>6, <1>7, <2>1
  <2>3. undone = [paid EXCEPT !.quickGamesBets = paid.quickGamesBets]
    BY <1>5, <2>2 DEF UndoQGBetPayouts, IsView, Databases
  <2> HIDE DEF undone
  <2> QED BY <1>5, <2>3 DEF IsView, Databases
<1> HIDE DEF undone
<1>9. /\ IsView(cache') /\ \A d \in Databases \ {"payoutsInfo"} : cache'[d] = undone[d]
      /\ cache'.payoutsInfo = {p \in undone.payoutsInfo : p[1] # TipHeight}
  BY <1>2, <1>8 DEF UndoPayoutsInfo, IsView, Databases
<1>10. undone.payoutsInfo = view.payoutsInfo /\ undone.bets = paid.bets /\ "bets" \in Databases
  BY <1>5, <1>8 DEF Databases
<1>11. cache'.bets = paid.bets /\ \A d \in Databases \ {"bets", "payoutsInfo"} : cache'[d] = view[d]
  BY <1>5, <1>8, <1>9, <1>10
<1> QED BY <1>1, <1>3, <1>4, <1>9, <1>10, <1>11 DEF paid

\* EndDisconnect takes the tip off the chain.
LEMMA UndoEnds ==
    ASSUME Base, EndDisconnect
    PROVE  /\ mode = "disconnect" /\ mode' = "idle" /\ pos.tx = 0 /\ cache' = view'
           /\ \A d \in Databases \ {"lastHeight"} : view'[d] = cache[d]
           /\ view'.lastHeight = TipHeight - 1
           /\ Len(chain) > 1 /\ Len(chain') = Len(chain) - 1
           /\ \A i \in 1 .. Len(chain) - 1 : chain'[i] = chain[i]
           /\ TipHeight' = TipHeight - 1 /\ BlkHeight' = TipHeight - 1
<1> DEFINE done == [cache EXCEPT !.lastHeight = TipHeight - 1]
<1>1. /\ mode = "disconnect" /\ mode' = "idle" /\ TypeOK /\ Len(chain) > 1 /\ pos.tx = 0
      /\ view' = done /\ cache' = done /\ chain' = Front(chain)
  BY DEF EndDisconnect, Base, IInv
<1>2. (\A d \in Databases \ {"lastHeight"} : done[d] = cache[d]) /\ done.lastHeight = TipHeight - 1
  BY <1>1 DEF TypeOK, IsView, Databases
<1> HIDE DEF done
<1>3. Len(chain') = Len(chain) - 1 /\ \A i \in 1 .. Len(chain) - 1 : chain'[i] = chain[i]
  <2>1. IsSeq(chain') /\ Len(chain') = Len(chain) - 1 /\ \A i \in DOMAIN chain' : chain'[i] = chain[i]
    BY <1>1, FrontSeq DEF TypeOK
  <2> QED BY <1>1, <2>1, ChainSeq, LenProperties DEF IsSeq
<1>4. TipHeight' = TipHeight - 1 /\ BlkHeight' = TipHeight - 1
  BY <1>1, <1>3, ChainSeq, HeightsAssumption DEF TipHeight, BlkHeight
<1> QED BY <1>1, <1>2, <1>3, <1>4

\* The blocks of the chain stay made while records only disappear.
LEMMA BlocksStay ==
    ASSUME RInv, NEW n, n \in Int, n <= Len(chain), Len(chain) \in Nat,
           \A i \in 1 .. n : chain'[i] = chain[i],
           \A k : k \in DOMAIN cache'.undos => k \in DOMAIN cache.undos /\ cache'.undos[k] = cache.undos[k]
    PROVE  /\ \A i \in 2 .. n : BlockMade(i)'
           /\ \A i \in 1 .. n : Sound(chain[i].after, Height(i))'
<1>1. ASSUME NEW i \in 2 .. n PROVE BlockMade(i)'
  <2>1. chain'[i] = chain[i] /\ chain'[i - 1] = chain[i - 1] /\ i \in 2 .. Len(chain)
    <3>1. i \in 1 .. n /\ i - 1 \in 1 .. n /\ i \in 2 .. Len(chain)
      OBVIOUS
    <3> QED BY <3>1
  <2>2. PICK s :
          /\ Made(chain[i].txs, Height(i), chain[i - 1].after, s, Len(chain[i].txs), cache.undos)
          /\ \A d \in ODbs : s[Len(chain[i].txs)][d] = chain[i].after[d]
    BY <2>1 DEF RInv, BlockMade
  <2>3. Made(chain[i].txs, Height(i), chain[i - 1].after, s, Len(chain[i].txs), cache'.undos)
    BY <2>2, MadeSame
  <2> QED BY <2>1, <2>2, <2>3 DEF BlockMade, Height
<1>2. ASSUME NEW i \in 1 .. n PROVE Sound(chain[i].after, Height(i))'
  <2>1. i \in 1 .. Len(chain) /\ chain'[i] = chain[i]
    OBVIOUS
  <2>2. Sound(chain[i].after, Height(i))
    BY <2>1 DEF RInv
  <2> QED BY <2>1, <2>2 DEF Sound, AllDbs, IsDb, Height
<1> QED BY <1>1, <1>2

\* Soundness looks at the databases only.
LEMMA SoundSame ==
    ASSUME NEW v, NEW w, NEW h, NEW g \in Nat, Sound(v, h), h \in Nat, h <= g,
           \A d \in ODbs : w[d] = v[d], IsDb("bets", w.bets)
    PROVE  Sound(w, g)
<1>1. {"quickGamesBets", "fieldBets"} \subseteq ODbs
  BY DEF ODbs, Dbs, BetDbs
<1>2. AllDbs(w)
  BY DEF Sound, AllDbs, ODbs
<1> QED BY <1>1, <1>2 DEF Sound

\* They are databases of a view.
LEMMA ODbsOfView == ODbs \subseteq Databases \ {"bets", "payoutsInfo", "undos", "lastHeight"}
BY DbsOfView DEF ODbs

LEMMA BeginConnectMade ==
    ASSUME Ordinary, NoGames, Base, RInv, NEW time, NEW proof, BeginConnect(time, proof)
    PROVE  RInv'
<1>0. TypeOK
  BY DEF Base, IInv
<1>1. /\ mode = "idle" /\ cache = view /\ mode' = "connect" /\ view' = view /\ chain' = chain
      /\ blk'.txs = <<>> /\ pos'.tx = 0 /\ cache'.bets = Settled.bets
      /\ \A d \in Databases \ {"bets", "payoutsInfo"} : cache'[d] = view[d]
  BY BlockStarts
<1>2. cache'.undos = cache.undos /\ \A d \in ODbs : cache'[d] = view[d]
  BY <1>1, ODbsOfView DEF Databases
<1>3. IsDb("bets", cache'.bets)
  BY <1>1 DEF Settled, GetPLBetPayouts, WithRewards, SettleResults, IsDb
<1>4. TipHeight \in Nat /\ TipHeight' = TipHeight /\ BlkHeight' = TipHeight + 1 /\ Len(chain) \in Nat
  BY <1>0, <1>1, ChainSeq DEF TipHeight, BlkHeight
<1>5. Sound(cache', TipHeight + 1)
  BY <1>2, <1>3, <1>4, SoundSame DEF RInv
<1>6. Building'
  <2> DEFINE s == [j \in {0} |-> cache']
  <2>1. HandledCount' = 0
    BY <1>1 DEF HandledCount
  <2>2. s[0] = cache'
    OBVIOUS
  <2> HIDE DEF s
  <2>3. Made(blk'.txs, BlkHeight', view', s, 0, cache'.undos)
    BY <1>1, <1>2, <2>2 DEF Made
  <2>4. SameDbs(cache', s[0])
    BY <2>2 DEF SameDbs
  <2> QED BY <2>1, <2>3, <2>4 DEF Building
<1>7. /\ \A i \in 2 .. Len(chain) : BlockMade(i)'
      /\ \A i \in 1 .. Len(chain) : Sound(chain[i].after, Height(i))'
  BY <1>1, <1>2, <1>4, BlocksStay
<1>8. Sound(view, TipHeight)' /\ Sound(cache, BlkHeight)'
  BY <1>1, <1>4, <1>5 DEF RInv, Sound, AllDbs, IsDb
<1> QED BY <1>1, <1>6, <1>7, <1>8 DEF RInv

LEMMA RejectBlockMade ==
    ASSUME Base, RInv, RejectBlock
    PROVE  RInv'
<1>1. /\ mode = "connect" /\ mode' = "idle" /\ cache' = view /\ view' = view /\ chain' = chain /\ blk.txs = <<>>
  BY DEF RejectBlock
<1>2. cache'.undos = cache.undos /\ TypeOK
  BY <1>1 DEF Base, IInv, UInv, BlockChecked
<1>3. TipHeight' = TipHeight /\ BlkHeight' = TipHeight /\ Len(chain) \in Nat
  BY <1>1, <1>2, ChainSeq DEF TipHeight, BlkHeight
<1>4. /\ \A i \in 2 .. Len(chain) : BlockMade(i)'
      /\ \A i \in 1 .. Len(chain) : Sound(chain[i].after, Height(i))'
  BY <1>1, <1>2, <1>3, BlocksStay
<1>5. Sound(view, TipHeight)' /\ Sound(cache, BlkHeight)'
  BY <1>1, <1>3 DEF RInv, Sound, AllDbs, IsDb
<1> QED BY <1>1, <1>4, <1>5 DEF RInv

\* Between two transactions all those of the block are handled.
LEMMA AllHandled ==
    ASSUME Ordinary, TypeOK, mode = "connect", OutputsDone
    PROVE  HandledCount = Len(blk.txs) /\ Len(blk.txs) \in Nat /\ pos.tx = Len(blk.txs)
<1>1. pos.tx = Len(blk.txs) /\ Len(blk.txs) \in Nat /\ DOMAIN blk.txs = 1 .. Len(blk.txs)
  BY LenProperties DEF TypeOK, PosOK
<1>2. CASE blk.txs = <<>>
  BY <1>1, <1>2 DEF HandledCount
<1>3. CASE blk.txs # <<>>
  <2>1. Len(blk.txs) > 0
    BY <1>1, <1>3, EmptySeq DEF TypeOK
  <2>2. Tx \in Txs
    BY <1>1, <2>1, ElementOfSeq DEF TypeOK, Tx
  <2>3. pos.out \in 1 .. Len(Tx.outs) + 1 /\ pos.out > Len(Tx.outs) /\ Len(Tx.outs) \in Nat \ {0}
    BY <1>1, <1>3, <2>1, <2>2, OutsOfTx DEF OutputsDone, TypeOK, PosOK
  <2>4. pos.out > 1
    BY <2>3
  <2> QED BY <1>1, <2>1, <2>4 DEF HandledCount
<1> QED BY <1>1, <1>2, <1>3

LEMMA TakeTxMade ==
    ASSUME Ordinary, Base, RInv, NEW tx \in Txs, TakeTx(tx)
    PROVE  RInv'
<1>0. TypeOK
  BY DEF Base, IInv
<1>1. /\ mode = "connect" /\ mode' = mode /\ cache' = cache /\ view' = view /\ chain' = chain
      /\ OutputsDone /\ blk'.txs = Append(blk.txs, tx) /\ pos'.tx = Len(blk.txs) + 1 /\ pos'.out = 1
  BY <1>0 DEF TakeTx, TypeOK
<1>2. HandledCount = Len(blk.txs) /\ Len(blk.txs) \in Nat
  BY <1>0, <1>1, AllHandled
<1>3. HandledCount' = HandledCount
  BY <1>1, <1>2 DEF HandledCount
<1>4. TipHeight' = TipHeight /\ BlkHeight' = BlkHeight /\ Len(chain) \in Nat
  BY <1>0, <1>1, ChainSeq DEF TipHeight, BlkHeight
<1>5. Building'
  <2>1. PICK s : /\ Made(blk.txs, BlkHeight, view, s, HandledCount, cache.undos)
                 /\ SameDbs(cache, s[HandledCount])
    BY <1>1 DEF RInv, Building
  <2>2. \A j \in 1 .. HandledCount : blk'.txs[j] = blk.txs[j]
    BY <1>0, <1>1, <1>2, AppendProperties DEF TypeOK
  <2>3. Made(blk'.txs, BlkHeight, view, s, HandledCount, cache.undos)
    BY <2>1, <2>2, MadeSame
  <2> QED BY <1>1, <1>3, <1>4, <2>1, <2>3 DEF Building, SameDbs
<1>6. /\ \A i \in 2 .. Len(chain) : BlockMade(i)'
      /\ \A i \in 1 .. Len(chain) : Sound(chain[i].after, Height(i))'
  BY <1>1, <1>4, BlocksStay
<1>7. Sound(view, TipHeight)' /\ Sound(cache, BlkHeight)'
  BY <1>1, <1>4 DEF RInv, Sound, AllDbs, IsDb
<1> QED BY <1>1, <1>5, <1>6, <1>7 DEF RInv

LEMMA EndConnectMade ==
    ASSUME Ordinary, Base, RInv, EndConnect
    PROVE  RInv'
<1>0. TypeOK /\ Len(chain) \in Nat /\ Len(chain) > 0 /\ TipHeight = BaseHeight + Len(chain) - 1
  BY ChainSeq DEF Base, IInv
<1>1. /\ mode = "connect" /\ OutputsDone /\ mode' = "idle" /\ cache' = view'
      /\ \A d \in Databases \ {"undos", "lastHeight"} : view'[d] = cache[d]
      /\ \A k : k \in DOMAIN cache'.undos => k \in DOMAIN cache.undos /\ cache'.undos[k] = cache.undos[k]
      /\ Len(chain') = Len(chain) + 1
      /\ \A i \in 1 .. Len(chain) : chain'[i] = chain[i]
      /\ chain'[Len(chain) + 1] = Connected(blk, view')
      /\ BlkHeight = TipHeight + 1 /\ TipHeight' = BlkHeight /\ BlkHeight' = BlkHeight
  BY BlockEnds
<1>2. HandledCount = Len(blk.txs) /\ Len(blk.txs) \in Nat
  BY <1>0, <1>1, AllHandled
<1>3. /\ \A i \in 2 .. Len(chain) : BlockMade(i)'
      /\ \A i \in 1 .. Len(chain) : Sound(chain[i].after, Height(i))'
  BY <1>0, <1>1, BlocksStay
<1>n. PICK n : n = Len(chain) + 1
  OBVIOUS
<1>4. /\ chain'[n].txs = blk.txs /\ chain'[n].after = view' /\ chain'[n - 1] = chain[Len(chain)]
  BY <1>0, <1>1, <1>n DEF Connected
<1>5. Height(n) = BlkHeight /\ Height(n)' = BlkHeight /\ BlkHeight \in Nat
  BY <1>0, <1>1, <1>n, HeightsAssumption DEF Height
<1>6. (\A d \in ODbs : view'[d] = cache[d]) /\ view'.bets = cache.bets
  BY <1>1, ODbsOfView DEF Databases
<1>7. Sound(view', BlkHeight)
  <2>1. Sound(cache, BlkHeight) /\ IsDb("bets", cache.bets)
    BY DEF RInv, Sound, AllDbs, Dbs, BetDbs
  <2> QED BY <1>5, <1>6, <2>1, SoundSame
<1>8. BlockMade(n)'
  <2>1. PICK s : /\ Made(blk.txs, BlkHeight, view, s, Len(blk.txs), cache.undos)
                 /\ SameDbs(cache, s[Len(blk.txs)])
    BY <1>1, <1>2 DEF RInv, Building
  <2>2. \A d \in ODbs : chain[Len(chain)].after[d] = view[d]
    BY DEF RInv
  <2>3. Made(blk.txs, BlkHeight, chain[Len(chain)].after, s, Len(blk.txs), cache'.undos)
    BY <1>1, <2>1, <2>2, MadeSame
  <2>4. \A d \in ODbs : s[Len(blk.txs)][d] = view'[d]
    BY <1>6, <2>1 DEF SameDbs, ODbs
  <2>5. \E t : /\ Made(chain'[n].txs, Height(n)', chain'[n - 1].after, t, Len(chain'[n].txs), cache'.undos)
               /\ \A d \in ODbs : t[Len(chain'[n].txs)][d] = chain'[n].after[d]
    BY <1>4, <1>5, <2>3, <2>4
  <2> QED BY <2>5 DEF BlockMade
<1>9. Sound(chain[n].after, Height(n))'
  BY <1>4, <1>5, <1>7 DEF Sound, AllDbs, IsDb
<1>10. /\ \A i \in 2 .. Len(chain') : BlockMade(i)'
       /\ \A i \in 1 .. Len(chain') : Sound(chain[i].after, Height(i))'
  <2>1. \A i \in 1 .. Len(chain') : i \in 1 .. Len(chain) \/ i = n
    BY <1>0, <1>1, <1>n
  <2>2. \A i \in 2 .. Len(chain') : i \in 2 .. Len(chain) \/ i = n
    BY <1>0, <1>1, <1>n
  <2> QED BY <1>3, <1>8, <1>9, <2>1, <2>2
<1>11. Sound(view, TipHeight)' /\ Sound(cache, BlkHeight)'
  BY <1>1, <1>7 DEF Sound, AllDbs, IsDb
<1>12. \A d \in ODbs : view'[d] = chain'[Len(chain')].after[d]
  BY <1>1, <1>4, <1>n
<1> QED BY <1>1, <1>10, <1>11, <1>12 DEF RInv

LEMMA BeginDisconnectMade ==
    ASSUME Ordinary, NoGames, Base, RInv, BeginDisconnect, mode' = "disconnect"
    PROVE  RInv'
<1>0. TypeOK /\ Len(chain) \in Nat /\ Len(chain) > 0 /\ TipHeight = BaseHeight + Len(chain) - 1 /\ TipHeight \in Nat
  BY ChainSeq DEF Base, IInv
<1>1. /\ mode = "idle" /\ cache = view /\ Len(chain) > 1 /\ view' = view /\ chain' = chain
      /\ blk'.txs = chain[Len(chain)].txs /\ pos'.tx = Len(chain[Len(chain)].txs)
      /\ cache'.bets = UndoPLBetPayouts(view, chain[Len(chain) - 1].vResultIDs, TipHeight).bets
      /\ \A d \in Databases \ {"bets", "payoutsInfo"} : cache'[d] = view[d]
  BY UndoStarts
<1>2. cache'.undos = cache.undos /\ \A d \in ODbs : cache'[d] = view[d]
  BY <1>1, ODbsOfView DEF Databases
<1>3. IsDb("bets", cache'.bets)
  <2>1. IsView(view)
    BY <1>0 DEF TypeOK
  <2> QED BY <1>1, <2>1 DEF UndoPLBetPayouts, IsDb, IsView, Databases
<1>4. TipHeight' = TipHeight /\ BlkHeight' = TipHeight
  BY <1>0, <1>1 DEF TipHeight, BlkHeight
<1>5. Sound(cache', TipHeight)
  BY <1>0, <1>2, <1>3, SoundSame DEF RInv
<1>6. Unbuilding'
  <2> DEFINE n == Len(chain)
             m == Len(chain[n].txs)
  <2>1. PICK s : /\ Made(chain[n].txs, Height(n), chain[n - 1].after, s, m, cache.undos)
                 /\ \A d \in ODbs : s[m][d] = chain[n].after[d]
    <3>1. n \in 2 .. Len(chain)
      BY <1>0, <1>1
    <3> QED BY <3>1 DEF RInv, BlockMade
  <2>2. Height(n) = TipHeight'
    BY <1>0, <1>4 DEF Height
  <2>3. ASSUME NEW d \in ODbs PROVE cache'[d] = Without(d, s[m][d], LaterKeys(d)')
    <3>1. cache'[d] = s[m][d] /\ IsDb(d, s[m][d])
      BY <1>2, <2>1 DEF RInv, Sound, AllDbs, ODbs
    <3>2. LaterKeys(d)' = {}
      <4>1. m \in Nat /\ pos'.tx = m /\ Len(blk'.txs) = m
        BY <1>0, <1>1, ChainSeq
      <4>2. pos'.tx + 1 .. Len(blk'.txs) = {}
        BY <4>1
      <4> QED BY <4>2 DEF LaterKeys
    <3> HIDE DEF m, n
    <3> QED BY <3>1, <3>2, WithoutNone
  <2> HIDE DEF m
  <2>4. \A d \in ODbs : cache'[d] = Without(d, s[pos'.tx][d], LaterKeys(d)')
    BY <1>1, <2>3 DEF m
  <2>5. Made(blk'.txs, TipHeight', chain'[Len(chain') - 1].after, s, Len(blk'.txs), cache'.undos)
    BY <1>1, <1>2, <2>1, <2>2 DEF m
  <2> QED BY <2>4, <2>5 DEF Unbuilding
<1>7. /\ \A i \in 2 .. Len(chain) : BlockMade(i)'
      /\ \A i \in 1 .. Len(chain) : Sound(chain[i].after, Height(i))'
  BY <1>0, <1>1, <1>2, BlocksStay
<1>8. Sound(view, TipHeight)' /\ Sound(cache, BlkHeight)'
  BY <1>1, <1>4, <1>5 DEF RInv, Sound, AllDbs, IsDb
<1> QED BY <1>1, <1>6, <1>7, <1>8 DEF RInv

LEMMA EndDisconnectMade ==
    ASSUME Base, RInv, EndDisconnect
    PROVE  RInv'
<1>0. TypeOK /\ Len(chain) \in Nat /\ Len(chain) > 0 /\ TipHeight = BaseHeight + Len(chain) - 1 /\ TipHeight \in Nat
  BY ChainSeq DEF Base, IInv
<1>1. /\ mode = "disconnect" /\ mode' = "idle" /\ pos.tx = 0 /\ cache' = view'
      /\ \A d \in Databases \ {"lastHeight"} : view'[d] = cache[d]
      /\ Len(chain) > 1 /\ Len(chain') = Len(chain) - 1
      /\ \A i \in 1 .. Len(chain) - 1 : chain'[i] = chain[i]
      /\ TipHeight' = TipHeight - 1 /\ BlkHeight' = TipHeight - 1
  BY UndoEnds
<1> DEFINE n == Len(chain) - 1
           a == chain[n].after
<1>2. n \in 1 .. Len(chain) /\ n \in Int /\ n <= Len(chain) /\ n \in Nat
  BY <1>0, <1>1
<1>3. cache'.undos = cache.undos /\ (\A d \in ODbs : view'[d] = cache[d]) /\ view'.bets = cache.bets
  BY <1>1, ODbsOfView DEF Databases
<1>4. ASSUME NEW d \in ODbs PROVE cache[d] = a[d]
  <2>1. PICK s : /\ Made(blk.txs, TipHeight, a, s, Len(blk.txs), cache.undos)
                 /\ \A o \in ODbs : cache[o] = Without(o, s[pos.tx][o], LaterKeys(o))
    BY <1>1 DEF RInv, Unbuilding
  <2>2. cache[d] = Without(d, a[d], LaterKeys(d))
    BY <1>1, <2>1 DEF Made
  <2>3. IsDb(d, a[d])
    BY <1>2 DEF RInv, Sound, AllDbs, ODbs
  <2>4. LaterKeys(d) \cap Dom(d, a[d]) = {}
    <3>1. ASSUME NEW k \in LaterKeys(d) PROVE k \notin Dom(d, a[d])
      <4>1. PICK j \in pos.tx + 1 .. Len(blk.txs) : k \in Keys(d, blk.txs[j], TipHeight)
        BY DEF LaterKeys
      <4>2. IsNew(blk.txs[j], TipHeight, a)
        <5>1. j \in 1 .. Len(blk.txs)
          BY <1>1
        <5> QED BY <2>1, <5>1 DEF Made
      <4> HIDE DEF a
      <4> QED BY <4>1, <4>2 DEF IsNew
    <3> QED BY <3>1
  <2> QED BY <2>2, <2>3, <2>4, WithoutNone
<1>5. /\ \A i \in 2 .. n : BlockMade(i)'
      /\ \A i \in 1 .. n : Sound(chain[i].after, Height(i))'
  BY <1>0, <1>1, <1>2, <1>3, BlocksStay
<1>6. Sound(view', TipHeight - 1)
  <2>1. Sound(a, Height(n)) /\ Height(n) = TipHeight - 1 /\ Height(n) \in Nat
    BY <1>0, <1>2, HeightsAssumption DEF RInv, Height
  <2>2. IsDb("bets", cache.bets)
    BY DEF RInv, Sound, AllDbs, Dbs, BetDbs
  <2> HIDE DEF a, n
  <2> QED BY <1>3, <1>4, <2>1, <2>2, SoundSame
<1>7. Sound(view, TipHeight)' /\ Sound(cache, BlkHeight)'
  BY <1>1, <1>6 DEF Sound, AllDbs, IsDb
<1>8. \A d \in ODbs : view'[d] = chain'[Len(chain')].after[d]
  BY <1>1, <1>2, <1>3, <1>4
<1> QED BY <1>1, <1>5, <1>7, <1>8 DEF RInv

LEMMA RInvStep ==
    ASSUME Ordinary, Lists, NoGames, Base, RInv, mode' # "failed", [Next]_vars
    PROVE  RInv'
<1>0. TypeOK /\ UInv /\ AllDbs(cache)
  BY DEF Base, IInv, RInv, Sound
<1>1. CASE UNCHANGED vars
  <2>1. view' = view /\ cache' = cache /\ chain' = chain /\ mode' = mode /\ blk' = blk /\ pos' = pos
    BY <1>1 DEF vars
  <2>2. TipHeight' = TipHeight /\ BlkHeight' = BlkHeight /\ HandledCount' = HandledCount /\ Len(chain) \in Nat
    BY <1>0, <2>1, ChainSeq DEF TipHeight, BlkHeight, HandledCount
  <2>3. /\ \A i \in 2 .. Len(chain) : BlockMade(i)'
        /\ \A i \in 1 .. Len(chain) : Sound(chain[i].after, Height(i))'
    BY <2>1, <2>2, BlocksStay
  <2>4. Building => Building'
    BY <2>1, <2>2 DEF Building, SameDbs
  <2>5. Unbuilding => Unbuilding'
    <3>1. \A d : LaterKeys(d)' = LaterKeys(d)
      BY <2>1, <2>2 DEF LaterKeys
    <3> QED BY <2>1, <2>2, <3>1 DEF Unbuilding
  <2>6. Sound(view, TipHeight)' /\ Sound(cache, BlkHeight)'
    BY <2>1, <2>2 DEF RInv, Sound, AllDbs, IsDb
  <2> QED BY <2>1, <2>3, <2>4, <2>5, <2>6 DEF RInv
<1>2. CASE Connect
  BY <1>2, BeginConnectMade, RejectBlockMade, TakeTxMade, EndConnectMade DEF Connect
<1>3. CASE Disconnect
  <2>1. CASE BeginDisconnect
    <3>1. mode' = "disconnect"
      BY <2>1 DEF BeginDisconnect, Abort
    <3> QED BY <2>1, <3>1, BeginDisconnectMade
  <2> QED BY <1>3, <2>1, EndDisconnectMade DEF Disconnect
<1>4. CASE OutputAction
  <2>1. ConnectsOutput \/ DisconnectsOutput
    BY <1>0, <1>4, Outputs DEF OutputAction, Abort
  <2>2. CASE ConnectsOutput
    <3>1. Connecting
      BY <1>0, <1>4, <2>2, OutputConnecting DEF ConnectsOutput
    <3> QED BY <1>0, <2>2, <3>1, ConnectingBuilds
  <2>3. CASE DisconnectsOutput
    <3>1. Disconnecting
      BY <1>0, <1>4, <2>3, OutputDisconnecting DEF DisconnectsOutput
    <3> QED BY <1>0, <2>3, <3>1, DisconnectingUnbuilds
  <2> QED BY <2>1, <2>2, <2>3
<1> QED BY <1>1, <1>2, <1>3, <1>4 DEF Next, OutputAction

LEMMA InitRInv == Reversible /\ Init => RInv
<1> SUFFICES ASSUME Reversible, Init PROVE RInv
  OBVIOUS
<1>1. /\ view = BaseView /\ cache = BaseView /\ chain = <<Connected(NoBlock, BaseView)>> /\ mode = "idle"
  BY DEF Init
<1>2. Len(chain) = 1 /\ chain[1].after = BaseView
  BY <1>1 DEF Connected
<1>3. TipHeight = BaseHeight /\ BlkHeight = BaseHeight /\ Height(1) = BaseHeight
  BY <1>1, <1>2, HeightsAssumption DEF TipHeight, BlkHeight, Height
<1> QED BY <1>1, <1>2, <1>3 DEF RInv, Reversible

-----------------------------------------------------------------------------
\* Settling: which bets a block settles, and what it pays for them.

\* The fields of a bet.
BetFields == {"amount", "legs", "locked", "time", "completed", "resultType", "payout", "payoutHeight"}
IsBetRecord(b) == b = [f \in BetFields |-> b[f]]

\* A key of the bets' database.
IsKey(k) == k = <<k[1], k[2], k[3]>> /\ k[1] \in Nat /\ k[2] \in Nat /\ k[3] \in Nat

\* Some of these results settles the bet.
SettledHere(bet, results, ids) == \E i \in DOMAIN ids : SettledBy(bet, results, ids, i)

\* What settling makes of a bet.
DoneBet(b, h, c) ==
    /\ c.completed = TRUE
    /\ \A f \in {"amount", "legs", "locked", "time"} : c[f] = b[f]
    /\ IsBetRecord(c)
    /\ c.payoutHeight = IF c.payout > 0 THEN h ELSE b.payoutHeight

\* There is a first result that settles.
LEMMA FirstSettles ==
    ASSUME NEW bets, NEW results, NEW ids, NEW start, NEW N \in Nat, DOMAIN ids = 1 .. N,
           NEW k \in DOMAIN bets
    PROVE  (\E p \in Settlements(bets, results, ids, start) : p[2] = k)
              <=> k[1] >= start /\ SettledHere(bets[k], results, ids)
<1> DEFINE T == {i \in DOMAIN ids : SettledBy(bets[k], results, ids, i)}
<1>1. ASSUME k[1] >= start, SettledHere(bets[k], results, ids)
      PROVE  \E p \in Settlements(bets, results, ids, start) : p[2] = k
  <2>1. T \subseteq Nat /\ T # {}
    BY <1>1 DEF SettledHere
  <2>2. PICK n \in T : \A m \in T : n <= m
    <3> HIDE DEF T
    <3> QED BY <2>1, LeastNatural
  <2>3. \A j \in 1 .. n - 1 : ~SettledBy(bets[k], results, ids, j)
    BY <2>1, <2>2
  <2>4. <<n, k>> \in Settlements(bets, results, ids, start)
    BY <1>1, <2>2, <2>3 DEF Settlements
  <2> QED BY <2>4
<1>2. ASSUME NEW p \in Settlements(bets, results, ids, start), p[2] = k
      PROVE  k[1] >= start /\ SettledHere(bets[k], results, ids)
  BY <1>2 DEF Settlements, SettledHere
<1> QED BY <1>1, <1>2

\* Settling, bet by bet.
LEMMA SettledBets ==
    ASSUME NEW v, NEW ids, NEW N \in Nat, DOMAIN ids = 1 .. N, NEW h,
           \A k \in DOMAIN v.bets : IsBetRecord(v.bets[k]) /\ k[1] >= SearchStart(h - 1),
           NEW S, S = GetPLBetPayouts(v, ids, h)
    PROVE  /\ DOMAIN S.bets = DOMAIN v.bets
           /\ \A k \in DOMAIN v.bets :
                IF SettledHere(v.bets[k], v.results, ids) THEN DoneBet(v.bets[k], h, S.bets[k])
                ELSE S.bets[k] = v.bets[k]
<1> DEFINE bets == v.bets
           start == SearchStart(h - 1)
           due == Settlements(bets, v.results, ids, start)
           keys == {p[2] : p \in due}
           pairs == [k \in DOMAIN bets |-> LegOdds(bets[k], v)]
           offers == [k \in DOMAIN bets |-> Quotes(bets[k])]
<1>1. S.bets = [k \in DOMAIN bets |->
                  IF k \in keys THEN SetCompleted(bets[k], pairs[k], offers[k], h) ELSE bets[k]]
  BY DEF GetPLBetPayouts, WithRewards, SettleResults
<1>2. ASSUME NEW k \in DOMAIN bets
      PROVE  k \in keys <=> SettledHere(bets[k], v.results, ids)
  <2>1. k \in keys <=> \E p \in due : p[2] = k
    OBVIOUS
  <2>2. (\E p \in due : p[2] = k) <=> k[1] >= start /\ SettledHere(bets[k], v.results, ids)
    <3>1. ASSUME NEW b, NEW r, b = bets, r = v.results
          PROVE  (\E p \in Settlements(b, r, ids, start) : p[2] = k) <=> k[1] >= start /\ SettledHere(b[k], r, ids)
      <4> HIDE DEF start, bets
      <4> QED BY <3>1, FirstSettles
    <3> QED BY <3>1
  <2> QED BY <2>1, <2>2
<1>3. ASSUME NEW k \in DOMAIN bets, NEW c, c = SetCompleted(bets[k], pairs[k], offers[k], h)
      PROVE  DoneBet(bets[k], h, c)
  <2> DEFINE b == bets[k]
  <2>1. IsBetRecord(b)
    OBVIOUS
  <2>2. \E payout, type : c = [b EXCEPT !.completed = TRUE, !.payout = payout, !.resultType = type,
                                 !.payoutHeight = IF payout > 0 THEN h ELSE @]
    BY <1>3 DEF SetCompleted
  <2> HIDE DEF b
  <2> QED BY <2>1, <2>2 DEF DoneBet, IsBetRecord, BetFields, b
<1> HIDE DEF bets, keys, pairs, offers
<1>4. DOMAIN S.bets = DOMAIN bets
  BY <1>1
<1>5. ASSUME NEW k \in DOMAIN bets
      PROVE  IF SettledHere(bets[k], v.results, ids) THEN DoneBet(bets[k], h, S.bets[k]) ELSE S.bets[k] = bets[k]
  BY <1>1, <1>2, <1>3
<1> QED BY <1>4, <1>5 DEF bets

\* P pays every bet of K what it records, once, and no other player.
PaysFor(P, K, bets) ==
    /\ \A i \in DOMAIN P : P[i].amount > 0
    /\ \A i \in DOMAIN P : P[i].to = "player" => P[i].key \in K /\ P[i].amount = bets[P[i].key].payout
    /\ \A k \in K : bets[k].payout > 0 => \E i \in DOMAIN P : P[i].to = "player" /\ P[i].key = k
    /\ \A i, j \in DOMAIN P : P[i].to = "player" /\ P[j].to = "player" /\ P[i].key = P[j].key => i = j

PaysList(P, K, bets) == PaysFor(P, K, bets) /\ \E m \in Nat : P = [i \in 1 .. m |-> P[i]]

PlayersList(P, K, bets) ==
    /\ \E m \in Nat : P = [i \in 1 .. m |-> P[i]]
    /\ \A i \in DOMAIN P : P[i].to = "player"
    /\ PaysFor(P, K, bets)

\* Pairs of a result and a bet are in a strict order.
LEMMA SettlementsOrdered ==
    ASSUME NEW due, \A p \in due : p = <<p[1], p[2]>> /\ p[1] \in Nat /\ IsKey(p[2])
    PROVE  StrictOrder(due, SettlementOrder(due))
<1>1. ASSUME NEW p \in due, NEW q \in due
      PROVE  <<p, q>> \in SettlementOrder(due) <=> p[1] < q[1] \/ (p[1] = q[1] /\ KeyLess(p[2], q[2]))
  BY DEF SettlementOrder
<1>2. ASSUME NEW k, NEW l, IsKey(k), IsKey(l)
      PROVE  ~KeyLess(k, k) /\ (k = l \/ KeyLess(k, l) \/ KeyLess(l, k))
  BY <1>2 DEF KeyLess, IsKey
<1>3. ASSUME NEW k, NEW l, NEW j, IsKey(k), IsKey(l), IsKey(j), KeyLess(k, l), KeyLess(l, j)
      PROVE  KeyLess(k, j)
  BY <1>3 DEF KeyLess, IsKey
<1>4. \A x \in due : <<x, x>> \notin SettlementOrder(due)
  BY <1>1, <1>2
<1>5. ASSUME NEW x \in due, NEW y \in due, NEW z \in due,
             <<x, y>> \in SettlementOrder(due), <<y, z>> \in SettlementOrder(due)
      PROVE  <<x, z>> \in SettlementOrder(due)
  BY <1>1, <1>3, <1>5
<1>6. ASSUME NEW x \in due, NEW y \in due
      PROVE  x = y \/ <<x, y>> \in SettlementOrder(due) \/ <<y, x>> \in SettlementOrder(due)
  <2>1. x[1] \in Nat /\ y[1] \in Nat /\ IsKey(x[2]) /\ IsKey(y[2]) /\ x = <<x[1], x[2]>> /\ y = <<y[1], y[2]>>
    OBVIOUS
  <2>2. CASE x[2] = y[2] /\ x[1] = y[1]
    BY <2>1, <2>2
  <2>3. CASE x[1] # y[1]
    BY <1>1, <2>1, <2>3
  <2>4. CASE x[1] = y[1] /\ x[2] # y[2]
    BY <1>1, <1>2, <2>1, <2>4
  <2> QED BY <2>2, <2>3, <2>4
<1> QED BY <1>4, <1>5, <1>6 DEF StrictOrder

\* The payouts of the bets, before the rewards.
LEMMA PaidOutList ==
    ASSUME NEW bets, NEW due, IsFiniteSet(due), NEW odds,
           \A p \in due : p = <<p[1], p[2]>> /\ p[1] \in Nat /\ IsKey(p[2]),
           \A p, q \in due : p[2] = q[2] => p = q,
           NEW done, \A p \in due : done[p[2]].payout = Worth(bets[p[2]].amount, odds[p[2]][2]),
           NEW Q, Q = PaidOut(bets, due, odds)
    PROVE  PlayersList(Q, {p[2] : p \in due}, done)
<1> DEFINE Net(k) == Worth(bets[k].amount, odds[k][2])
           paid == {p \in due : Net(p[2]) > 0}
           ps == InOrder(paid, SettlementOrder(paid))
           m == Cardinality(paid)
<1>1. Q = [i \in 1 .. m |-> Payout(ps[i][2], Net(ps[i][2]), PayoutType(odds[ps[i][2]]))]
  BY DEF PaidOut
<1>2. IsFiniteSet(paid) /\ paid \subseteq due
  BY FS_Subset
<1>3. StrictOrder(paid, SettlementOrder(paid))
  BY <1>2, SettlementsOrdered
<1>p. \A p \in paid : p \in due /\ Net(p[2]) > 0 /\ done[p[2]].payout = Net(p[2])
  OBVIOUS
<1>q. \A p \in due : done[p[2]].payout > 0 => p \in paid
  OBVIOUS
<1> HIDE DEF paid
<1>4. /\ m \in Nat /\ ps \in [1 .. m -> paid]
      /\ \A x \in paid : \E i \in 1 .. m : ps[i] = x
      /\ \A i, j \in 1 .. m : ps[i] = ps[j] => i = j
  BY <1>2, <1>3, InOrderLists
<1> HIDE DEF ps, m, Net
<1>5. DOMAIN Q = 1 .. m
  BY <1>1
<1>6. ASSUME NEW i \in 1 .. m
      PROVE  ps[i] \in paid /\ Q[i].to = "player" /\ Q[i].key = ps[i][2] /\ Q[i].amount = Net(ps[i][2])
  BY <1>1, <1>4 DEF Payout
<1>7. \A i \in DOMAIN Q : Q[i].amount > 0 /\ Q[i].to = "player"
                            /\ Q[i].key \in {p[2] : p \in due} /\ Q[i].amount = done[Q[i].key].payout
  BY <1>5, <1>6, <1>p
<1>8. ASSUME NEW k \in {p[2] : p \in due}, done[k].payout > 0
      PROVE  \E i \in DOMAIN Q : Q[i].to = "player" /\ Q[i].key = k
  <2>1. PICK p \in due : p[2] = k
    OBVIOUS
  <2>2. p \in paid
    BY <1>8, <2>1, <1>q
  <2> QED BY <1>4, <1>5, <1>6, <2>1, <2>2
<1>9. ASSUME NEW i \in DOMAIN Q, NEW j \in DOMAIN Q, Q[i].key = Q[j].key PROVE i = j
  <2>1. ps[i] \in paid /\ ps[j] \in paid /\ ps[i][2] = ps[j][2]
    BY <1>5, <1>6, <1>9
  <2>2. ps[i] = ps[j]
    BY <1>p, <2>1
  <2> QED BY <1>4, <1>5, <2>2
<1>10. PaysFor(Q, {p[2] : p \in due}, done)
  BY <1>7, <1>8, <1>9 DEF PaysFor
<1>11. \E n \in Nat : Q = [i \in 1 .. n |-> Q[i]]
  BY <1>1, <1>4
<1> QED BY <1>7, <1>10, <1>11 DEF PlayersList

\* Rewards do not go to players.
LEMMA RewardsList ==
    ASSUME NEW fee, NEW h, NEW W, W = Rewards(fee, h)
    PROVE  /\ W \in Seq({Reward("dev", h, fee \div 10, "bettingReward"),
                         Reward("omno", h, (fee * 4) \div 10, "bettingReward")})
           /\ \A i \in DOMAIN W : W[i].amount > 0 /\ W[i].to # "player"
<1> DEFINE a == Reward("dev", h, fee \div 10, "bettingReward")
           b == Reward("omno", h, (fee * 4) \div 10, "bettingReward")
           p == IF a.amount > 0 THEN <<a>> ELSE <<>>
           q == IF b.amount > 0 THEN <<b>> ELSE <<>>
<1>1. W = p \o q
  BY DEF Rewards
<1>2. a.to = "dev" /\ b.to = "omno"
  BY DEF Reward
<1> HIDE DEF a, b
<1>3. W \in Seq({a, b}) /\ \A i \in DOMAIN W : W[i].amount > 0 /\ W[i].to # "player"
  <2>1. p \in Seq({a, b}) /\ \A i \in DOMAIN p : p[i].amount > 0 /\ p[i].to # "player"
    <3>1. CASE a.amount > 0
      <4>1. p = <<a>>
        BY <3>1
      <4> HIDE DEF p
      <4>2. DOMAIN p = {1} /\ p[1] = a /\ p \in Seq({a, b})
        BY <4>1
      <4> QED BY <1>2, <3>1, <4>2
    <3>2. CASE ~(a.amount > 0)
      <4>1. p = <<>>
        BY <3>2
      <4> HIDE DEF p
      <4> QED BY <4>1
    <3> QED BY <3>1, <3>2
  <2>2. q \in Seq({a, b}) /\ \A i \in DOMAIN q : q[i].amount > 0 /\ q[i].to # "player"
    <3>1. CASE b.amount > 0
      <4>1. q = <<b>>
        BY <3>1
      <4> HIDE DEF q
      <4>2. DOMAIN q = {1} /\ q[1] = b /\ q \in Seq({a, b})
        BY <4>1
      <4> QED BY <1>2, <3>1, <4>2
    <3>2. CASE ~(b.amount > 0)
      <4>1. q = <<>>
        BY <3>2
      <4> HIDE DEF q
      <4> QED BY <4>1
    <3> QED BY <3>1, <3>2
  <2> HIDE DEF p, q
  <2>3. /\ W \in Seq({a, b}) /\ Len(W) = Len(p) + Len(q) /\ DOMAIN W = 1 .. Len(p) + Len(q)
        /\ Len(p) \in Nat /\ Len(q) \in Nat /\ DOMAIN p = 1 .. Len(p) /\ DOMAIN q = 1 .. Len(q)
        /\ \A i \in 1 .. Len(p) + Len(q) : W[i] = IF i <= Len(p) THEN p[i] ELSE q[i - Len(p)]
    BY <1>1, <2>1, <2>2, ConcatProperties, LenProperties
  <2>4. ASSUME NEW i \in DOMAIN W PROVE W[i].amount > 0 /\ W[i].to # "player"
    <3>1. CASE i <= Len(p)
      BY <2>1, <2>3, <3>1
    <3>2. CASE i > Len(p)
      <4>1. i - Len(p) \in DOMAIN q /\ W[i] = q[i - Len(p)]
        BY <2>3, <3>2
      <4> QED BY <2>2, <4>1
    <3> QED BY <2>3, <3>1, <3>2
  <2> QED BY <2>3, <2>4
<1> QED BY <1>3 DEF a, b

\* What a block pays for the bets that it settles.
LEMMA SettledPayouts ==
    ASSUME NEW v, NEW ids, NEW N \in Nat, DOMAIN ids = 1 .. N, NEW h, IsFiniteSet(DOMAIN v.bets),
           \A k \in DOMAIN v.bets : IsBetRecord(v.bets[k]) /\ k[1] >= SearchStart(h - 1) /\ IsKey(k),
           NEW S, S = GetPLBetPayouts(v, ids, h),
           NEW P, P = S.payouts \o <<>> \o <<>> \o <<>>
    PROVE  PaysList(P, {k \in DOMAIN v.bets : SettledHere(v.bets[k], v.results, ids)}, S.bets)
<1> DEFINE bets == v.bets
           start == SearchStart(h - 1)
           due == Settlements(bets, v.results, ids, start)
           keys == {p[2] : p \in due}
           pairs == [k \in DOMAIN bets |-> LegOdds(bets[k], v)]
           offers == [k \in DOMAIN bets |-> Quotes(bets[k])]
           odds == [k \in keys |-> FinalOdds(bets[k], pairs[k])]
           Q == PaidOut(bets, due, odds)
           W == Rewards(Fees(bets, keys, odds), h)
           K == {k \in DOMAIN bets : SettledHere(bets[k], v.results, ids)}
<1>1. /\ S.bets = [k \in DOMAIN bets |->
                     IF k \in keys THEN SetCompleted(bets[k], pairs[k], offers[k], h) ELSE bets[k]]
      /\ S.payouts = Q \o W
  BY DEF GetPLBetPayouts, WithRewards, SettleResults
<1>2. due \subseteq (1 .. N) \X DOMAIN bets
  BY DEF Settlements
<1>3. IsFiniteSet(due)
  <2>1. IsFiniteSet(1 .. N)
    BY FS_Interval
  <2>2. IsFiniteSet((1 .. N) \X DOMAIN bets)
    BY <2>1, FS_Product
  <2> QED BY <1>2, <2>2, FS_Subset
<1>4. \A p \in due : p = <<p[1], p[2]>> /\ p[1] \in Nat /\ IsKey(p[2]) /\ p[2] \in DOMAIN bets
  BY <1>2
<1>5. ASSUME NEW p \in due, NEW q \in due, p[2] = q[2] PROVE p = q
  <2>1. /\ p[1] \in 1 .. N /\ q[1] \in 1 .. N
        /\ SettledBy(bets[p[2]], v.results, ids, p[1]) /\ SettledBy(bets[q[2]], v.results, ids, q[1])
        /\ \A j \in 1 .. p[1] - 1 : ~SettledBy(bets[p[2]], v.results, ids, j)
        /\ \A j \in 1 .. q[1] - 1 : ~SettledBy(bets[q[2]], v.results, ids, j)
    BY <1>2 DEF Settlements
  <2>2. ~(p[1] < q[1]) /\ ~(q[1] < p[1])
    BY <1>5, <2>1
  <2>3. p[1] = q[1]
    BY <2>1, <2>2
  <2> QED BY <1>4, <1>5, <2>3
<1>6. ASSUME NEW p \in due PROVE S.bets[p[2]].payout = Worth(bets[p[2]].amount, odds[p[2]][2])
  <2> DEFINE k == p[2]
             b == bets[k]
  <2>1. k \in keys /\ k \in DOMAIN bets /\ IsBetRecord(b)
    BY <1>4
  <2>2. S.bets[k] = SetCompleted(b, pairs[k], offers[k], h)
    BY <1>1, <2>1
  <2>3. odds[k] = FinalOdds(b, pairs[k])
    BY <2>1
  <2> HIDE DEF pairs, offers, odds, b, keys
  <2>4. S.bets[k].payout = Worth(b.amount, FinalOdds(b, pairs[k])[2])
    BY <2>1, <2>2 DEF SetCompleted, IsBetRecord, BetFields
  <2> QED BY <2>3, <2>4 DEF b
<1>7. keys = K
  <2>1. ASSUME NEW k \in DOMAIN bets PROVE k \in keys <=> k \in K
    <3>1. k \in keys <=> \E p \in due : p[2] = k
      OBVIOUS
    <3>2. (\E p \in due : p[2] = k) <=> k[1] >= start /\ SettledHere(bets[k], v.results, ids)
      <4>1. ASSUME NEW b, NEW r, b = bets, r = v.results
            PROVE  (\E p \in Settlements(b, r, ids, start) : p[2] = k) <=> k[1] >= start /\ SettledHere(b[k], r, ids)
        <5> HIDE DEF start, bets
        <5> QED BY <4>1, FirstSettles
      <4> QED BY <4>1
    <3> QED BY <3>1, <3>2
  <2> QED BY <1>4, <2>1
<1>8. /\ \E m \in Nat : Q = [i \in 1 .. m |-> Q[i]]
      /\ \A i \in DOMAIN Q : Q[i].to = "player"
      /\ PaysFor(Q, keys, S.bets)
  <2> DEFINE done == S.bets
  <2>1. \A p \in due : done[p[2]].payout = Worth(bets[p[2]].amount, odds[p[2]][2])
    BY <1>6
  <2>2. Q = PaidOut(bets, due, odds) /\ keys = {p[2] : p \in due}
    OBVIOUS
  <2> HIDE DEF done, bets, due, odds, Q, keys
  <2>3. \A p \in due : p = <<p[1], p[2]>> /\ p[1] \in Nat /\ IsKey(p[2])
    BY <1>4
  <2>4. \A p, q \in due : p[2] = q[2] => p = q
    BY <1>5
  <2>5. PlayersList(Q, {p[2] : p \in due}, done)
    BY <1>3, <2>1, <2>2, <2>3, <2>4, PaidOutList
  <2> QED BY <2>2, <2>5 DEF done, PlayersList
<1>9. \A i \in DOMAIN W : W[i].amount > 0 /\ W[i].to # "player"
  BY RewardsList
<1>10. PICK X : W \in Seq(X)
  BY RewardsList
<1> HIDE DEF Q, W, keys, K, bets
<1>11. PICK Z : P \in Seq(Z) /\ Q \in Seq(Z) /\ W \in Seq(Z) /\ P = Q \o W
  <2> DEFINE Y == X \cup {Q[i] : i \in DOMAIN Q}
  <2>1. Q \in Seq(Y)
    <3>1. PICK m \in Nat : Q = [i \in 1 .. m |-> Q[i]]
      BY <1>8
    <3>2. \A i \in 1 .. m : Q[i] \in Y
      BY <3>1
    <3> HIDE DEF Y
    <3> QED BY <3>1, <3>2, IsASeq
  <2>2. W \in Seq(Y)
    <3>1. DOMAIN W = 1 .. Len(W) /\ Len(W) \in Nat /\ \A i \in 1 .. Len(W) : W[i] \in X
      BY <1>10, LenProperties, ElementOfSeq
    <3>2. W = [i \in 1 .. Len(W) |-> W[i]] /\ \A i \in 1 .. Len(W) : W[i] \in Y
      BY <1>10, <3>1, LenProperties
    <3> HIDE DEF Y
    <3> QED BY <3>1, <3>2, IsASeq
  <2> HIDE DEF Y
  <2>3. Q \o W \in Seq(Y)
    BY <2>1, <2>2, ConcatProperties
  <2>4. P = Q \o W
    BY <1>1, <2>3, ConcatEmptySeq
  <2> QED BY <2>1, <2>2, <2>3, <2>4
<1>12. /\ DOMAIN P = 1 .. Len(Q) + Len(W) /\ Len(Q) \in Nat /\ Len(W) \in Nat
       /\ DOMAIN Q = 1 .. Len(Q) /\ DOMAIN W = 1 .. Len(W)
       /\ \A i \in 1 .. Len(Q) + Len(W) : P[i] = IF i <= Len(Q) THEN Q[i] ELSE W[i - Len(Q)]
       /\ \E m \in Nat : P = [i \in 1 .. m |-> P[i]]
  <2>1. Len(Q) \in Nat /\ DOMAIN Q = 1 .. Len(Q) /\ Len(W) \in Nat /\ DOMAIN W = 1 .. Len(W)
    BY <1>11, LenProperties
  <2>2. DOMAIN P = 1 .. Len(P) /\ Len(P) \in Nat /\ P \in [1 .. Len(P) -> Z]
    BY <1>11, LenProperties
  <2>3. Len(P) = Len(Q) + Len(W)
    BY <1>11, ConcatProperties
  <2>4. \A i \in 1 .. Len(Q) + Len(W) : P[i] = IF i <= Len(Q) THEN Q[i] ELSE W[i - Len(Q)]
    BY <1>11, ConcatProperties
  <2>5. P = [i \in 1 .. Len(P) |-> P[i]]
    BY <2>2
  <2> QED BY <2>1, <2>2, <2>3, <2>4, <2>5
<1>13. ASSUME NEW i \in DOMAIN P
       PROVE  (i \in DOMAIN Q /\ P[i] = Q[i]) \/ (P[i].amount > 0 /\ P[i].to # "player")
  <2>1. CASE i <= Len(Q)
    BY <1>12, <2>1
  <2>2. CASE i > Len(Q)
    <3>1. i - Len(Q) \in DOMAIN W /\ P[i] = W[i - Len(Q)]
      BY <1>12, <2>2
    <3> QED BY <1>9, <3>1
  <2> QED BY <1>12, <2>1, <2>2
<1>14. \A i \in DOMAIN Q : i \in DOMAIN P /\ P[i] = Q[i]
  BY <1>12
<1>15. PaysFor(P, keys, S.bets)
  <2> DEFINE done == S.bets
  <2>1. PaysFor(Q, keys, done)
    BY <1>8
  <2> HIDE DEF done
  <2>2. ASSUME NEW i \in DOMAIN P
        PROVE  P[i].amount > 0 /\ (P[i].to = "player" => P[i].key \in keys /\ P[i].amount = done[P[i].key].payout)
    BY <1>13, <2>1 DEF PaysFor
  <2>3. ASSUME NEW k \in keys, done[k].payout > 0 PROVE \E i \in DOMAIN P : P[i].to = "player" /\ P[i].key = k
    BY <1>14, <2>1, <2>3 DEF PaysFor
  <2>4. ASSUME NEW i \in DOMAIN P, NEW j \in DOMAIN P, P[i].to = "player", P[j].to = "player", P[i].key = P[j].key
        PROVE  i = j
    <3>1. i \in DOMAIN Q /\ P[i] = Q[i] /\ j \in DOMAIN Q /\ P[j] = Q[j]
      BY <1>13, <2>4
    <3> QED BY <2>1, <2>4, <3>1 DEF PaysFor
  <2>5. PaysFor(P, keys, done)
    BY <2>2, <2>3, <2>4 DEF PaysFor
  <2> QED BY <2>5 DEF done
<1> QED BY <1>7, <1>12, <1>15 DEF K, bets, PaysList

-----------------------------------------------------------------------------
\* The bets as the blocks of the chain have made them.

\* The payoutHeight of an open bet is a leftover; apart from it the bets agree.
LikeBet(b, c) ==
    /\ IsBetRecord(b) /\ IsBetRecord(c)
    /\ \A f \in BetFields \ {"payoutHeight"} : b[f] = c[f]
    /\ c.completed => b.payoutHeight = c.payoutHeight

\* Databases with the same bets.
LikeBets(x, y) == DOMAIN x = DOMAIN y /\ \A k \in DOMAIN y : LikeBet(x[k], y[k])

\* A bet in a database at height h.
BetOK(k, b, h) ==
    /\ IsBetRecord(b) /\ IsKey(k) /\ BaseHeight < k[1] /\ k[1] <= h
    /\ b.completed \in BOOLEAN /\ DOMAIN b.legs # {}
    /\ ~b.completed => b.payout = 0 /\ b.resultType = "unknown"

\* All bets of a database.
BetsOK(bets, h) == IsFiniteSet(DOMAIN bets) /\ \A k \in DOMAIN bets : BetOK(k, bets[k], h)

\* c is the bet b, settled in the block at height h.
Completes(b, h, c) ==
    /\ IsBetRecord(b) /\ IsBetRecord(c) /\ c.completed = TRUE
    /\ \A f \in {"amount", "legs", "locked", "time"} : c[f] = b[f]
    /\ c.payout > 0 => c.payoutHeight = h

\* The bet that one of these transactions has placed, on what a says.
Placed(k, b, txs, h, a) ==
    /\ k[1] = h /\ ~b.completed
    /\ \E j \in DOMAIN txs : IsBet(txs[j]) /\ k = <<h, txs[j].id, 1>>
    /\ \A j \in DOMAIN b.legs : b.legs[j].event \in DOMAIN a.events /\ b.legs[j].event \notin DOMAIN a.results

\* The bets that are settled when the block before has the results ids.
SettledKeys(a, ids) == {k \in DOMAIN a.bets : SettledHere(a.bets[k], a.results, ids)}

\* What a block at height h makes of the bets of a, if the block before has the
\* results ids.
BetsMoved(a, ids, v, h, txs) ==
    /\ \A k \in DOMAIN a.bets :
         /\ k \in DOMAIN v.bets
         /\ IF SettledHere(a.bets[k], a.results, ids) THEN Completes(a.bets[k], h, v.bets[k])
            ELSE LikeBet(v.bets[k], a.bets[k])
    /\ \A k \in DOMAIN v.bets : k \notin DOMAIN a.bets => Placed(k, v.bets[k], txs, h, a)

\* A bet is settled when its results are those of earlier blocks, and then it is.
BetsDecided(a, v) ==
    /\ \A k \in DOMAIN v.bets : v.bets[k].completed => k \in DOMAIN a.bets /\ AllResulted(v.bets[k], a.results)
    /\ \A k \in DOMAIN a.bets :
         (\A j \in DOMAIN a.bets[k].legs : Posted(a.results, a.bets[k].legs[j].event)) => v.bets[k].completed

\* A block posts results of events that had none (CheckBettingTx) and lists them.
ResultsGrow(a, v, ids) ==
    /\ IsSeq(ids)
    /\ DOMAIN a.results \subseteq DOMAIN v.results
    /\ \A e \in DOMAIN a.results : v.results[e] = a.results[e]
    /\ {ids[j] : j \in DOMAIN ids} = DOMAIN v.results \ DOMAIN a.results

\* It pays for what it settles and writes down what it pays.
BetsPaid(a, ids, v, h, payouts) ==
    /\ PaysFor(payouts, SettledKeys(a, ids), v.bets)
    /\ v.payoutsInfo = a.payoutsInfo \cup {<<h, j, payouts[j]>> : j \in DOMAIN payouts}

\* A block, or the part of it that is connected so far.
Grown(a, ids, v, h, block) ==
    /\ BetsMoved(a, ids, v, h, block.txs)
    /\ BetsDecided(a, v)
    /\ ResultsGrow(a, v, block.vResultIDs)
    /\ BetsPaid(a, ids, v, h, block.payouts)

\* The odds a bet was placed at.
Quoted(b, k) ==
    \A j \in DOMAIN b.legs :
        b.locked[j] = chain[k[1] - BaseHeight].after.events[b.legs[j].event].info

\* What block i has made of the bets.
BlockOK(i) ==
    LET v == chain[i].after
    IN  /\ IsView(v) /\ v.lastHeight = Height(i)
        /\ BetsOK(v.bets, Height(i))
        /\ \A p \in v.payoutsInfo : p[1] \in Nat /\ p[1] <= Height(i)
        /\ IsSeq(chain[i].vResultIDs)
        /\ i = 1 => DOMAIN v.bets = {} /\ DOMAIN chain[i].payouts = {}
        /\ i # 1 => Grown(chain[i - 1].after, chain[i - 1].vResultIDs, v, Height(i), chain[i])

\* The bets at the time of the block before, and those of transactions that
\* are still to be undone.
BetsUndone(x, y, txs, m) ==
    /\ \A k \in DOMAIN y : k \in DOMAIN x /\ LikeBet(x[k], y[k])
    /\ \A k \in DOMAIN x : k \notin DOMAIN y => \E j \in 1 .. m : IsBet(txs[j]) /\ k = <<TipHeight, txs[j].id, 1>>

(* The inductive invariant of the bets.  From block to block bets are placed,
   stay open, or are settled by the results of the block before, paid in the
   same step; the odds of a bet are those of the block before its own.  The
   database at hand agrees with that up to the leftovers in open bets. *)
BInv ==
    /\ TipHeight <= BaseHeight + Timespan
    /\ \A i \in 1 .. Len(chain) : BlockOK(i)
    /\ \A i \in 1 .. Len(chain) : \A k \in DOMAIN chain[i].after.bets : Quoted(chain[i].after.bets[k], k)
    /\ LikeBets(view.bets, chain[Len(chain)].after.bets)
    /\ view.payoutsInfo = chain[Len(chain)].after.payoutsInfo
    /\ \A k \in DOMAIN cache.bets : k[1] \in BaseHeight + 1 .. BlkHeight /\ Quoted(cache.bets[k], k)
    /\ mode = "connect" =>
         /\ BlkHeight <= BaseHeight + Timespan
         /\ BetsOK(cache.bets, BlkHeight)
         /\ Grown(view, chain[Len(chain)].vResultIDs, cache, BlkHeight, blk)
    /\ mode = "disconnect" =>
         /\ BetsUndone(cache.bets, chain[Len(chain) - 1].after.bets, blk.txs, pos.tx)
         /\ cache.payoutsInfo = chain[Len(chain) - 1].after.payoutsInfo

LEMMA LikeSame ==
    ASSUME NEW b, NEW c, LikeBet(b, c)
    PROVE  /\ b.completed = c.completed /\ b.legs = c.legs /\ b.locked = c.locked /\ b.payout = c.payout
           /\ b.amount = c.amount /\ b.time = c.time
           /\ \A results, ids : SettledHere(b, results, ids) <=> SettledHere(c, results, ids)
           /\ \A results : AllResulted(b, results) <=> AllResulted(c, results)
<1>1. /\ b.completed = c.completed /\ b.legs = c.legs /\ b.locked = c.locked /\ b.payout = c.payout
      /\ b.amount = c.amount /\ b.time = c.time
  BY DEF LikeBet, BetFields
<1>2. \A results : AllResulted(b, results) <=> AllResulted(c, results)
  BY <1>1 DEF AllResulted
<1>3. \A results, ids : SettledHere(b, results, ids) <=> SettledHere(c, results, ids)
  BY <1>1, <1>2 DEF SettledHere, SettledBy, Due, Names
<1> QED BY <1>1, <1>2, <1>3

LEMMA LikeRefl == ASSUME NEW b, IsBetRecord(b) PROVE LikeBet(b, b)
BY DEF LikeBet

LEMMA LikeTrans == ASSUME NEW b, NEW c, NEW d, LikeBet(b, c), LikeBet(c, d) PROVE LikeBet(b, d)
BY DEF LikeBet, BetFields

\* Of two settled bets that are alike one is the other.
LEMMA LikeCompleted == ASSUME NEW b, NEW c, LikeBet(b, c), c.completed PROVE b = c
<1>1. \A f \in BetFields : b[f] = c[f]
  BY DEF LikeBet, BetFields
<1> QED BY <1>1 DEF LikeBet, IsBetRecord

\* Grown looks at the bets up to the leftovers of open ones.
LEMMA GrownLike ==
    ASSUME NEW a, NEW b, NEW v, NEW w, NEW ids, NEW h, NEW block, NEW x, Grown(a, ids, v, h, x),
           block.txs = x.txs, block.vResultIDs = x.vResultIDs, block.payouts = x.payouts,
           LikeBets(a.bets, b.bets), b.results = a.results, b.events = a.events, b.payoutsInfo = a.payoutsInfo,
           w.bets = v.bets, w.results = v.results, w.payoutsInfo = v.payoutsInfo
    PROVE  Grown(b, ids, w, h, block)
<1>0. DOMAIN b.bets = DOMAIN a.bets /\ \A k \in DOMAIN a.bets : LikeBet(a.bets[k], b.bets[k])
  BY DEF LikeBets
<1>k. \A k \in DOMAIN a.bets : SettledHere(a.bets[k], a.results, ids) <=> SettledHere(b.bets[k], b.results, ids)
  BY <1>0, LikeSame
<1>1. BetsMoved(b, ids, w, h, block.txs)
  <2>1. ASSUME NEW k \in DOMAIN b.bets
        PROVE  /\ k \in DOMAIN w.bets
               /\ IF SettledHere(b.bets[k], b.results, ids) THEN Completes(b.bets[k], h, w.bets[k])
                  ELSE LikeBet(w.bets[k], b.bets[k])
    <3>1. k \in DOMAIN a.bets /\ LikeBet(a.bets[k], b.bets[k])
      BY <1>0
    <3>2. /\ k \in DOMAIN w.bets
          /\ IF SettledHere(a.bets[k], a.results, ids) THEN Completes(a.bets[k], h, w.bets[k])
             ELSE LikeBet(w.bets[k], a.bets[k])
      BY <3>1 DEF Grown, BetsMoved
    <3>3. Completes(a.bets[k], h, w.bets[k]) => Completes(b.bets[k], h, w.bets[k])
      BY <3>1 DEF Completes, LikeBet, BetFields
    <3>4. LikeBet(w.bets[k], a.bets[k]) => LikeBet(w.bets[k], b.bets[k])
      BY <3>1, LikeTrans
    <3> QED BY <1>k, <3>1, <3>2, <3>3, <3>4
  <2>2. \A k \in DOMAIN w.bets : k \notin DOMAIN b.bets => Placed(k, w.bets[k], block.txs, h, b)
    BY <1>0 DEF Grown, BetsMoved, Placed
  <2> QED BY <2>1, <2>2 DEF BetsMoved
<1>2. BetsDecided(b, w)
  <2>1. \A k \in DOMAIN a.bets : a.bets[k].legs = b.bets[k].legs
    BY <1>0, LikeSame
  <2> QED BY <1>0, <2>1 DEF Grown, BetsDecided
<1>3. ResultsGrow(b, w, block.vResultIDs)
  BY DEF Grown, ResultsGrow
<1>4. BetsPaid(b, ids, w, h, block.payouts)
  <2>1. SettledKeys(b, ids) = SettledKeys(a, ids)
    BY <1>0, <1>k DEF SettledKeys
  <2> QED BY <2>1 DEF Grown, BetsPaid
<1> QED BY <1>1, <1>2, <1>3, <1>4 DEF Grown

\* The blocks of the chain stay as they are.
LEMMA BlocksOK ==
    ASSUME BInv, NEW n, n \in Int, n <= Len(chain), Len(chain) \in Nat, \A i \in 1 .. n : chain'[i] = chain[i]
    PROVE  /\ \A i \in 1 .. n : BlockOK(i)'
           /\ \A i \in 1 .. n : \A k \in DOMAIN chain'[i].after.bets : Quoted(chain[i].after.bets[k], k)'
<1>1. ASSUME NEW i \in 1 .. n PROVE BlockOK(i)'
  <2>1. BlockOK(i) /\ chain'[i] = chain[i] /\ Height(i)' = Height(i)
    BY DEF BInv, Height
  <2>2. i # 1 => chain'[i - 1] = chain[i - 1]
    OBVIOUS
  <2> QED BY <2>1, <2>2 DEF BlockOK
<1>2. ASSUME NEW i \in 1 .. n, NEW k \in DOMAIN chain'[i].after.bets PROVE Quoted(chain[i].after.bets[k], k)'
  <2>1. i \in 1 .. Len(chain) /\ chain'[i] = chain[i]
    OBVIOUS
  <2>2. Quoted(chain[i].after.bets[k], k) /\ BetOK(k, chain[i].after.bets[k], Height(i))
    BY <2>1 DEF BInv, BlockOK, BetsOK
  <2>3. k[1] - BaseHeight \in 1 .. n
    <3>1. k[1] \in Nat /\ BaseHeight < k[1] /\ k[1] <= BaseHeight + i - 1 /\ BaseHeight \in Nat
      BY <2>2, HeightsAssumption DEF BetOK, IsKey, Height
    <3> QED BY <3>1
  <2> QED BY <2>1, <2>2, <2>3 DEF Quoted
<1> QED BY <1>1, <1>2

-----------------------------------------------------------------------------
\* Settling leads from a block to the next.

\* All bets are within the reach of settling.
LEMMA ViewBets ==
    ASSUME TypeOK, BInv
    PROVE  /\ BetsOK(view.bets, TipHeight)
           /\ \A k \in DOMAIN view.bets : k[1] >= SearchStart(TipHeight)
<1>1. /\ Len(chain) \in 1 .. Len(chain) /\ Height(Len(chain)) = TipHeight /\ TipHeight \in Nat
  BY ChainSeq DEF Height
<1> DEFINE a == chain[Len(chain)].after
<1>2. BetsOK(a.bets, TipHeight) /\ LikeBets(view.bets, a.bets)
  BY <1>1 DEF BInv, BlockOK
<1> HIDE DEF a
<1>3. ASSUME NEW k \in DOMAIN view.bets PROVE BetOK(k, view.bets[k], TipHeight)
  <2>1. LikeBet(view.bets[k], a.bets[k]) /\ BetOK(k, a.bets[k], TipHeight)
    BY <1>2 DEF LikeBets, BetsOK
  <2> QED BY <2>1 DEF LikeBet, BetOK, BetFields
<1>4. BetsOK(view.bets, TipHeight)
  BY <1>2, <1>3 DEF BetsOK, LikeBets
<1>5. ASSUME NEW k \in DOMAIN view.bets PROVE k[1] >= SearchStart(TipHeight)
  <2>1. k[1] \in Nat /\ BaseHeight < k[1]
    BY <1>3 DEF BetOK, IsKey
  <2>2. TipHeight <= BaseHeight + Timespan
    BY DEF BInv
  <2> QED BY <1>1, <2>1, <2>2, HeightsAssumption DEF SearchStart
<1> QED BY <1>4, <1>5

\* What settling makes of the bets, when the block before has these results.
LEMMA SettlingMoves ==
    ASSUME TypeOK, BInv, NEW c, c.bets = Settled.bets, c.results = view.results, NEW txs
    PROVE  /\ DOMAIN c.bets = DOMAIN view.bets
           /\ \A k \in DOMAIN view.bets :
                IF SettledHere(view.bets[k], view.results, chain[Len(chain)].vResultIDs)
                THEN Completes(view.bets[k], TipHeight + 1, c.bets[k])
                ELSE c.bets[k] = view.bets[k]
           /\ BetsOK(c.bets, TipHeight + 1)
<1> DEFINE ids == chain[Len(chain)].vResultIDs
           h == TipHeight + 1
<1>1. Len(chain) \in 1 .. Len(chain) /\ TipHeight \in Nat /\ h \in Nat /\ h - 1 = TipHeight
  BY ChainSeq
<1>2. Len(ids) \in Nat /\ DOMAIN ids = 1 .. Len(ids)
  BY <1>1, LenProperties DEF BInv, BlockOK, IsSeq
<1>3. /\ BetsOK(view.bets, TipHeight)
      /\ \A k \in DOMAIN view.bets : IsBetRecord(view.bets[k]) /\ k[1] >= SearchStart(h - 1)
  BY <1>1, ViewBets DEF BetsOK, BetOK
<1>4. PICK S : S = GetPLBetPayouts(view, ids, h)
  OBVIOUS
<1>5. Settled = S
  BY <1>4 DEF Settled
<1> HIDE DEF ids, h
<1>6. /\ DOMAIN S.bets = DOMAIN view.bets
      /\ \A k \in DOMAIN view.bets :
                IF SettledHere(view.bets[k], view.results, ids) THEN DoneBet(view.bets[k], h, S.bets[k])
                ELSE S.bets[k] = view.bets[k]
  BY <1>2, <1>3, <1>4, SettledBets
<1>7. ASSUME NEW k \in DOMAIN view.bets
      PROVE  IF SettledHere(view.bets[k], view.results, ids) THEN Completes(view.bets[k], h, c.bets[k])
             ELSE c.bets[k] = view.bets[k]
  BY <1>3, <1>5, <1>6 DEF DoneBet, Completes
<1>8. BetsOK(c.bets, h)
  <2>1. DOMAIN c.bets = DOMAIN view.bets /\ IsFiniteSet(DOMAIN view.bets)
    BY <1>3, <1>5, <1>6 DEF BetsOK
  <2>2. ASSUME NEW k \in DOMAIN view.bets PROVE BetOK(k, c.bets[k], h)
    <3>1. BetOK(k, view.bets[k], TipHeight) /\ TipHeight <= h /\ h \in Nat
      BY <1>1, <1>3 DEF BetsOK, h
    <3>2. IsKey(k) /\ BaseHeight < k[1] /\ k[1] <= h
      <4>1. k[1] \in Nat /\ k[1] <= TipHeight
        BY <3>1 DEF BetOK, IsKey
      <4> QED BY <1>1, <3>1, <4>1 DEF BetOK
    <3>3. CASE SettledHere(view.bets[k], view.results, ids)
      BY <1>7, <3>1, <3>2, <3>3 DEF BetOK, Completes
    <3>4. CASE ~SettledHere(view.bets[k], view.results, ids)
      BY <1>7, <3>1, <3>2, <3>4 DEF BetOK
    <3> QED BY <3>3, <3>4
  <2> QED BY <2>1, <2>2 DEF BetsOK
<1> QED BY <1>5, <1>6, <1>7, <1>8 DEF ids, h

\* An open bet is settled as soon as the last of its results is there.
LEMMA SettlingDecides ==
    ASSUME TypeOK, BInv, view.results = chain[Len(chain)].after.results,
           NEW c, c.bets = Settled.bets, c.results = view.results
    PROVE  BetsDecided(view, c)
<1> DEFINE n == Len(chain)
           ids == chain[n].vResultIDs
           a == chain[n].after
           p == chain[n - 1].after
<1>1. n \in 1 .. Len(chain) /\ n \in Nat \ {0} /\ BlockOK(n) /\ LikeBets(view.bets, a.bets) /\ view.results = a.results
  BY ChainSeq DEF BInv
<1>2. /\ DOMAIN c.bets = DOMAIN view.bets
      /\ \A k \in DOMAIN view.bets :
           IF SettledHere(view.bets[k], view.results, ids) THEN Completes(view.bets[k], TipHeight + 1, c.bets[k])
           ELSE c.bets[k] = view.bets[k]
  BY SettlingMoves
<1>3. ASSUME NEW k \in DOMAIN view.bets
      PROVE  /\ n # 1 /\ Grown(p, chain[n - 1].vResultIDs, a, Height(n), chain[n])
             /\ k \in DOMAIN a.bets /\ view.bets[k].completed = a.bets[k].completed /\ view.bets[k].legs = a.bets[k].legs
  <2>1. k \in DOMAIN a.bets /\ LikeBet(view.bets[k], a.bets[k])
    BY <1>1 DEF LikeBets
  <2> QED BY <1>1, <2>1, LikeSame DEF BlockOK
<1> HIDE DEF n, ids, a, p
<1>4. ASSUME NEW k \in DOMAIN c.bets, c.bets[k].completed
      PROVE  k \in DOMAIN view.bets /\ AllResulted(c.bets[k], view.results)
  <2>1. k \in DOMAIN view.bets
    BY <1>2
  <2>2. CASE SettledHere(view.bets[k], view.results, ids)
    <3>1. AllResulted(view.bets[k], view.results)
      BY <2>2 DEF SettledHere, SettledBy, Due
    <3>2. c.bets[k].legs = view.bets[k].legs
      BY <1>2, <2>1, <2>2 DEF Completes
    <3> QED BY <2>1, <3>1, <3>2 DEF AllResulted
  <2>3. CASE ~SettledHere(view.bets[k], view.results, ids)
    <3>1. c.bets[k] = view.bets[k] /\ a.bets[k].completed /\ k \in DOMAIN a.bets
      BY <1>2, <1>3, <1>4, <2>1, <2>3
    <3>2. AllResulted(a.bets[k], p.results) /\ DOMAIN p.results \subseteq DOMAIN a.results
      BY <1>3, <2>1, <3>1 DEF Grown, BetsDecided, ResultsGrow
    <3> QED BY <1>1, <1>3, <2>1, <3>1, <3>2 DEF AllResulted
  <2> QED BY <2>2, <2>3
<1>5. ASSUME NEW k \in DOMAIN view.bets,
             \A j \in DOMAIN view.bets[k].legs : Posted(view.results, view.bets[k].legs[j].event)
      PROVE  c.bets[k].completed
  <2> DEFINE b == view.bets[k]
  <2>1. CASE b.completed
    BY <1>2, <2>1 DEF Completes
  <2>2. CASE ~b.completed
    <3>1. /\ Grown(p, chain[n - 1].vResultIDs, a, Height(n), chain[n])
          /\ k \in DOMAIN a.bets /\ a.bets[k].completed = b.completed /\ b.legs = a.bets[k].legs
      BY <1>3
    <3>2. PICK j \in DOMAIN b.legs : b.legs[j].event \notin DOMAIN p.results
      <4>1. CASE k \notin DOMAIN p.bets
        <5>1. Placed(k, a.bets[k], chain[n].txs, Height(n), p)
          BY <3>1, <4>1 DEF Grown, BetsMoved
        <5>2. DOMAIN b.legs # {}
          BY ViewBets DEF BetsOK, BetOK
        <5> QED BY <3>1, <5>1, <5>2 DEF Placed
      <4>2. CASE k \in DOMAIN p.bets
        <5>1. p.bets[k].legs = a.bets[k].legs
          <6>1. Completes(p.bets[k], Height(n), a.bets[k]) \/ LikeBet(a.bets[k], p.bets[k])
            BY <3>1, <4>2 DEF Grown, BetsMoved
          <6> QED BY <6>1, LikeSame DEF Completes
        <5>2. ~(\A j \in DOMAIN b.legs : Posted(p.results, b.legs[j].event))
          BY <2>2, <3>1, <4>2, <5>1 DEF Grown, BetsDecided
        <5>3. PICK j \in DOMAIN b.legs : ~Posted(p.results, b.legs[j].event)
          BY <5>2
        <5>4. Posted(a.results, b.legs[j].event)
          BY <1>1, <1>5
        <5>5. \A e \in DOMAIN p.results : a.results[e] = p.results[e]
          BY <3>1 DEF Grown, ResultsGrow
        <5> QED BY <5>3, <5>4, <5>5 DEF Posted
      <4> QED BY <4>1, <4>2
    <3>3. PICK i \in DOMAIN ids : ids[i] = b.legs[j].event
      <4>1. b.legs[j].event \in DOMAIN a.results
        BY <1>1, <1>5 DEF Posted
      <4>2. {ids[i] : i \in DOMAIN ids} = DOMAIN a.results \ DOMAIN p.results
        BY <3>1 DEF Grown, ResultsGrow, ids
      <4> QED BY <3>2, <4>1, <4>2
    <3>4. AllResulted(b, view.results)
      BY <1>5 DEF AllResulted, Posted
    <3>5. SettledBy(b, view.results, ids, i)
      BY <1>5, <2>2, <3>2, <3>3, <3>4 DEF SettledBy, Due, Names
    <3> QED BY <1>2, <3>5 DEF SettledHere, Completes
  <2> QED BY <2>1, <2>2
<1> QED BY <1>4, <1>5 DEF BetsDecided

\* It is paid what it records.
LEMMA SettlingPays ==
    ASSUME TypeOK, BInv, NEW c, c.bets = Settled.bets,
           NEW P, P = Settled.payouts \o <<>> \o <<>> \o <<>>
    PROVE  /\ PaysFor(P, SettledKeys(view, chain[Len(chain)].vResultIDs), c.bets)
           /\ \E m \in Nat : P = [i \in 1 .. m |-> P[i]]
<1> DEFINE ids == chain[Len(chain)].vResultIDs
           h == TipHeight + 1
<1>1. Len(chain) \in 1 .. Len(chain) /\ TipHeight \in Nat /\ h \in Nat /\ h - 1 = TipHeight
  BY ChainSeq
<1>2. Len(ids) \in Nat /\ DOMAIN ids = 1 .. Len(ids)
  BY <1>1, LenProperties DEF BInv, BlockOK, IsSeq
<1>3. /\ IsFiniteSet(DOMAIN view.bets)
      /\ \A k \in DOMAIN view.bets : IsBetRecord(view.bets[k]) /\ k[1] >= SearchStart(h - 1) /\ IsKey(k)
  BY <1>1, ViewBets DEF BetsOK, BetOK
<1>4. PICK S : S = GetPLBetPayouts(view, ids, h)
  OBVIOUS
<1>5. Settled = S
  BY <1>4 DEF Settled
<1>6. P = S.payouts \o <<>> \o <<>> \o <<>>
  BY <1>5
<1> HIDE DEF ids, h
<1>7. PaysList(P, {k \in DOMAIN view.bets : SettledHere(view.bets[k], view.results, ids)}, S.bets)
  BY <1>2, <1>3, <1>4, <1>6, SettledPayouts
<1> QED BY <1>5, <1>7 DEF PaysList, SettledKeys, ids

-----------------------------------------------------------------------------
\* BInv is kept.

\* The parts of BInv that a step keeps when it leaves chain and bettingsView.
LEMMA SameChainBets ==
    ASSUME TypeOK, BInv, view' = view, chain' = chain
    PROVE  /\ TipHeight' = TipHeight /\ TipHeight' <= BaseHeight + Timespan
           /\ \A i \in 1 .. Len(chain') : BlockOK(i)'
           /\ \A i \in 1 .. Len(chain') : \A k \in DOMAIN chain'[i].after.bets : Quoted(chain[i].after.bets[k], k)'
           /\ LikeBets(view.bets, chain[Len(chain)].after.bets)'
           /\ view'.payoutsInfo = chain'[Len(chain')].after.payoutsInfo
           /\ \A b, k : Quoted(b, k)' <=> Quoted(b, k)
<1>1. Len(chain) \in Nat /\ Len(chain) \in Int /\ Len(chain) <= Len(chain)
  BY ChainSeq
<1>2. /\ \A i \in 1 .. Len(chain) : BlockOK(i)'
      /\ \A i \in 1 .. Len(chain) : \A k \in DOMAIN chain'[i].after.bets : Quoted(chain[i].after.bets[k], k)'
  BY <1>1, BlocksOK
<1>3. LikeBets(view.bets, chain[Len(chain)].after.bets)'
  BY DEF BInv, LikeBets, LikeBet, IsBetRecord
<1>4. TipHeight' = TipHeight
  BY DEF TipHeight
<1>5. \A b, k : Quoted(b, k)' <=> Quoted(b, k)
  BY DEF Quoted
<1> QED BY <1>2, <1>3, <1>4, <1>5 DEF BInv

LEMMA BeginConnectBets ==
    ASSUME Ordinary, Reversible, Base, RInv, BInv, NEW time, NEW proof, BeginConnect(time, proof)
    PROVE  BInv'
<1>0. TypeOK /\ NoGames
  BY DEF Base, IInv, Reversible
<1>1. /\ mode = "idle" /\ cache = view /\ TipHeight < MaxHeight
      /\ mode' = "connect" /\ view' = view /\ chain' = chain
      /\ blk'.txs = <<>> /\ blk'.vResultIDs = <<>>
      /\ blk'.payouts = Settled.payouts \o <<>> \o <<>> \o <<>>
      /\ cache'.bets = Settled.bets
      /\ \A d \in Databases \ {"bets", "payoutsInfo"} : cache'[d] = view[d]
      /\ cache'.payoutsInfo = view.payoutsInfo
           \cup {<<TipHeight + 1, i, blk'.payouts[i]>> : i \in DOMAIN blk'.payouts}
  BY <1>0, BlockStarts
<1>2. TipHeight \in Nat /\ BlkHeight' = TipHeight + 1 /\ BlkHeight = TipHeight
  BY <1>0, <1>1, ChainSeq DEF BlkHeight, TipHeight
<1>3. BlkHeight' <= BaseHeight + Timespan
  BY <1>1, <1>2, HeightsAssumption DEF Reversible
<1>4. cache'.results = view.results /\ view.results = chain[Len(chain)].after.results
  BY <1>1 DEF Databases, RInv, ODbs, Dbs, BetDbs
<1> DEFINE ids == chain[Len(chain)].vResultIDs
<1>5. /\ DOMAIN cache'.bets = DOMAIN view.bets
      /\ \A k \in DOMAIN view.bets :
           IF SettledHere(view.bets[k], view.results, ids) THEN Completes(view.bets[k], TipHeight + 1, cache'.bets[k])
           ELSE cache'.bets[k] = view.bets[k]
      /\ BetsOK(cache'.bets, TipHeight + 1)
  BY <1>0, <1>1, <1>4, SettlingMoves
<1>6. BetsDecided(view, cache')
  BY <1>0, <1>1, <1>4, SettlingDecides
<1>7. PaysFor(blk'.payouts, SettledKeys(view, ids), cache'.bets)
  BY <1>0, <1>1, SettlingPays
<1>8. BetsMoved(view, ids, cache', TipHeight + 1, blk'.txs)
  <2>1. \A k \in DOMAIN view.bets : IsBetRecord(view.bets[k])
    BY <1>0, ViewBets DEF BetsOK, BetOK
  <2> QED BY <1>5, <2>1, LikeRefl DEF BetsMoved
<1>9. ResultsGrow(view, cache', blk'.vResultIDs)
  <2>1. IsSeq(<<>>) /\ DOMAIN <<>> = {}
    BY DEF IsSeq
  <2> QED BY <1>1, <1>4, <2>1 DEF ResultsGrow
<1>10. BetsPaid(view, ids, cache', TipHeight + 1, blk'.payouts)
  BY <1>1, <1>7 DEF BetsPaid
<1>11. Grown(view, ids, cache', TipHeight + 1, blk')
  BY <1>6, <1>8, <1>9, <1>10 DEF Grown
<1>12. ASSUME NEW k \in DOMAIN cache'.bets PROVE k[1] \in BaseHeight + 1 .. BlkHeight' /\ Quoted(cache'.bets[k], k)
  <2>1. k \in DOMAIN view.bets /\ k \in DOMAIN cache.bets /\ BetOK(k, cache'.bets[k], TipHeight + 1)
    BY <1>1, <1>5 DEF BetsOK
  <2>2. k[1] \in BaseHeight + 1 .. BlkHeight'
    BY <1>2, <2>1, HeightsAssumption DEF BetOK, IsKey
  <2>3. Quoted(view.bets[k], k)
    BY <1>1, <2>1 DEF BInv
  <2>4. cache'.bets[k].legs = view.bets[k].legs /\ cache'.bets[k].locked = view.bets[k].locked
    BY <1>5, <2>1 DEF Completes
  <2> QED BY <2>2, <2>3, <2>4 DEF Quoted
<1>13. \A k \in DOMAIN cache'.bets : (k[1] \in BaseHeight + 1 .. BlkHeight /\ Quoted(cache.bets[k], k))'
  BY <1>0, <1>1, <1>12, SameChainBets
<1>14. Grown(view, chain[Len(chain)].vResultIDs, cache, BlkHeight, blk)' /\ BetsOK(cache.bets, BlkHeight)'
  BY <1>1, <1>2, <1>5, <1>11
<1> QED BY <1>0, <1>1, <1>3, <1>13, <1>14, SameChainBets DEF BInv

LEMMA RejectBlockBets ==
    ASSUME Base, BInv, RejectBlock
    PROVE  BInv'
<1>1. TypeOK /\ mode' = "idle" /\ cache' = view /\ view' = view /\ chain' = chain
  BY DEF Base, IInv, RejectBlock
<1>2. BlkHeight' = TipHeight /\ TipHeight \in Nat
  BY <1>1, ChainSeq DEF BlkHeight, TipHeight
<1>3. ASSUME NEW k \in DOMAIN view.bets PROVE k[1] \in BaseHeight + 1 .. BlkHeight' /\ Quoted(view.bets[k], k)
  <2>1. BetOK(k, view.bets[k], TipHeight)
    BY <1>1, ViewBets DEF BetsOK
  <2>2. k[1] \in BaseHeight + 1 .. BlkHeight'
    BY <1>2, <2>1, HeightsAssumption DEF BetOK, IsKey
  <2> DEFINE a == chain[Len(chain)].after
  <2>3. k \in DOMAIN a.bets /\ LikeBet(view.bets[k], a.bets[k])
    BY DEF BInv, LikeBets
  <2>4. Quoted(a.bets[k], k)
    BY <1>1, <2>3, ChainSeq DEF BInv
  <2>5. view.bets[k].legs = a.bets[k].legs /\ view.bets[k].locked = a.bets[k].locked
    <3> HIDE DEF a
    <3> QED BY <2>3, LikeSame
  <2> QED BY <2>2, <2>4, <2>5 DEF Quoted
<1>4. \A k \in DOMAIN cache'.bets : (k[1] \in BaseHeight + 1 .. BlkHeight /\ Quoted(cache.bets[k], k))'
  BY <1>1, <1>3, SameChainBets
<1> QED BY <1>1, <1>4, SameChainBets DEF BInv

\* A transaction more, that is not handled yet.
LEMMA TakeTxBets ==
    ASSUME Ordinary, Base, BInv, NEW tx \in Txs, TakeTx(tx)
    PROVE  BInv'
<1>0. TypeOK
  BY DEF Base, IInv
<1>1. /\ mode = "connect" /\ mode' = mode /\ cache' = cache /\ view' = view /\ chain' = chain
      /\ blk'.txs = Append(blk.txs, tx) /\ blk'.vResultIDs = blk.vResultIDs /\ blk'.payouts = blk.payouts
  BY <1>0 DEF TakeTx, TypeOK
<1>2. BlkHeight' = BlkHeight /\ TipHeight' = TipHeight
  BY <1>1 DEF BlkHeight, TipHeight
<1>3. \A j \in DOMAIN blk.txs : j \in DOMAIN blk'.txs /\ blk'.txs[j] = blk.txs[j]
  BY <1>0, <1>1, AppendProperties, LenProperties DEF TypeOK
<1> DEFINE ids == chain[Len(chain)].vResultIDs
<1>4. Grown(view, ids, cache, BlkHeight, blk) /\ BetsOK(cache.bets, BlkHeight) /\ BlkHeight <= BaseHeight + Timespan
  BY <1>1 DEF BInv
<1>5. BetsMoved(view, ids, cache, BlkHeight, blk'.txs)
  BY <1>3, <1>4 DEF Grown, BetsMoved, Placed
<1>6. Grown(view, ids, cache, BlkHeight, blk')
  BY <1>1, <1>4, <1>5 DEF Grown
<1>7. Grown(view, chain[Len(chain)].vResultIDs, cache, BlkHeight, blk)' /\ BetsOK(cache.bets, BlkHeight)'
  BY <1>1, <1>2, <1>4, <1>6
<1>8. \A k \in DOMAIN cache'.bets : (k[1] \in BaseHeight + 1 .. BlkHeight /\ Quoted(cache.bets[k], k))'
  BY <1>0, <1>1, <1>2, SameChainBets DEF BInv
<1> QED BY <1>0, <1>1, <1>2, <1>4, <1>7, <1>8, SameChainBets DEF BInv

LEMMA EndConnectBets ==
    ASSUME Ordinary, Base, RInv, BInv, EndConnect
    PROVE  BInv'
<1>0. TypeOK /\ Len(chain) \in Nat \ {0} /\ TipHeight = BaseHeight + Len(chain) - 1 /\ TipHeight \in Nat
  BY ChainSeq DEF Base, IInv
<1>1. /\ mode = "connect" /\ mode' = "idle" /\ cache' = view'
      /\ \A d \in Databases \ {"undos", "lastHeight"} : view'[d] = cache[d]
      /\ view'.lastHeight = BlkHeight
      /\ Len(chain') = Len(chain) + 1
      /\ \A i \in 1 .. Len(chain) : chain'[i] = chain[i]
      /\ chain'[Len(chain) + 1] = Connected(blk, view')
      /\ BlkHeight = TipHeight + 1 /\ TipHeight' = BlkHeight /\ BlkHeight' = BlkHeight
  BY BlockEnds
<1>n. PICK n : n = Len(chain) + 1
  OBVIOUS
<1>2. /\ n - 1 = Len(chain) /\ n # 1 /\ n \in Nat
      /\ chain'[n].txs = blk.txs /\ chain'[n].after = view' /\ chain'[n].vResultIDs = blk.vResultIDs
      /\ chain'[n].payouts = blk.payouts /\ chain'[n - 1] = chain[Len(chain)]
  <2>1. n - 1 = Len(chain) /\ n # 1 /\ n \in Nat /\ Len(chain) \in 1 .. Len(chain)
    BY <1>0, <1>n
  <2> QED BY <1>1, <1>n, <2>1 DEF Connected
<1>3. Height(n) = BlkHeight /\ Height(n)' = BlkHeight /\ BlkHeight \in Nat
  BY <1>0, <1>1, <1>n, HeightsAssumption DEF Height
<1>4. view'.bets = cache.bets /\ view'.results = cache.results /\ view'.payoutsInfo = cache.payoutsInfo
  BY <1>1 DEF Databases
<1>5. /\ BlkHeight <= BaseHeight + Timespan /\ BetsOK(cache.bets, BlkHeight)
      /\ Grown(view, chain[Len(chain)].vResultIDs, cache, BlkHeight, blk)
      /\ LikeBets(view.bets, chain[Len(chain)].after.bets)
      /\ view.payoutsInfo = chain[Len(chain)].after.payoutsInfo
      /\ BlockOK(Len(chain))
  BY <1>0, <1>1 DEF BInv
<1>6. chain[Len(chain)].after.results = view.results /\ chain[Len(chain)].after.events = view.events
  BY DEF RInv, ODbs, Dbs, BetDbs
<1>7. Grown(chain[Len(chain)].after, chain[Len(chain)].vResultIDs, view', BlkHeight, chain'[n])
  <2>1. PICK a : a = chain[Len(chain)].after
    OBVIOUS
  <2>2. PICK ids : ids = chain[Len(chain)].vResultIDs
    OBVIOUS
  <2>3. PICK b : b = chain'[n]
    OBVIOUS
  <2>4. /\ Grown(view, ids, cache, BlkHeight, blk) /\ LikeBets(view.bets, a.bets)
        /\ a.results = view.results /\ a.events = view.events /\ a.payoutsInfo = view.payoutsInfo
        /\ b.txs = blk.txs /\ b.vResultIDs = blk.vResultIDs /\ b.payouts = blk.payouts
    BY <1>2, <1>5, <1>6, <2>1, <2>2, <2>3
  <2>5. Grown(a, ids, view', BlkHeight, b)
    BY <1>4, <2>4, GrownLike
  <2> QED BY <2>1, <2>2, <2>3, <2>5
<1>8. \A p \in view'.payoutsInfo : p[1] \in Nat /\ p[1] <= BlkHeight
  <2>1. ASSUME NEW p \in view.payoutsInfo PROVE p[1] \in Nat /\ p[1] <= BlkHeight
    <3>1. p[1] \in Nat /\ p[1] <= Height(Len(chain)) /\ Height(Len(chain)) = TipHeight
      BY <1>0, <1>5, <2>1 DEF BlockOK, Height
    <3> QED BY <1>0, <1>1, <3>1
  <2> QED BY <1>3, <1>4, <1>5, <2>1 DEF Grown, BetsPaid
<1>9. BlockOK(n)'
  <2>1. IsView(view')
    BY IInvStep DEF Base, IInv, TypeOK, Next, Connect
  <2>2. IsSeq(blk.vResultIDs)
    BY <1>5 DEF Grown, ResultsGrow
  <2>3. n \notin {1} /\ BetsOK(view'.bets, BlkHeight)
    BY <1>2, <1>4, <1>5
  <2> QED BY <1>1, <1>2, <1>3, <1>7, <1>8, <2>1, <2>2, <2>3 DEF BlockOK
<1>10. ASSUME NEW k \in DOMAIN cache.bets
       PROVE  k[1] \in BaseHeight + 1 .. BlkHeight /\ Quoted(cache.bets[k], k)' /\ IsBetRecord(cache.bets[k])
  <2>1. k[1] \in BaseHeight + 1 .. BlkHeight /\ Quoted(cache.bets[k], k) /\ IsBetRecord(cache.bets[k])
    BY <1>5 DEF BInv, BetsOK, BetOK
  <2>2. k[1] - BaseHeight \in 1 .. Len(chain)
    <3>1. BlkHeight = BaseHeight + Len(chain) /\ BaseHeight \in Nat /\ Len(chain) \in Nat
      BY <1>0, <1>1, HeightsAssumption
    <3> QED BY <2>1, <3>1
  <2>3. chain'[k[1] - BaseHeight] = chain[k[1] - BaseHeight] /\ cache'.bets = cache.bets
    BY <1>1, <1>4, <2>2
  <2> QED BY <2>1, <2>3 DEF Quoted
<1>11. /\ \A i \in 1 .. Len(chain) : BlockOK(i)'
       /\ \A i \in 1 .. Len(chain) : \A k \in DOMAIN chain'[i].after.bets : Quoted(chain[i].after.bets[k], k)'
  <2>1. Len(chain) \in Nat /\ Len(chain) \in Int /\ Len(chain) <= Len(chain)
    BY <1>0
  <2> QED BY <1>1, <2>1, BlocksOK
<1>12. \A i \in 1 .. Len(chain') : i \in 1 .. Len(chain) \/ i = n
  BY <1>0, <1>1, <1>n
<1>13. /\ \A i \in 1 .. Len(chain') : BlockOK(i)'
       /\ \A i \in 1 .. Len(chain') : \A k \in DOMAIN chain'[i].after.bets : Quoted(chain[i].after.bets[k], k)'
  <2>1. \A k \in DOMAIN chain'[n].after.bets : Quoted(chain[n].after.bets[k], k)'
    BY <1>1, <1>2, <1>4, <1>10
  <2> QED BY <1>9, <1>11, <1>12, <2>1
<1>14. LikeBets(view.bets, chain[Len(chain)].after.bets)'
  <2>1. chain'[Len(chain')].after.bets = cache.bets /\ view'.bets = cache.bets
    BY <1>1, <1>2, <1>4, <1>n
  <2>2. LikeBets(cache.bets, cache.bets)
    BY <1>10, LikeRefl DEF LikeBets
  <2> QED BY <2>1, <2>2
<1>15. view'.payoutsInfo = chain'[Len(chain')].after.payoutsInfo
  BY <1>1, <1>2, <1>n
<1>16. \A k \in DOMAIN cache'.bets : (k[1] \in BaseHeight + 1 .. BlkHeight /\ Quoted(cache.bets[k], k))'
  BY <1>1, <1>4, <1>10
<1> QED BY <1>1, <1>5, <1>13, <1>14, <1>15, <1>16 DEF BInv

LEMMA EndDisconnectBets ==
    ASSUME Base, BInv, EndDisconnect
    PROVE  BInv'
<1>0. TypeOK /\ Len(chain) \in Nat \ {0} /\ TipHeight = BaseHeight + Len(chain) - 1 /\ TipHeight \in Nat
  BY ChainSeq DEF Base, IInv
<1>1. /\ mode = "disconnect" /\ mode' = "idle" /\ pos.tx = 0 /\ cache' = view'
      /\ \A d \in Databases \ {"lastHeight"} : view'[d] = cache[d]
      /\ Len(chain) > 1 /\ Len(chain') = Len(chain) - 1
      /\ \A i \in 1 .. Len(chain) - 1 : chain'[i] = chain[i]
      /\ TipHeight' = TipHeight - 1 /\ BlkHeight' = TipHeight - 1
  BY UndoEnds
<1>n. PICK n : n = Len(chain) - 1
  OBVIOUS
<1>2. n \in 1 .. Len(chain) /\ n \in Int /\ n <= Len(chain) /\ Len(chain') = n /\ chain'[n] = chain[n]
  BY <1>0, <1>1, <1>n
<1>3. view'.bets = cache.bets /\ view'.payoutsInfo = cache.payoutsInfo
  BY <1>1 DEF Databases
<1>4. /\ BetsUndone(cache.bets, chain[n].after.bets, blk.txs, 0) /\ cache.payoutsInfo = chain[n].after.payoutsInfo
      /\ BlockOK(n)
  BY <1>1, <1>2, <1>n DEF BInv
<1>5. /\ \A i \in 1 .. n : BlockOK(i)'
      /\ \A i \in 1 .. n : \A k \in DOMAIN chain'[i].after.bets : Quoted(chain[i].after.bets[k], k)'
  <2>1. \A i \in 1 .. n : chain'[i] = chain[i]
    BY <1>1, <1>n
  <2> QED BY <1>0, <1>2, <2>1, BlocksOK
<1>6. LikeBets(cache.bets, chain[n].after.bets)
  <2>1. 1 .. 0 = {}
    OBVIOUS
  <2>2. PICK y : y = chain[n].after.bets
    OBVIOUS
  <2>3. BetsUndone(cache.bets, y, blk.txs, 0)
    BY <1>4, <2>2
  <2>4. LikeBets(cache.bets, y)
    BY <2>1, <2>3 DEF BetsUndone, LikeBets
  <2> QED BY <2>2, <2>4
<1>7. LikeBets(view.bets, chain[Len(chain)].after.bets)'
  BY <1>2, <1>3, <1>6
<1>8. ASSUME NEW k \in DOMAIN cache.bets
      PROVE  k[1] \in BaseHeight + 1 .. TipHeight - 1 /\ Quoted(cache.bets[k], k)'
  <2>1. BetOK(k, chain[n].after.bets[k], Height(n)) /\ Height(n) = TipHeight - 1
    BY <1>0, <1>4, <1>6, <1>n, HeightsAssumption DEF LikeBets, BlockOK, BetsOK, Height
  <2>2. k[1] \in BaseHeight + 1 .. TipHeight - 1
    <3>1. k[1] \in Nat /\ BaseHeight < k[1] /\ k[1] <= TipHeight - 1 /\ BaseHeight \in Nat
      BY <2>1, HeightsAssumption DEF BetOK, IsKey
    <3> QED BY <1>0, <3>1
  <2>3. Quoted(cache.bets[k], k)
    BY DEF BInv
  <2>4. k[1] - BaseHeight \in 1 .. Len(chain) - 1
    BY <1>0, <2>2, HeightsAssumption
  <2>5. chain'[k[1] - BaseHeight] = chain[k[1] - BaseHeight] /\ cache'.bets = cache.bets
    BY <1>1, <1>3, <2>4
  <2> QED BY <2>2, <2>3, <2>5 DEF Quoted
<1>9. \A k \in DOMAIN cache'.bets : (k[1] \in BaseHeight + 1 .. BlkHeight /\ Quoted(cache.bets[k], k))'
  BY <1>1, <1>3, <1>8
<1>10. TipHeight' <= BaseHeight + Timespan
  BY <1>0, <1>1, HeightsAssumption DEF BInv
<1> QED BY <1>1, <1>2, <1>3, <1>4, <1>5, <1>7, <1>9, <1>10 DEF BInv

\* The bets that UndoPLBetPayouts leaves.
UndoneBets == UndoPLBetPayouts(view, chain[Len(chain) - 1].vResultIDs, TipHeight).bets

\* The bets that a disconnected block has settled are open again, no others.
LEMMA UndoingOpens ==
    ASSUME TypeOK, BInv, Len(chain) > 1, view.results = chain[Len(chain)].after.results,
           NEW x, x = UndoneBets, NEW y, y = chain[Len(chain) - 1].after.bets
    PROVE  /\ DOMAIN x = DOMAIN view.bets
           /\ \A k \in DOMAIN view.bets : x[k].legs = view.bets[k].legs /\ x[k].locked = view.bets[k].locked
           /\ \A k \in DOMAIN y : k \in DOMAIN x /\ LikeBet(x[k], y[k])
<1> DEFINE n == Len(chain)
           a == chain[n].after
           p == chain[n - 1].after
           ids == chain[n - 1].vResultIDs
           Marked(k) == /\ k[1] >= SearchStart(TipHeight)
                        /\ view.bets[k].completed
                        /\ \E e \in {o \in ToSet(ids) : Posted(view.results, o)} : Names(view.bets[k], e)
                        /\ AllResulted(view.bets[k], view.results)
<1>1. /\ n \in 1 .. Len(chain) /\ n - 1 \in 1 .. Len(chain) /\ n # 1 /\ n \in Nat
  BY ChainSeq
<1>2. /\ BlockOK(n) /\ BlockOK(n - 1) /\ LikeBets(view.bets, a.bets) /\ view.results = a.results
      /\ Grown(p, ids, a, Height(n), chain[n])
  BY <1>1 DEF BInv, BlockOK
<1>3. x = [k \in DOMAIN view.bets |-> IF Marked(k) THEN SetUncompleted(view.bets[k]) ELSE view.bets[k]]
  BY DEF UndoneBets, UndoPLBetPayouts, TypeOK, IsView, Databases
<1>4. \A k \in DOMAIN view.bets : IsBetRecord(view.bets[k]) /\ k[1] >= SearchStart(TipHeight)
  BY ViewBets DEF BetsOK, BetOK
<1>5. \A b : IsBetRecord(b) =>
        LET c == SetUncompleted(b)
        IN  /\ IsBetRecord(c) /\ \A f \in {"amount", "legs", "locked", "time"} : c[f] = b[f]
            /\ c.completed = FALSE /\ c.resultType = "unknown" /\ c.payout = 0
  BY DEF SetUncompleted, IsBetRecord, BetFields
<1> HIDE DEF Marked
<1>6. \A k \in DOMAIN view.bets : x[k].legs = view.bets[k].legs /\ x[k].locked = view.bets[k].locked
  BY <1>3, <1>4, <1>5
<1>7. ASSUME NEW k \in DOMAIN p.bets PROVE k \in DOMAIN view.bets /\ LikeBet(x[k], p.bets[k])
  <2>1. k \in DOMAIN a.bets /\ k \in DOMAIN view.bets /\ LikeBet(view.bets[k], a.bets[k])
    BY <1>2 DEF Grown, BetsMoved, LikeBets
  <2>2. CASE SettledHere(p.bets[k], p.results, ids)
    <3>1. Completes(p.bets[k], Height(n), a.bets[k])
      BY <1>2, <2>2 DEF Grown, BetsMoved
    <3>2. view.bets[k] = a.bets[k] /\ a.bets[k].legs = p.bets[k].legs
      BY <2>1, <3>1, LikeCompleted DEF Completes
    <3>3. PICK i \in DOMAIN ids : SettledBy(p.bets[k], p.results, ids, i)
      BY <2>2 DEF SettledHere
    <3>4. \A e \in DOMAIN p.results : e \in DOMAIN a.results /\ a.results[e] = p.results[e]
      BY <1>2 DEF Grown, ResultsGrow
    <3>5. Posted(view.results, ids[i]) /\ Names(view.bets[k], ids[i]) /\ AllResulted(view.bets[k], view.results)
      BY <1>2, <3>2, <3>3, <3>4 DEF SettledBy, Posted, Due, Names, AllResulted
    <3>6. ids[i] \in ToSet(ids)
      BY DEF ToSet
    <3>7. view.bets[k].completed
      BY <3>1, <3>2 DEF Completes
    <3>8. Marked(k)
      BY <1>4, <2>1, <3>5, <3>6, <3>7 DEF Marked
    <3>9. x[k] = SetUncompleted(view.bets[k])
      BY <1>3, <2>1, <3>8
    <3>10. ~p.bets[k].completed
      BY <3>3 DEF SettledBy, Due
    <3>11. p.bets[k].payout = 0 /\ p.bets[k].resultType = "unknown" /\ p.bets[k].completed = FALSE
      BY <1>2, <3>10 DEF BlockOK, BetsOK, BetOK
    <3>12. /\ IsBetRecord(x[k]) /\ \A f \in {"amount", "legs", "locked", "time"} : x[k][f] = view.bets[k][f]
           /\ x[k].completed = FALSE /\ x[k].resultType = "unknown" /\ x[k].payout = 0
      BY <1>4, <1>5, <2>1, <3>9
    <3>13. /\ IsBetRecord(p.bets[k]) /\ \A f \in {"amount", "legs", "locked", "time"} : view.bets[k][f] = p.bets[k][f]
      BY <3>1, <3>2 DEF Completes
    <3> QED BY <2>1, <3>11, <3>12, <3>13 DEF LikeBet, BetFields
  <2>3. CASE ~SettledHere(p.bets[k], p.results, ids)
    <3>1. LikeBet(a.bets[k], p.bets[k])
      BY <1>2, <2>3 DEF Grown, BetsMoved
    <3>2. LikeBet(view.bets[k], p.bets[k])
      BY <2>1, <3>1, LikeTrans
    <3>3. ~Marked(k)
      <4> SUFFICES ASSUME Marked(k) PROVE FALSE
        OBVIOUS
      <4>1. p.bets[k].completed /\ p.bets[k].legs = view.bets[k].legs
        BY <3>2, LikeSame DEF Marked
      <4> DEFINE q == chain[n - 2].after
      <4>2. n - 1 # 1 /\ (n - 1) - 1 = n - 2
        BY <1>1, <1>2 DEF BlockOK
      <4>3. Grown(q, chain[n - 2].vResultIDs, p, Height(n - 1), chain[n - 1])
        BY <1>2, <4>2 DEF BlockOK
      <4>4. AllResulted(p.bets[k], q.results)
        BY <4>1, <4>3 DEF Grown, BetsDecided
      <4>5. {ids[j] : j \in DOMAIN ids} = DOMAIN p.results \ DOMAIN q.results
        BY <4>3 DEF Grown, ResultsGrow
      <4>6. PICK e \in ToSet(ids) : Names(view.bets[k], e)
        BY DEF Marked
      <4>7. e \notin DOMAIN q.results
        BY <4>5, <4>6 DEF ToSet
      <4> QED BY <4>1, <4>4, <4>6, <4>7 DEF Names, AllResulted
    <3>4. x[k] = view.bets[k]
      BY <1>3, <2>1, <3>3
    <3> QED BY <2>1, <3>2, <3>4
  <2> QED BY <2>2, <2>3
<1>8. DOMAIN x = DOMAIN view.bets
  BY <1>3
<1>9. y = p.bets
  OBVIOUS
<1> QED BY <1>6, <1>7, <1>8, <1>9

LEMMA BeginDisconnectBets ==
    ASSUME Ordinary, NoGames, Base, RInv, BInv, BeginDisconnect, mode' = "disconnect"
    PROVE  BInv'
<1>0. TypeOK /\ Len(chain) \in Nat \ {0} /\ TipHeight = BaseHeight + Len(chain) - 1 /\ TipHeight \in Nat
  BY ChainSeq DEF Base, IInv
<1>1. /\ mode = "idle" /\ cache = view /\ Len(chain) > 1 /\ view' = view /\ chain' = chain
      /\ blk'.txs = chain[Len(chain)].txs /\ pos'.tx = Len(chain[Len(chain)].txs)
      /\ cache'.bets = UndoneBets
      /\ cache'.payoutsInfo = {p \in view.payoutsInfo : p[1] # TipHeight}
  BY UndoStarts DEF UndoneBets
<1>2. BlkHeight' = TipHeight /\ TipHeight' = TipHeight /\ BlkHeight = TipHeight
  BY <1>0, <1>1 DEF BlkHeight, TipHeight
<1>3. view.results = chain[Len(chain)].after.results
  BY DEF RInv, ODbs, Dbs, BetDbs
<1> DEFINE n == Len(chain)
           a == chain[n].after
           p == chain[n - 1].after
<1>4. /\ n \in 1 .. Len(chain) /\ n - 1 \in 1 .. Len(chain) /\ n # 1
      /\ Height(n) = TipHeight /\ Height(n - 1) = TipHeight - 1
  BY <1>0, <1>1, HeightsAssumption DEF Height
<1>5. /\ BlockOK(n) /\ BlockOK(n - 1) /\ LikeBets(view.bets, a.bets) /\ view.payoutsInfo = a.payoutsInfo
      /\ Grown(p, chain[n - 1].vResultIDs, a, TipHeight, chain[n])
  BY <1>4 DEF BInv, BlockOK
<1>6. /\ DOMAIN cache'.bets = DOMAIN view.bets
      /\ \A k \in DOMAIN view.bets : cache'.bets[k].legs = view.bets[k].legs /\ cache'.bets[k].locked = view.bets[k].locked
      /\ \A k \in DOMAIN p.bets : k \in DOMAIN cache'.bets /\ LikeBet(cache'.bets[k], p.bets[k])
  BY <1>0, <1>1, <1>3, UndoingOpens
<1>7. ASSUME NEW k \in DOMAIN cache'.bets, k \notin DOMAIN p.bets
      PROVE  \E j \in 1 .. pos'.tx : IsBet(blk'.txs[j]) /\ k = <<TipHeight, blk'.txs[j].id, 1>>
  <2>1. k \in DOMAIN a.bets
    BY <1>5, <1>6, <1>7 DEF LikeBets
  <2>2. Placed(k, a.bets[k], chain[n].txs, TipHeight, p)
    BY <1>5, <1>7, <2>1 DEF Grown, BetsMoved
  <2>3. DOMAIN blk'.txs = 1 .. pos'.tx
    <3>1. chain[n].txs \in Seq(Txs)
      BY <1>0, <1>4, ChainSeq
    <3> QED BY <1>1, <3>1, LenProperties
  <2> QED BY <1>1, <2>2, <2>3 DEF Placed
<1>8. BetsUndone(cache.bets, chain[Len(chain) - 1].after.bets, blk.txs, pos.tx)'
  <2>1. chain'[Len(chain') - 1].after.bets = p.bets
    BY <1>1
  <2> QED BY <1>2, <1>6, <1>7, <2>1 DEF BetsUndone
<1>9. cache'.payoutsInfo = p.payoutsInfo
  <2>1. a.payoutsInfo = p.payoutsInfo \cup {<<TipHeight, j, chain[n].payouts[j]>> : j \in DOMAIN chain[n].payouts}
    BY <1>5 DEF Grown, BetsPaid
  <2>2. \A z \in p.payoutsInfo : z[1] \in Nat /\ z[1] <= TipHeight - 1
    BY <1>4, <1>5 DEF BlockOK
  <2>3. \A z \in p.payoutsInfo : z[1] # TipHeight
    BY <1>0, <2>2
  <2>4. \A z \in a.payoutsInfo : z \in p.payoutsInfo \/ z[1] = TipHeight
    BY <2>1
  <2> HIDE DEF a, p
  <2> QED BY <1>1, <1>5, <2>1, <2>3, <2>4
<1>10. ASSUME NEW k \in DOMAIN cache'.bets PROVE k[1] \in BaseHeight + 1 .. BlkHeight' /\ Quoted(cache'.bets[k], k)
  <2>1. k \in DOMAIN cache.bets /\ k[1] \in BaseHeight + 1 .. BlkHeight /\ Quoted(cache.bets[k], k)
    BY <1>1, <1>6 DEF BInv
  <2>2. cache'.bets[k].legs = cache.bets[k].legs /\ cache'.bets[k].locked = cache.bets[k].locked
    BY <1>1, <1>6
  <2> QED BY <1>2, <2>1, <2>2 DEF Quoted
<1>11. \A k \in DOMAIN cache'.bets : (k[1] \in BaseHeight + 1 .. BlkHeight /\ Quoted(cache.bets[k], k))'
  BY <1>0, <1>1, <1>10, SameChainBets
<1>12. cache'.payoutsInfo = chain'[Len(chain') - 1].after.payoutsInfo
  BY <1>1, <1>9
<1> QED BY <1>0, <1>1, <1>8, <1>11, <1>12, SameChainBets DEF BInv

\* No output changes what its block pays.
LEMMA PayoutsStay ==
    ASSUME TypeOK, OutputAction
    PROVE  blk'.payouts = blk.payouts
<1>1. OutputStep
  BY SkipSteps, PeerlessSteps, FieldSteps, GamesSteps DEF OutputAction, TypeOK
<1> QED BY <1>1 DEF OutputStep, Abort, Advance, AdvanceWithResult, TypeOK

LEMMA PaysSame ==
    ASSUME NEW P, NEW K, NEW x, NEW y, PaysFor(P, K, x), \A k \in K : y[k] = x[k]
    PROVE  PaysFor(P, K, y)
BY DEF PaysFor

\* The bet of a transaction that is checked.
LEMMA BetMadeOK ==
    ASSUME Ordinary, Lists, Reversible, TypeOK, UInv, RInv, mode = "connect", AtOutput, IsBet(Tx),
           NEW k, k = <<BlkHeight, Tx.id, 1>>
    PROVE  /\ BetOK(k, BetMade, BlkHeight)
           /\ Placed(k, BetMade, blk.txs, BlkHeight, view)
           /\ Quoted(BetMade, k)
<1>1. CheckBettingTx(Tx) /\ BlkHeight = TipHeight + 1 /\ TipHeight \in Nat /\ Tx \in Txs /\ Tx = blk.txs[pos.tx]
  BY AtChecked, AtTx
<1>2. pos.tx \in DOMAIN blk.txs
  BY AtTx
<1> DEFINE legs == First(Tx).legs
<1>3. BetMade = [amount |-> First(Tx).amount, legs |-> legs,
                 locked |-> [i \in DOMAIN legs |-> view.events[legs[i].event].info],
                 time |-> blk.time, completed |-> FALSE, resultType |-> "unknown", payout |-> 0, payoutHeight |-> 0]
  BY DEF BetMade, NewBet
<1>4. /\ IsBetRecord(BetMade) /\ BetMade.legs = legs /\ BetMade.completed = FALSE
      /\ BetMade.resultType = "unknown" /\ BetMade.payout = 0
      /\ BetMade.locked = [i \in DOMAIN legs |-> view.events[legs[i].event].info]
  BY <1>3 DEF IsBetRecord, BetFields
<1>5. IsKey(k) /\ k[1] = BlkHeight /\ BaseHeight < k[1]
  <2>1. Tx.id \in Nat
    BY <1>1 DEF Reversible
  <2>2. BaseHeight <= TipHeight /\ BaseHeight \in Nat
    BY ChainSeq, HeightsAssumption
  <2> QED BY <1>1, <2>1, <2>2 DEF IsKey
<1>6. /\ DOMAIN legs # {}
      /\ \A i \in DOMAIN legs : legs[i].event \in DOMAIN view.events /\ legs[i].event \notin DOMAIN view.results
  <2>1. CASE First(Tx).type = "plBet"
    <3>1. DOMAIN legs = {1} /\ CheckPlBet(First(Tx))
      BY <1>1, <2>1, CheckedOutput DEF Ordinary, HasType
    <3> QED BY <3>1 DEF CheckPlBet, LegOpen
  <2>2. CASE First(Tx).type = "plParlayBet"
    <3>1. CheckPlParlayBet(First(Tx)) /\ IsSeq(legs) /\ legs # <<>>
      BY <1>1, <2>2, CheckedOutput DEF Lists, HasType, IsBet, Saves
    <3>2. DOMAIN legs = 1 .. Len(legs) /\ Len(legs) \in Nat /\ Len(legs) # 0
      BY <3>1, LenProperties, EmptySeq DEF IsSeq
    <3>3. DOMAIN legs # {}
      <4>1. 1 \in 1 .. Len(legs)
        BY <3>2
      <4> QED BY <3>2, <4>1
    <3>4. \A i \in DOMAIN legs : LegOpen(legs[i])
      BY <3>1 DEF CheckPlParlayBet
    <3> QED BY <3>3, <3>4 DEF LegOpen
  <2> QED BY <2>1, <2>2 DEF IsBet, HasType
<1> HIDE DEF legs
<1>7. BetOK(k, BetMade, BlkHeight)
  <2>1. k[1] <= BlkHeight
    BY <1>1, <1>5
  <2>2. BetMade.completed \in BOOLEAN /\ DOMAIN BetMade.legs # {}
    BY <1>4, <1>6
  <2> QED BY <1>4, <1>5, <2>1, <2>2 DEF BetOK
<1>8. Placed(k, BetMade, blk.txs, BlkHeight, view)
  BY <1>1, <1>2, <1>4, <1>5, <1>6 DEF Placed
<1>9. Quoted(BetMade, k)
  <2>1. k[1] - BaseHeight = Len(chain)
    BY <1>1, <1>5, ChainSeq, HeightsAssumption
  <2>2. chain[Len(chain)].after.events = view.events
    BY DEF RInv, ODbs, Dbs, BetDbs
  <2> QED BY <1>4, <2>1, <2>2 DEF Quoted
<1> QED BY <1>7, <1>8, <1>9

LEMMA ConnectingBets ==
    ASSUME Ordinary, Lists, Reversible, TypeOK, UInv, RInv, BInv, ConnectsOutput, Connecting, blk'.payouts = blk.payouts
    PROVE  BInv'
<1>1. mode = "connect" /\ AtOutput /\ mode' = mode /\ view' = view /\ chain' = chain /\ blk'.txs = blk.txs
  BY DEF ConnectsOutput, MovesTo
<1>2. BlkHeight' = BlkHeight /\ TipHeight' = TipHeight /\ BlkHeight \in Nat /\ TipHeight \in Nat
      /\ BlkHeight = TipHeight + 1
  BY <1>1, ChainSeq DEF BlkHeight, TipHeight
<1> DEFINE ids == chain[Len(chain)].vResultIDs
           K == <<BlkHeight, Tx.id, 1>>
<1>3. /\ Grown(view, ids, cache, BlkHeight, blk) /\ BetsOK(cache.bets, BlkHeight) /\ BlkHeight <= BaseHeight + Timespan
      /\ cache'.payoutsInfo = cache.payoutsInfo
      /\ cache'.bets = IF IsBet(Tx) THEN DbWrite(cache.bets, K, BetMade) ELSE cache.bets
  BY <1>1 DEF BInv, Connecting
<1>4. /\ \A k \in DOMAIN cache.bets : k \in DOMAIN cache'.bets /\ cache'.bets[k] = cache.bets[k]
      /\ \A k \in DOMAIN cache'.bets : k \notin DOMAIN cache.bets => IsBet(Tx) /\ k = K /\ cache'.bets[k] = BetMade
      /\ DOMAIN cache'.bets = DOMAIN cache.bets \/ DOMAIN cache'.bets = DOMAIN cache.bets \cup {K}
  <2> HIDE DEF K
  <2>1. CASE IsBet(Tx) /\ K \notin DOMAIN cache.bets
    <3>1. cache'.bets = Put(cache.bets, K, BetMade)
      BY <1>3, <2>1 DEF DbWrite
    <3> QED BY <2>1, <3>1 DEF Put
  <2>2. CASE ~(IsBet(Tx) /\ K \notin DOMAIN cache.bets)
    <3>1. cache'.bets = cache.bets
      BY <1>3, <2>2 DEF DbWrite
    <3> QED BY <3>1
  <2> QED BY <2>1, <2>2
<1>5. ASSUME NEW k \in DOMAIN cache'.bets, k \notin DOMAIN cache.bets
      PROVE  /\ BetOK(k, cache'.bets[k], BlkHeight) /\ Placed(k, cache'.bets[k], blk.txs, BlkHeight, view)
             /\ Quoted(cache'.bets[k], k)
  <2>1. IsBet(Tx) /\ k = <<BlkHeight, Tx.id, 1>> /\ cache'.bets[k] = BetMade
    BY <1>4, <1>5
  <2> HIDE DEF K
  <2> QED BY <1>1, <2>1, BetMadeOK
<1> HIDE DEF K
<1>6. BetsOK(cache'.bets, BlkHeight)
  <2>1. IsFiniteSet(DOMAIN cache'.bets)
    BY <1>3, <1>4, FS_AddElement DEF BetsOK
  <2> QED BY <1>3, <1>4, <1>5, <2>1 DEF BetsOK
<1>7. BetsMoved(view, ids, cache', BlkHeight, blk'.txs)
  <2>1. \A k \in DOMAIN cache'.bets : k \notin DOMAIN view.bets => Placed(k, cache'.bets[k], blk.txs, BlkHeight, view)
    BY <1>3, <1>4, <1>5 DEF Grown, BetsMoved
  <2>2. \A k \in DOMAIN view.bets : k \in DOMAIN cache.bets
    BY <1>3 DEF Grown, BetsMoved
  <2> QED BY <1>1, <1>3, <1>4, <2>1, <2>2 DEF Grown, BetsMoved
<1>8. BetsDecided(view, cache')
  <2>1. \A k \in DOMAIN view.bets : k \in DOMAIN cache.bets
    BY <1>3 DEF Grown, BetsMoved
  <2>2. \A k \in DOMAIN cache'.bets : k \notin DOMAIN cache.bets => ~cache'.bets[k].completed
    BY <1>5 DEF Placed
  <2> QED BY <1>3, <1>4, <2>1, <2>2 DEF Grown, BetsDecided
<1>9. ResultsGrow(view, cache', blk'.vResultIDs)
  <2>1. ResultsGrow(view, cache, blk.vResultIDs)
    BY <1>3 DEF Grown
  <2>2. CASE cache'.results = cache.results /\ blk'.vResultIDs = blk.vResultIDs
    BY <2>1, <2>2 DEF ResultsGrow
  <2>3. CASE /\ First(Tx).event \notin DOMAIN cache.results
             /\ cache'.results = DbWrite(cache.results, First(Tx).event, First(Tx).result)
             /\ blk'.vResultIDs = Append(blk.vResultIDs, First(Tx).event)
    <3> DEFINE e == First(Tx).event
               s == blk.vResultIDs
               t == blk'.vResultIDs
    <3>1. cache'.results = Put(cache.results, e, First(Tx).result)
      BY <2>3 DEF DbWrite
    <3>2. /\ IsSeq(t) /\ Len(t) = Len(s) + 1 /\ \A i \in DOMAIN t : t[i] = IF i <= Len(s) THEN s[i] ELSE e
      BY <2>1, <2>3, AppendSeq DEF ResultsGrow
    <3>3. Len(s) \in Nat /\ DOMAIN s = 1 .. Len(s) /\ DOMAIN t = 1 .. Len(s) + 1
      BY <2>1, <3>2, LenProperties DEF ResultsGrow, IsSeq
    <3>4. {t[i] : i \in DOMAIN t} = {s[i] : i \in DOMAIN s} \cup {e}
      <4> HIDE DEF s, t, e
      <4>1. \A i \in DOMAIN t : t[i] = e \/ \E j \in DOMAIN s : t[i] = s[j]
        BY <3>2, <3>3
      <4>2. \A j \in DOMAIN s : j \in DOMAIN t /\ t[j] = s[j]
        BY <3>2, <3>3
      <4>3. Len(s) + 1 \in DOMAIN t /\ t[Len(s) + 1] = e
        BY <3>2, <3>3
      <4> QED BY <4>1, <4>2, <4>3
    <3>5. e \notin DOMAIN view.results
      BY <2>1, <2>3 DEF ResultsGrow
    <3> QED BY <2>1, <2>3, <3>1, <3>2, <3>4, <3>5 DEF ResultsGrow, Put
  <2> QED BY <2>2, <2>3 DEF Connecting, ResultMade
<1>10. BetsPaid(view, ids, cache', BlkHeight, blk'.payouts)
  <2>1. PaysFor(blk.payouts, SettledKeys(view, ids), cache.bets)
    BY <1>3 DEF Grown, BetsPaid
  <2>2. \A k \in SettledKeys(view, ids) : cache'.bets[k] = cache.bets[k]
    BY <1>3, <1>4 DEF SettledKeys, Grown, BetsMoved
  <2>3. PaysFor(blk.payouts, SettledKeys(view, ids), cache'.bets)
    BY <2>1, <2>2, PaysSame
  <2> QED BY <1>3, <2>3 DEF Grown, BetsPaid
<1>11. Grown(view, ids, cache', BlkHeight, blk')
  BY <1>7, <1>8, <1>9, <1>10 DEF Grown
<1>12. ASSUME NEW k \in DOMAIN cache'.bets PROVE k[1] \in BaseHeight + 1 .. BlkHeight /\ Quoted(cache'.bets[k], k)
  <2>1. CASE k \in DOMAIN cache.bets
    BY <1>4, <2>1 DEF BInv
  <2>2. CASE k \notin DOMAIN cache.bets
    BY <1>2, <1>5, <2>2, HeightsAssumption DEF BetOK, IsKey
  <2> QED BY <2>1, <2>2
<1>13. \A k \in DOMAIN cache'.bets : (k[1] \in BaseHeight + 1 .. BlkHeight /\ Quoted(cache.bets[k], k))'
  BY <1>1, <1>2, <1>12, SameChainBets
<1>14. Grown(view, chain[Len(chain)].vResultIDs, cache, BlkHeight, blk)' /\ BetsOK(cache.bets, BlkHeight)'
  BY <1>1, <1>2, <1>6, <1>11
<1> QED BY <1>1, <1>2, <1>3, <1>13, <1>14, SameChainBets DEF BInv

LEMMA DisconnectingBets ==
    ASSUME Ordinary, TypeOK, IInv, BInv, DisconnectsOutput, Disconnecting
    PROVE  BInv'
<1>1. mode = "disconnect" /\ AtOutput /\ mode' = mode /\ view' = view /\ chain' = chain /\ blk'.txs = blk.txs
      /\ pos' = NextPos
  BY DEF DisconnectsOutput, MovesTo
<1>2. BlkHeight' = BlkHeight /\ TipHeight' = TipHeight /\ BlkHeight = TipHeight /\ TipHeight \in Nat
      /\ Len(chain) \in Nat \ {0} /\ TipHeight = BaseHeight + Len(chain) - 1 /\ Len(chain) > 1
  BY <1>1, ChainSeq DEF BlkHeight, TipHeight, IInv
<1>3. /\ pos.tx \in 1 .. Len(blk.txs) /\ pos.out = 1 /\ Tx = blk.txs[pos.tx] /\ Len(blk.txs) \in Nat
  BY <1>1, AtTx
<1>4. pos'.tx = pos.tx - 1
  BY <1>1, <1>3 DEF NextPos
<1>p. PICK p : p = chain[Len(chain) - 1].after
  OBVIOUS
<1>5. BetsUndone(cache.bets, p.bets, blk.txs, pos.tx) /\ cache.payoutsInfo = p.payoutsInfo
  BY <1>1, <1>p DEF BInv
<1> DEFINE K == Keys("bets", Tx, TipHeight)
<1>6. cache'.bets = Without("bets", cache.bets, K) /\ cache'.payoutsInfo = cache.payoutsInfo
  BY DEF Disconnecting, Dbs, BetDbs, EventDbs
<1>7. K = IF IsBet(Tx) THEN {<<TipHeight, Tx.id, 1>>} ELSE {}
  BY DEF Keys, Key, Makes, IsBet, HasType, Dbs, BetDbs
<1> HIDE DEF K
<1>8. DOMAIN cache'.bets = DOMAIN cache.bets \ K /\ \A k \in DOMAIN cache'.bets : cache'.bets[k] = cache.bets[k]
  BY <1>6 DEF Without, SetDbs, Restrict
<1>9. \A k \in DOMAIN p.bets : k \notin K
  <2>1. ASSUME NEW k \in DOMAIN p.bets PROVE k[1] # TipHeight
    <3>1. Len(chain) - 1 \in 1 .. Len(chain) /\ Height(Len(chain) - 1) = TipHeight - 1
      BY <1>2, HeightsAssumption DEF Height
    <3>2. BetOK(k, p.bets[k], TipHeight - 1)
      BY <1>p, <3>1 DEF BInv, BlockOK, BetsOK
    <3>3. k[1] \in Nat /\ k[1] <= TipHeight - 1
      BY <3>2 DEF BetOK, IsKey
    <3> QED BY <1>2, <3>3
  <2> QED BY <1>7, <2>1
<1>10. BetsUndone(cache'.bets, p.bets, blk.txs, pos.tx - 1)
  <2>1. \A k \in DOMAIN p.bets : k \in DOMAIN cache'.bets /\ LikeBet(cache'.bets[k], p.bets[k])
    BY <1>5, <1>8, <1>9 DEF BetsUndone
  <2>2. ASSUME NEW k \in DOMAIN cache'.bets, k \notin DOMAIN p.bets
        PROVE  \E j \in 1 .. pos.tx - 1 : IsBet(blk.txs[j]) /\ k = <<TipHeight, blk.txs[j].id, 1>>
    <3>1. PICK j \in 1 .. pos.tx : IsBet(blk.txs[j]) /\ k = <<TipHeight, blk.txs[j].id, 1>>
      BY <1>5, <1>8, <2>2 DEF BetsUndone
    <3>2. j # pos.tx
      BY <1>3, <1>7, <1>8, <3>1
    <3> QED BY <1>3, <3>1, <3>2
  <2> QED BY <2>1, <2>2 DEF BetsUndone
<1>11. BetsUndone(cache.bets, chain[Len(chain) - 1].after.bets, blk.txs, pos.tx)'
  BY <1>1, <1>2, <1>4, <1>10, <1>p DEF BetsUndone
<1>12. cache'.payoutsInfo = chain'[Len(chain') - 1].after.payoutsInfo
  BY <1>1, <1>5, <1>6, <1>p
<1>13. \A k \in DOMAIN cache'.bets : (k[1] \in BaseHeight + 1 .. BlkHeight /\ Quoted(cache.bets[k], k))'
  <2>1. \A k \in DOMAIN cache'.bets : k[1] \in BaseHeight + 1 .. BlkHeight /\ Quoted(cache'.bets[k], k)
    BY <1>8 DEF BInv
  <2> QED BY <1>1, <1>2, <2>1, SameChainBets
<1> QED BY <1>1, <1>2, <1>11, <1>12, <1>13, SameChainBets DEF BInv

LEMMA BInvStep ==
    ASSUME Ordinary, Lists, Reversible, Base, RInv, BInv, mode' # "failed", [Next]_vars
    PROVE  BInv'
<1>0. TypeOK /\ UInv /\ IInv /\ AllDbs(cache) /\ NoGames
  BY DEF Base, IInv, RInv, Sound, Reversible
<1>1. CASE UNCHANGED vars
  <2>1. view' = view /\ cache' = cache /\ chain' = chain /\ mode' = mode /\ blk' = blk /\ pos' = pos
    BY <1>1 DEF vars
  <2>2. TipHeight' = TipHeight /\ BlkHeight' = BlkHeight
    BY <2>1 DEF TipHeight, BlkHeight
  <2>3. \A k \in DOMAIN cache'.bets : (k[1] \in BaseHeight + 1 .. BlkHeight /\ Quoted(cache.bets[k], k))'
    BY <1>0, <2>1, <2>2, SameChainBets DEF BInv
  <2>4. mode' = "connect" =>
          /\ BlkHeight' <= BaseHeight + Timespan
          /\ BetsOK(cache'.bets, BlkHeight')
          /\ Grown(view', chain'[Len(chain')].vResultIDs, cache', BlkHeight', blk')
    BY <2>1, <2>2 DEF BInv
  <2>5. mode' = "disconnect" =>
          /\ BetsUndone(cache.bets, chain[Len(chain) - 1].after.bets, blk.txs, pos.tx)'
          /\ cache'.payoutsInfo = chain'[Len(chain') - 1].after.payoutsInfo
    BY <2>1, <2>2 DEF BInv, BetsUndone
  <2> QED BY <1>0, <2>1, <2>3, <2>4, <2>5, SameChainBets DEF BInv
<1>2. CASE Connect
  BY <1>2, BeginConnectBets, RejectBlockBets, TakeTxBets, EndConnectBets DEF Connect
<1>3. CASE Disconnect
  <2>1. CASE BeginDisconnect
    <3>1. mode' = "disconnect"
      BY <2>1 DEF BeginDisconnect, Abort
    <3> QED BY <1>0, <2>1, <3>1, BeginDisconnectBets
  <2> QED BY <1>3, <2>1, EndDisconnectBets DEF Disconnect
<1>4. CASE OutputAction
  <2>1. ConnectsOutput \/ DisconnectsOutput
    BY <1>0, <1>4, Outputs DEF OutputAction, Abort
  <2>2. CASE ConnectsOutput
    <3>1. Connecting /\ blk'.payouts = blk.payouts
      BY <1>0, <1>4, <2>2, OutputConnecting, PayoutsStay DEF ConnectsOutput
    <3> QED BY <1>0, <2>2, <3>1, ConnectingBets
  <2>3. CASE DisconnectsOutput
    <3>1. Disconnecting
      BY <1>0, <1>4, <2>3, OutputDisconnecting DEF DisconnectsOutput
    <3> QED BY <1>0, <2>3, <3>1, DisconnectingBets
  <2> QED BY <2>1, <2>2, <2>3
<1> QED BY <1>1, <1>2, <1>3, <1>4 DEF Next, OutputAction

LEMMA InitBInv == Reversible /\ Init => BInv
<1> SUFFICES ASSUME Reversible, Init PROVE BInv
  OBVIOUS
<1>1. /\ view = BaseView /\ cache = BaseView /\ chain = <<Connected(NoBlock, BaseView)>> /\ mode = "idle"
  BY DEF Init
<1>2. /\ Len(chain) = 1 /\ chain[1].after = BaseView /\ chain[1].vResultIDs = <<>> /\ chain[1].payouts = <<>>
  BY <1>1 DEF Connected, NoBlock, Block
<1>3. TipHeight = BaseHeight /\ Height(1) = BaseHeight /\ BaseHeight \in Nat /\ Timespan \in Nat
  BY <1>2, HeightsAssumption DEF TipHeight, Height
<1>4. DOMAIN BaseView.bets = {} /\ \A p \in BaseView.payoutsInfo : p[1] \in Nat /\ p[1] <= BaseHeight
  BY DEF Reversible
<1>5. IsSeq(<<>>) /\ DOMAIN <<>> = {} /\ IsFiniteSet({})
  BY FS_EmptySet DEF IsSeq
<1>6. BlockOK(1)
  BY <1>2, <1>3, <1>4, <1>5, BaseViewAssumption DEF BlockOK, BetsOK
<1>7. LikeBets(BaseView.bets, BaseView.bets)
  BY <1>4 DEF LikeBets
<1> QED BY <1>1, <1>2, <1>3, <1>4, <1>6, <1>7 DEF BInv

-----------------------------------------------------------------------------
\* What the two invariants say about the databases.

\* The invariant of the chain, and of the bets on it.
CInv == Base /\ RInv /\ BInv

LEMMA ReversibleUndoable == Reversible => Undoable
BY DEF Reversible, NoGames, Undoable, HasType, GameTypes

LEMMA CInvStep ==
    ASSUME Ordinary, Lists, Reversible, CInv, [Next]_vars
    PROVE  CInv'
<1>1. Base /\ RInv /\ BInv /\ NoGames /\ Undoable
  BY ReversibleUndoable DEF CInv, Reversible
<1>2. IInv' /\ UInv' /\ GInv' /\ mode' # "failed"
  BY <1>1, IInvStep, UInvStep, GInvStep DEF Base
<1>3. RInv' /\ BInv'
  BY <1>1, <1>2, RInvStep, BInvStep
<1> QED BY <1>2, <1>3 DEF CInv, Base

LEMMA InitCInv == Ordinary /\ Reversible /\ Init => CInv
BY ReversibleUndoable, InitIInv, InitUInv, InitGInv, InitRInv, InitBInv DEF CInv, Base

\* Bets that are alike differ in nothing that is read.
LEMMA LikeReset ==
    ASSUME NEW x, NEW y, LikeBets(x, y)
    PROVE  Reset(x) = Reset(y)
<1>1. DOMAIN x = DOMAIN y
  BY DEF LikeBets
<1>2. ASSUME NEW k \in DOMAIN y
      PROVE  (IF x[k].completed THEN x[k] ELSE [x[k] EXCEPT !.payoutHeight = 0])
               = IF y[k].completed THEN y[k] ELSE [y[k] EXCEPT !.payoutHeight = 0]
  <2>1. PICK b, c : b = x[k] /\ c = y[k]
    OBVIOUS
  <2>2. LikeBet(b, c) /\ b.completed = c.completed
    BY <2>1, LikeSame DEF LikeBets
  <2>3. CASE c.completed
    <3>1. b = c
      BY <2>2, <2>3, LikeCompleted
    <3> QED BY <2>1, <3>1
  <2>4. CASE ~c.completed
    <3>1. [b EXCEPT !.payoutHeight = 0] = [c EXCEPT !.payoutHeight = 0]
      BY <2>2 DEF LikeBet, IsBetRecord, BetFields
    <3> QED BY <2>1, <2>2, <2>4, <3>1
  <2> QED BY <2>3, <2>4
<1> QED BY <1>1, <1>2 DEF Reset

LEMMA SameContent ==
    ASSUME NEW v, NEW w, IsView(v), IsView(w), LikeBets(v.bets, w.bets),
           \A d \in Databases \ {"bets", "undos"} : v[d] = w[d]
    PROVE  Content(v) = Content(w)
<1>1. Reset(v.bets) = Reset(w.bets)
  <2>1. PICK x, y : x = v.bets /\ y = w.bets
    OBVIOUS
  <2>2. Reset(x) = Reset(y)
    BY <2>1, LikeReset
  <2> QED BY <2>1, <2>2
<1>2. v.fieldBets = w.fieldBets
  BY DEF Databases
<1>3. Reset(v.fieldBets) = Reset(w.fieldBets)
  BY <1>2
<1>4. ASSUME NEW u, IsView(u), NEW b, NEW f
      PROVE  [u EXCEPT !.undos = <<>>, !.bets = b, !.fieldBets = f]
               = [d \in Databases |-> IF d = "undos" THEN <<>> ELSE IF d = "bets" THEN b
                                      ELSE IF d = "fieldBets" THEN f ELSE u[d]]
  BY <1>4 DEF IsView, Databases
<1>5. ASSUME NEW u, IsView(u), NEW b, NEW f, b = Reset(u.bets), f = Reset(u.fieldBets)
      PROVE  Content(u) = [d \in Databases |-> IF d = "undos" THEN <<>> ELSE IF d = "bets" THEN b
                                      ELSE IF d = "fieldBets" THEN f ELSE u[d]]
  <2>1. Content(u) = [u EXCEPT !.undos = <<>>, !.bets = b, !.fieldBets = f]
    BY <1>5 DEF Content, IsView, Databases
  <2> QED BY <1>4, <1>5, <2>1
<1>b. PICK b, f : b = Reset(v.bets) /\ f = Reset(v.fieldBets)
  OBVIOUS
<1>6. \A d \in Databases : d \notin {"undos", "bets", "fieldBets"} => v[d] = w[d]
  OBVIOUS
<1>7. Content(v) = [d \in Databases |-> IF d = "undos" THEN <<>> ELSE IF d = "bets" THEN b
                                      ELSE IF d = "fieldBets" THEN f ELSE v[d]]
  BY <1>5, <1>b
<1>8. Content(w) = [d \in Databases |-> IF d = "undos" THEN <<>> ELSE IF d = "bets" THEN b
                                      ELSE IF d = "fieldBets" THEN f ELSE w[d]]
  <2>1. b = Reset(w.bets) /\ f = Reset(w.fieldBets)
    BY <1>1, <1>3, <1>b
  <2> QED BY <1>5, <2>1
<1> QED BY <1>6, <1>7, <1>8

LEMMA CInvRestored == CInv => Restored
<1> SUFFICES ASSUME CInv, mode = "idle" PROVE Content(view) = Content(Last(chain).after)
  BY DEF Restored
<1>1. TypeOK /\ HeightsAgree /\ RInv /\ BInv
  BY DEF CInv, Base, IInv
<1>2. Len(chain) \in 1 .. Len(chain) /\ Height(Len(chain)) = TipHeight
  BY <1>1, ChainSeq DEF Height
<1>3. PICK w : w = chain[Len(chain)].after
  OBVIOUS
<1>4. IsView(w) /\ w.lastHeight = TipHeight
  BY <1>1, <1>2, <1>3 DEF BInv, BlockOK
<1>5. \A d \in Databases \ {"bets", "undos"} : view[d] = w[d]
  <2>1. \A d \in ODbs : view[d] = w[d]
    BY <1>1, <1>3 DEF RInv
  <2>2. view.payoutsInfo = w.payoutsInfo /\ view.lastHeight = w.lastHeight
    BY <1>1, <1>3, <1>4 DEF BInv, HeightsAgree
  <2>3. \A d \in Databases \ {"bets", "undos"} : d \in ODbs \/ d = "payoutsInfo" \/ d = "lastHeight"
    BY DEF ODbs, Dbs, BetDbs, Databases
  <2> QED BY <2>1, <2>2, <2>3
<1>6. LikeBets(view.bets, w.bets) /\ IsView(view)
  BY <1>1, <1>3 DEF BInv, TypeOK
<1>7. Content(view) = Content(w)
  BY <1>4, <1>5, <1>6, SameContent
<1> QED BY <1>3, <1>7 DEF Last

LEMMA CInvOdds == CInv => OddsFromBlockBefore
BY DEF CInv, BInv, Quoted, OddsFromBlockBefore

LEMMA CInvDue == CInv => DueBetsSettled
<1> SUFFICES ASSUME CInv, mode = "idle", Len(chain) > 1, NEW k \in DOMAIN view.bets, k[1] < TipHeight,
                    \A i \in DOMAIN view.bets[k].legs :
                      Posted(chain[Len(chain) - 1].after.results, view.bets[k].legs[i].event)
             PROVE  view.bets[k].completed
  BY DEF DueBetsSettled, Posted
<1>1. TypeOK /\ BInv
  BY DEF CInv, Base, IInv
<1>2. PICK n : n = Len(chain)
  OBVIOUS
<1>3. n \in 1 .. Len(chain) /\ Height(n) = TipHeight /\ n # 1
  BY <1>1, <1>2, ChainSeq DEF Height
<1>4. PICK a, v : a = chain[n - 1].after /\ v = chain[n].after
  OBVIOUS
<1>5. Grown(a, chain[n - 1].vResultIDs, v, TipHeight, chain[n])
  BY <1>1, <1>3, <1>4 DEF BInv, BlockOK
<1>6. k \in DOMAIN v.bets /\ LikeBet(view.bets[k], v.bets[k])
  BY <1>1, <1>2, <1>4 DEF BInv, LikeBets
<1>7. view.bets[k].completed = v.bets[k].completed /\ view.bets[k].legs = v.bets[k].legs
  BY <1>6, LikeSame
<1>8. k \in DOMAIN a.bets
  <2>1. SUFFICES ASSUME k \notin DOMAIN a.bets PROVE FALSE
    OBVIOUS
  <2>2. k[1] = TipHeight
    BY <1>5, <1>6, <2>1 DEF Grown, BetsMoved, Placed
  <2> QED BY <1>1, <2>2, ChainSeq
<1>9. a.bets[k].legs = v.bets[k].legs
  <2>1. Completes(a.bets[k], TipHeight, v.bets[k]) \/ LikeBet(v.bets[k], a.bets[k])
    BY <1>5, <1>8 DEF Grown, BetsMoved
  <2> QED BY <2>1, LikeSame DEF Completes
<1>10. \A i \in DOMAIN a.bets[k].legs : Posted(a.results, a.bets[k].legs[i].event)
  BY <1>2, <1>4, <1>7, <1>9
<1>11. v.bets[k].completed
  BY <1>5, <1>8, <1>10 DEF Grown, BetsDecided
<1> QED BY <1>7, <1>11

LEMMA CInvNext == Ordinary /\ NoGames /\ CInv => NextBlockPossible
<1> SUFFICES ASSUME Ordinary, NoGames, CInv, mode = "idle"
             PROVE  AllCount(GetBettingPayouts(view, Last(chain), TipHeight + 1).payouts)
  BY DEF NextBlockPossible
<1>1. TypeOK /\ BInv /\ RInv /\ IsView(view) /\ DOMAIN view.fieldResults = {}
  BY DEF CInv, Base, IInv, TypeOK, GInv
<1>2. AllDbs(view) /\ DOMAIN view.quickGamesBets = {}
  BY <1>1 DEF RInv, Sound
<1>3. Last(chain) = chain[Len(chain)] /\ chain[Len(chain)].txs \in Seq(Txs)
  BY <1>1, ChainSeq DEF Last
<1>4. PICK P : P = GetBettingPayouts(view, chain[Len(chain)], TipHeight + 1).payouts
  OBVIOUS
<1>5. P = Settled.payouts \o <<>> \o <<>> \o <<>>
  BY <1>1, <1>2, <1>3, <1>4, GamesPayNothing DEF Settled
<1>6. PICK c : c = [bets |-> Settled.bets]
  OBVIOUS
<1>7. /\ PaysFor(P, SettledKeys(view, chain[Len(chain)].vResultIDs), c.bets)
      /\ \E m \in Nat : P = [i \in 1 .. m |-> P[i]]
  BY <1>1, <1>5, <1>6, SettlingPays
<1>8. At(P, DOMAIN P) = P
  BY <1>7, AtAll
<1>9. {i \in DOMAIN P : P[i].amount > 0} = DOMAIN P
  BY <1>7 DEF PaysFor
<1>10. AllCount(P)
  BY <1>8, <1>9 DEF AllCount, IsBlockPayoutsValid, ExtractPayouts
<1> QED BY <1>3, <1>4, <1>10

-----------------------------------------------------------------------------
\* A bet is settled once and for all.

\* The bets that block i pays.
SettledIn(i) == SettledKeys(chain[i - 1].after, chain[i - 1].vResultIDs)

\* A settled bet stays as it is in all later blocks, and some block has paid it.
BlockPaid(i) ==
    /\ \A j \in 1 .. i : \A k \in DOMAIN chain[j].after.bets :
         chain[j].after.bets[k].completed =>
            k \in DOMAIN chain[i].after.bets /\ chain[i].after.bets[k] = chain[j].after.bets[k]
    /\ \A k \in DOMAIN chain[i].after.bets :
         chain[i].after.bets[k].completed => \E j \in 2 .. i : k \in SettledIn(j)

(* The history of payments: every bet of the chain that is completed was
   settled in a block of the chain and has not changed since. *)
PInv == \A i \in 1 .. Len(chain) : BlockPaid(i)

LEMMA BlockGrown ==
    ASSUME BInv, NEW i \in 2 .. Len(chain), Len(chain) \in Nat
    PROVE  Grown(chain[i - 1].after, chain[i - 1].vResultIDs, chain[i].after, Height(i), chain[i])
<1>1. i \in 1 .. Len(chain) /\ i # 1
  OBVIOUS
<1> QED BY <1>1 DEF BInv, BlockOK

\* What is settled in a block is settled once and for all.
LEMMA SettledInBlock ==
    ASSUME BInv, NEW i \in 2 .. Len(chain), Len(chain) \in Nat, NEW k \in SettledIn(i)
    PROVE  /\ k \in DOMAIN chain[i].after.bets
           /\ Completes(chain[i - 1].after.bets[k], Height(i), chain[i].after.bets[k])
           /\ ~chain[i - 1].after.bets[k].completed
<1>1. Grown(chain[i - 1].after, chain[i - 1].vResultIDs, chain[i].after, Height(i), chain[i])
  BY BlockGrown
<1>2. PICK a, ids : a = chain[i - 1].after /\ ids = chain[i - 1].vResultIDs
  OBVIOUS
<1>3. k \in DOMAIN a.bets /\ SettledHere(a.bets[k], a.results, ids)
  BY <1>2 DEF SettledIn, SettledKeys
<1>4. ~a.bets[k].completed
  BY <1>3 DEF SettledHere, SettledBy, Due
<1> QED BY <1>1, <1>2, <1>3, <1>4 DEF Grown, BetsMoved

\* The next block goes on with that.
LEMMA NextPaid ==
    ASSUME BInv, NEW n, n \in Nat \ {0}, NEW m, m = n + 1, m <= Len(chain), Len(chain) \in Nat, BlockPaid(n)
    PROVE  BlockPaid(m)
<1>1. m \in 2 .. Len(chain) /\ m - 1 = n /\ m \in 1 .. Len(chain) /\ n \in 1 .. Len(chain)
  OBVIOUS
<1>2. PICK a, v, ids : a = chain[n].after /\ v = chain[m].after /\ ids = chain[n].vResultIDs
  OBVIOUS
<1>3. Grown(a, ids, v, Height(m), chain[m])
  BY <1>1, <1>2, BlockGrown
<1>4. ASSUME NEW k \in DOMAIN a.bets, a.bets[k].completed
      PROVE  k \in DOMAIN v.bets /\ v.bets[k] = a.bets[k]
  <2>1. ~SettledHere(a.bets[k], a.results, ids)
    BY <1>4 DEF SettledHere, SettledBy, Due
  <2>2. k \in DOMAIN v.bets /\ LikeBet(v.bets[k], a.bets[k])
    BY <1>3, <2>1 DEF Grown, BetsMoved
  <2> QED BY <1>4, <2>2, LikeCompleted
<1>5. ASSUME NEW j \in 1 .. m, NEW k \in DOMAIN chain[j].after.bets, chain[j].after.bets[k].completed
      PROVE  k \in DOMAIN v.bets /\ v.bets[k] = chain[j].after.bets[k]
  <2>1. CASE j = m
    BY <1>2, <2>1
  <2>2. CASE j # m
    <3>1. j \in 1 .. n
      BY <2>2
    <3>2. k \in DOMAIN a.bets /\ a.bets[k] = chain[j].after.bets[k]
      BY <1>2, <1>5, <3>1 DEF BlockPaid
    <3> QED BY <1>4, <1>5, <3>2
  <2> QED BY <2>1, <2>2
<1>6. ASSUME NEW k \in DOMAIN v.bets, v.bets[k].completed
      PROVE  \E j \in 2 .. m : k \in SettledIn(j)
  <2>1. k \in DOMAIN a.bets
    BY <1>3, <1>6 DEF Grown, BetsDecided
  <2>2. CASE SettledHere(a.bets[k], a.results, ids)
    <3>1. k \in SettledIn(m)
      BY <1>1, <1>2, <2>1, <2>2 DEF SettledIn, SettledKeys
    <3> QED BY <1>1, <3>1
  <2>3. CASE ~SettledHere(a.bets[k], a.results, ids)
    <3>1. LikeBet(v.bets[k], a.bets[k])
      BY <1>3, <2>1, <2>3 DEF Grown, BetsMoved
    <3>2. a.bets[k].completed
      BY <1>6, <3>1, LikeSame
    <3>3. PICK j \in 2 .. n : k \in SettledIn(j)
      BY <1>2, <2>1, <3>2 DEF BlockPaid
    <3>4. j \in 2 .. m
      OBVIOUS
    <3> QED BY <3>3, <3>4
  <2> QED BY <2>2, <2>3
<1> QED BY <1>2, <1>5, <1>6 DEF BlockPaid

LEMMA NextPaidAll ==
    BInv /\ Len(chain) \in Nat =>
        \A n \in Nat \ {0} : n + 1 <= Len(chain) /\ BlockPaid(n) => BlockPaid(n + 1)
<1> SUFFICES ASSUME BInv, Len(chain) \in Nat, NEW n \in Nat \ {0}, n + 1 <= Len(chain), BlockPaid(n)
             PROVE  BlockPaid(n + 1)
  OBVIOUS
<1>1. PICK m : m = n + 1
  OBVIOUS
<1>2. BlockPaid(m)
  BY <1>1, NextPaid
<1> QED BY <1>1, <1>2

LEMMA NextPaidNext ==
    (BInv /\ Len(chain) \in Nat =>
        \A n \in Nat \ {0} : n + 1 <= Len(chain) /\ BlockPaid(n) => BlockPaid(n + 1))'
BY NextPaidAll, PTL

\* The blocks that stay have paid what they have paid.
LEMMA SamePaid ==
    ASSUME PInv, NEW n, n \in Int, n <= Len(chain), Len(chain) \in Nat, \A i \in 1 .. n : chain'[i] = chain[i]
    PROVE  \A i \in 1 .. n : BlockPaid(i)'
<1> SUFFICES ASSUME NEW i \in 1 .. n PROVE BlockPaid(i)'
  OBVIOUS
<1>1. i \in 1 .. Len(chain) /\ BlockPaid(i)
  BY DEF PInv
<1>2. \A j \in 1 .. i : chain'[j] = chain[j]
  OBVIOUS
<1>3. \A j \in 2 .. i : SettledIn(j)' = SettledIn(j)
  <2>1. \A j \in 2 .. i : chain'[j - 1] = chain[j - 1]
    OBVIOUS
  <2> QED BY <2>1 DEF SettledIn
<1> QED BY <1>1, <1>2, <1>3 DEF BlockPaid

LEMMA PInvStep ==
    ASSUME Ordinary, CInv, CInv', PInv, [Next]_vars
    PROVE  PInv'
<1>0. TypeOK /\ UInv /\ Base /\ BInv' /\ mode' # "failed" /\ Len(chain) \in Nat \ {0}
  BY ChainSeq DEF CInv, Base, IInv
<1>1. CASE chain' = chain
  <2>1. \A i \in 1 .. Len(chain) : BlockPaid(i)'
    BY <1>0, <1>1, SamePaid
  <2> QED BY <1>1, <2>1 DEF PInv
<1>2. CASE EndConnect
  <2>1. PICK n : n = Len(chain)
    OBVIOUS
  <2>2. Len(chain') = n + 1 /\ \A i \in 1 .. n : chain'[i] = chain[i]
    BY <1>0, <1>2, <2>1, BlockEnds
  <2>3. \A i \in 1 .. n : BlockPaid(i)'
    BY <1>0, <2>1, <2>2, SamePaid
  <2>4. PICK m : m = n + 1
    OBVIOUS
  <2>5. n \in Nat \ {0} /\ n \in 1 .. n /\ m <= Len(chain') /\ Len(chain') \in Nat
    BY <1>0, <2>1, <2>2, <2>4
  <2>6. BlockPaid(n)'
    BY <2>3, <2>5
  <2>7. BlockPaid(m)'
    BY <1>0, <2>4, <2>5, <2>6, NextPaidNext
  <2>8. \A i \in 1 .. Len(chain') : i \in 1 .. n \/ i = m
    BY <2>2, <2>4, <2>5
  <2> QED BY <2>3, <2>7, <2>8 DEF PInv
<1>3. CASE EndDisconnect
  <2>1. PICK n : n = Len(chain) - 1
    OBVIOUS
  <2>2. Len(chain') = n /\ \A i \in 1 .. n : chain'[i] = chain[i]
    BY <1>0, <1>3, <2>1, UndoEnds
  <2>3. \A i \in 1 .. n : BlockPaid(i)'
    BY <1>0, <2>1, <2>2, SamePaid
  <2> QED BY <2>2, <2>3 DEF PInv
<1>4. CASE UNCHANGED vars
  BY <1>1, <1>4 DEF vars
<1>5. CASE Connect
  <2>1. CASE \E time \in BlockTimes, proof \in Proofs : BeginConnect(time, proof)
    BY <1>1, <2>1 DEF BeginConnect, StartBlock, Abort
  <2>2. CASE RejectBlock \/ \E tx \in Txs : TakeTx(tx)
    BY <1>1, <2>2 DEF RejectBlock, TakeTx
  <2> QED BY <1>2, <1>5, <2>1, <2>2 DEF Connect
<1>6. CASE Disconnect
  BY <1>1, <1>3, <1>6 DEF Disconnect, BeginDisconnect, Abort
<1>7. CASE OutputAction
  <2>1. ConnectsOutput \/ DisconnectsOutput
    BY <1>0, <1>7, Outputs DEF OutputAction, Abort
  <2> QED BY <1>1, <2>1 DEF ConnectsOutput, DisconnectsOutput, MovesTo
<1> QED BY <1>4, <1>5, <1>6, <1>7 DEF Next, OutputAction

LEMMA InitPInv == Reversible /\ Init => PInv
<1> SUFFICES ASSUME Reversible, Init PROVE PInv
  OBVIOUS
<1>1. Len(chain) = 1 /\ chain[1].after = BaseView
  BY DEF Init, Connected, NoBlock, Block
<1>2. DOMAIN BaseView.bets = {}
  BY DEF Reversible
<1> QED BY <1>1, <1>2 DEF PInv, BlockPaid

\* A bet that the chain pays, seen from the tip.
LEMMA PaidBet ==
    ASSUME TypeOK, BInv, PInv, NEW k, NEW p \in Payments(k)
    PROVE  /\ p = <<p[1], p[2]>> /\ p[1] \in 2 .. Len(chain) /\ k \in SettledIn(p[1])
           /\ p[2] \in DOMAIN chain[p[1]].payouts
           /\ k \in DOMAIN view.bets /\ view.bets[k].completed /\ view.bets[k].payout > 0
           /\ chain[p[1]].payouts[p[2]].amount = view.bets[k].payout
           /\ BaseHeight + p[1] - 1 = view.bets[k].payoutHeight
<1>0. Len(chain) \in Nat \ {0} /\ DOMAIN chain = 1 .. Len(chain) /\ Len(chain) \in 1 .. Len(chain)
  BY ChainSeq
<1>1. PICK i \in DOMAIN chain : p \in {i} \X DOMAIN chain[i].payouts
  BY DEF Payments
<1>2. /\ p = <<p[1], p[2]>> /\ p[1] = i /\ p[2] \in DOMAIN chain[i].payouts
      /\ chain[i].payouts[p[2]].to = "player" /\ chain[i].payouts[p[2]].key = k
  BY <1>1 DEF Payments
<1>3. i \in 1 .. Len(chain) /\ i # 1
  BY <1>0, <1>1, <1>2 DEF BInv, BlockOK
<1>4. i \in 2 .. Len(chain)
  BY <1>0, <1>3
<1>5. Grown(chain[i - 1].after, chain[i - 1].vResultIDs, chain[i].after, Height(i), chain[i])
  BY <1>0, <1>4, BlockGrown
<1>6. PICK b : b = chain[i].after.bets[k]
  OBVIOUS
<1>7. k \in SettledIn(i) /\ chain[i].payouts[p[2]].amount = b.payout /\ b.payout > 0
  BY <1>2, <1>5, <1>6 DEF Grown, BetsPaid, PaysFor, SettledIn
<1>8. k \in DOMAIN chain[i].after.bets /\ b.completed /\ b.payoutHeight = Height(i)
  BY <1>0, <1>4, <1>6, <1>7, SettledInBlock DEF Completes
<1>9. PICK n : n = Len(chain)
  OBVIOUS
<1>10. k \in DOMAIN chain[n].after.bets /\ chain[n].after.bets[k] = b
  BY <1>0, <1>3, <1>6, <1>8, <1>9 DEF PInv, BlockPaid
<1>11. k \in DOMAIN view.bets /\ LikeBet(view.bets[k], chain[n].after.bets[k])
  BY <1>9, <1>10 DEF BInv, LikeBets
<1>12. view.bets[k] = b
  BY <1>8, <1>10, <1>11, LikeCompleted
<1> QED BY <1>2, <1>4, <1>7, <1>8, <1>11, <1>12 DEF Height

\* A bet that records a payout was paid it.
LEMMA BetIsPaid ==
    ASSUME TypeOK, BInv, PInv, NEW k \in DOMAIN view.bets, view.bets[k].completed, view.bets[k].payout > 0
    PROVE  Payments(k) # {}
<1>0. PICK n : n = Len(chain)
  OBVIOUS
<1>1. n \in Nat \ {0} /\ DOMAIN chain = 1 .. n /\ n \in 1 .. n
  BY <1>0, ChainSeq
<1>2. PICK b : b = chain[n].after.bets[k]
  OBVIOUS
<1>3. k \in DOMAIN chain[n].after.bets /\ LikeBet(view.bets[k], b)
  BY <1>0, <1>2 DEF BInv, LikeBets
<1>4. b.completed /\ b.payout > 0
  BY <1>3, LikeSame
<1>5. BlockPaid(n)
  BY <1>0, <1>1 DEF PInv
<1>6. PICK j \in 2 .. n : k \in SettledIn(j)
  BY <1>2, <1>3, <1>4, <1>5 DEF BlockPaid
<1>7. j \in 2 .. Len(chain) /\ Len(chain) \in Nat /\ j \in 1 .. n /\ j \in DOMAIN chain
  BY <1>0, <1>1
<1>8. k \in DOMAIN chain[j].after.bets /\ chain[j].after.bets[k].completed
  BY <1>6, <1>7, SettledInBlock DEF Completes
<1>9. chain[j].after.bets[k].payout > 0
  BY <1>2, <1>4, <1>5, <1>7, <1>8 DEF BlockPaid
<1>10. Grown(chain[j - 1].after, chain[j - 1].vResultIDs, chain[j].after, Height(j), chain[j])
  BY <1>7, BlockGrown
<1>11. PICK i \in DOMAIN chain[j].payouts : chain[j].payouts[i].to = "player" /\ chain[j].payouts[i].key = k
  BY <1>6, <1>9, <1>10 DEF Grown, BetsPaid, PaysFor, SettledIn
<1>12. <<j, i>> \in Payments(k)
  BY <1>7, <1>11 DEF Payments
<1> QED BY <1>12

LEMMA PInvMarks == CInv /\ PInv => MarksMatchPayments
<1> SUFFICES ASSUME CInv, PInv, NEW k \in DOMAIN view.bets
             PROVE  /\ (view.bets[k].completed /\ view.bets[k].payout > 0) <=> Payments(k) # {}
                    /\ \A p \in Payments(k) :
                         /\ chain[p[1]].payouts[p[2]].amount = view.bets[k].payout
                         /\ BaseHeight + p[1] - 1 = view.bets[k].payoutHeight
  BY DEF MarksMatchPayments
<1>1. TypeOK /\ BInv
  BY DEF CInv, Base, IInv
<1>2. \A p \in Payments(k) :
        /\ view.bets[k].completed /\ view.bets[k].payout > 0
        /\ chain[p[1]].payouts[p[2]].amount = view.bets[k].payout
        /\ BaseHeight + p[1] - 1 = view.bets[k].payoutHeight
  BY <1>1, PaidBet
<1>3. view.bets[k].completed /\ view.bets[k].payout > 0 => Payments(k) # {}
  BY <1>1, BetIsPaid
<1> QED BY <1>2, <1>3

\* A bet settled in one block is not in another.
LEMMA SettledOnce ==
    ASSUME BInv, PInv, Len(chain) \in Nat, NEW i \in 2 .. Len(chain), NEW j \in 2 .. Len(chain), i < j,
           NEW k \in SettledIn(i)
    PROVE  k \notin SettledIn(j)
<1>1. k \in DOMAIN chain[i].after.bets /\ chain[i].after.bets[k].completed
  BY SettledInBlock DEF Completes
<1>2. PICK m : m = j - 1
  OBVIOUS
<1>3. m \in 1 .. Len(chain) /\ i \in 1 .. m
  BY <1>2
<1>4. chain[m].after.bets[k] = chain[i].after.bets[k]
  BY <1>1, <1>3 DEF PInv, BlockPaid
<1> QED BY <1>1, <1>2, <1>4, SettledInBlock

LEMMA PInvOnce == CInv /\ PInv => PaidOnce
<1> SUFFICES ASSUME CInv, PInv, NEW k \in PaidKeys PROVE Cardinality(Payments(k)) = 1
  BY DEF PaidOnce
<1>1. TypeOK /\ BInv /\ Len(chain) \in Nat /\ DOMAIN chain = 1 .. Len(chain)
  BY ChainSeq DEF CInv, Base, IInv
<1>2. PICK i \in DOMAIN chain : \E out \in ToSet(chain[i].payouts) : out.to = "player" /\ out.key = k
  BY DEF PaidKeys
<1>o. PICK out \in ToSet(chain[i].payouts) : out.to = "player" /\ out.key = k
  BY <1>2
<1>3. PICK j \in DOMAIN chain[i].payouts : out = chain[i].payouts[j]
  BY DEF ToSet
<1>4. <<i, j>> \in Payments(k)
  BY <1>3, <1>o DEF Payments
<1>5. ASSUME NEW p \in Payments(k), NEW q \in Payments(k) PROVE p = q
  <2>1. /\ p = <<p[1], p[2]>> /\ p[1] \in 2 .. Len(chain) /\ k \in SettledIn(p[1])
        /\ p[2] \in DOMAIN chain[p[1]].payouts
    BY <1>1, PaidBet
  <2>2. /\ q = <<q[1], q[2]>> /\ q[1] \in 2 .. Len(chain) /\ k \in SettledIn(q[1])
        /\ q[2] \in DOMAIN chain[q[1]].payouts
    BY <1>1, PaidBet
  <2>3. ~(p[1] < q[1]) /\ ~(q[1] < p[1])
    BY <1>1, <2>1, <2>2, SettledOnce
  <2>4. PICK n : n = p[1]
    OBVIOUS
  <2>5. n = p[1] /\ n = q[1] /\ n \in 2 .. Len(chain)
    BY <1>1, <2>1, <2>2, <2>3, <2>4
  <2>6. Grown(chain[n - 1].after, chain[n - 1].vResultIDs, chain[n].after, Height(n), chain[n])
    BY <1>1, <2>5, BlockGrown
  <2>7. /\ chain[n].payouts[p[2]].to = "player" /\ chain[n].payouts[p[2]].key = k
        /\ chain[n].payouts[q[2]].to = "player" /\ chain[n].payouts[q[2]].key = k
    BY <2>5 DEF Payments
  <2>8. p[2] = q[2]
    <3>1. PICK P, K, bets : P = chain[n].payouts /\ PaysFor(P, K, bets)
      BY <2>6 DEF Grown, BetsPaid
    <3>2. PICK x, y : x = p[2] /\ y = q[2]
      OBVIOUS
    <3>3. x \in DOMAIN P /\ y \in DOMAIN P
      BY <2>1, <2>2, <2>5, <3>1, <3>2
    <3>4. P[x].to = "player" /\ P[x].key = k /\ P[y].to = "player" /\ P[y].key = k
      BY <2>7, <3>1, <3>2
    <3>5. x = y
      BY <3>1, <3>3, <3>4 DEF PaysFor
    <3> QED BY <3>2, <3>5
  <2> QED BY <2>1, <2>2, <2>5, <2>8
<1>6. Payments(k) = {<<i, j>>}
  BY <1>4, <1>5
<1> QED BY <1>6, FS_Singleton

-----------------------------------------------------------------------------
\* The theorems about the bets.

(* Disconnecting is the exact inverse of connecting, for every set of
   transactions on peerless events and field events that stay open: whatever
   was connected and disconnected, bettingsView holds what it held when the tip
   was first connected (DisconnectTip, UndoBettingTx, UndoPLBetPayouts). *)
THEOREM RestoredCorrect == Ordinary /\ Lists /\ Reversible => (Spec => []Restored)
<1> SUFFICES ASSUME Ordinary, Lists, Reversible PROVE Spec => []Restored
  OBVIOUS
<1>1. Init => CInv
  BY InitCInv
<1>2. CInv /\ [Next]_vars => CInv'
  BY CInvStep
<1> QED BY <1>1, <1>2, CInvRestored, PTL DEF Spec

(* A bet carries the odds that stood at the end of the block before its own,
   even if its own block changed them first, also after reorganisations
   (ProcessBettingTx reads the locked event from bettingsView). *)
THEOREM OddsFromBlockBeforeCorrect == Ordinary /\ Lists /\ Reversible => (Spec => []OddsFromBlockBefore)
<1> SUFFICES ASSUME Ordinary, Lists, Reversible PROVE Spec => []OddsFromBlockBefore
  OBVIOUS
<1>1. Init => CInv
  BY InitCInv
<1>2. CInv /\ [Next]_vars => CInv'
  BY CInvStep
<1> QED BY <1>1, <1>2, CInvOdds, PTL DEF Spec

(* No bet is forgotten: once the results of all its events are in blocks below
   the tip, and none of them closes its event, the bet is settled
   (GetPLBetPayoutsV3). *)
THEOREM DueBetsSettledCorrect == Ordinary /\ Lists /\ Reversible => (Spec => []DueBetsSettled)
<1> SUFFICES ASSUME Ordinary, Lists, Reversible PROVE Spec => []DueBetsSettled
  OBVIOUS
<1>1. Init => CInv
  BY InitCInv
<1>2. CInv /\ [Next]_vars => CInv'
  BY CInvStep
<1> QED BY <1>1, <1>2, CInvDue, PTL DEF Spec

(* The chain can always be extended: every payout that the next block owes is
   one that IsBlockPayoutsValid counts (ExtractPayouts). *)
THEOREM NextBlockPossibleCorrect == Ordinary /\ Lists /\ Reversible => (Spec => []NextBlockPossible)
<1> SUFFICES ASSUME Ordinary, Lists, Reversible PROVE Spec => []NextBlockPossible
  OBVIOUS
<1>1. Init => CInv
  BY InitCInv
<1>2. CInv /\ [Next]_vars => CInv'
  BY CInvStep
<1>3. CInv => NextBlockPossible
  BY CInvNext DEF Reversible
<1> QED BY <1>1, <1>2, <1>3, PTL DEF Spec

(* A bet is marked as paid exactly if the active chain pays it, with the amount
   and at the height that the bet records (SetCompleted, UndoPLBetPayouts). *)
THEOREM MarksMatchPaymentsCorrect == Ordinary /\ Lists /\ Reversible => (Spec => []MarksMatchPayments)
<1> SUFFICES ASSUME Ordinary, Lists, Reversible PROVE Spec => []MarksMatchPayments
  OBVIOUS
<1>1. Init => CInv /\ PInv
  BY InitCInv, InitPInv
<1>2. CInv /\ PInv /\ [Next]_vars => CInv' /\ PInv'
  BY CInvStep, PInvStep
<1> QED BY <1>1, <1>2, PInvMarks, PTL DEF Spec

(* The active chain pays no bet twice, whatever results and reorganisations
   there are (the completed marks of GetPLBetPayoutsV3). *)
THEOREM PaidOnceCorrect == Ordinary /\ Lists /\ Reversible => (Spec => []PaidOnce)
<1> SUFFICES ASSUME Ordinary, Lists, Reversible PROVE Spec => []PaidOnce
  OBVIOUS
<1>1. Init => CInv /\ PInv
  BY InitCInv, InitPInv
<1>2. CInv /\ PInv /\ [Next]_vars => CInv' /\ PInv'
  BY CInvStep, PInvStep
<1> QED BY <1>1, <1>2, PInvOnce, PTL DEF Spec

-----------------------------------------------------------------------------
\* The counters of the peerless events.

\* The fields of a peerless event.
IsEvent(event) == event = [f \in {"info", "bets", "liability"} |-> event[f]]

\* One of the legs is on outcome o of event e.
LegOn(legs, e, o) == \E i \in DOMAIN legs : legs[i].event = e /\ legs[i].outcome = o

\* The counters of the events of v are those of its bets.
BetsCounted(v) ==
    /\ \A e \in DOMAIN v.events : IsEvent(v.events[e])
         /\ \A o \in Outcomes : v.events[e].bets[o] = Cardinality(BetsOn(v, e, o))
    /\ \A k \in DOMAIN v.bets : \A i \in DOMAIN v.bets[k].legs : v.bets[k].legs[i].event \in DOMAIN v.events

\* What a step that connects an output does to the counters.
Counting ==
    /\ \A e \in DOMAIN cache.events :
         /\ e \in DOMAIN cache'.events /\ IsEvent(cache'.events[e])
         /\ \A o \in Outcomes : cache'.events[e].bets[o] = cache.events[e].bets[o]
              + IF IsBet(Tx) /\ LegOn(First(Tx).legs, e, o) THEN 1 ELSE 0
    /\ \A e \in DOMAIN cache'.events : e \notin DOMAIN cache.events =>
         IsEvent(cache'.events[e]) /\ \A o \in Outcomes : cache'.events[e].bets[o] = 0

\* Counters are numbers.
EventsCount(events) == \A e \in DOMAIN events : IsEvent(events[e]) /\ \A o \in Outcomes : events[e].bets[o] \in Nat

\* A bet on an outcome counts there and nowhere else.
LEMMA CountedOutcome ==
    ASSUME NEW o \in Outcomes, NEW outcome
    PROVE  o \in Counted(outcome) <=> o = outcome
BY DEF Outcomes, MoneyLine, Spreads, Totals, Counted

\* Every outcome has a counter.
LEMMA OutcomesCounted == Outcomes \subseteq Counters
BY DEF Counters

\* A bet counts once.
LEMMA PlBetCounts ==
    ASSUME NEW event, IsEvent(event), NEW outcome, NEW amount, NEW payout, NEW next,
           next = CountBet(AddLiability(event, outcome, amount, payout), outcome),
           \A o \in Outcomes : event.bets[o] \in Nat
    PROVE  IsEvent(next) /\ \A o \in Outcomes : next.bets[o] = event.bets[o] + IF o = outcome THEN 1 ELSE 0
<1>1. PICK l : AddLiability(event, outcome, amount, payout) = [event EXCEPT !.liability = l]
  BY DEF AddLiability
<1>2. PICK mid : mid = [event EXCEPT !.liability = l]
  OBVIOUS
<1>3. IsEvent(mid) /\ mid.bets = event.bets
  BY <1>2 DEF IsEvent
<1>4. next = [mid EXCEPT !.bets = [c \in Counters |-> IF c \in Counted(outcome) THEN mid.bets[c] + 1 ELSE mid.bets[c]]]
  BY <1>1, <1>2, <1>3 DEF CountBet, IsEvent
<1>5. PICK b : b = [c \in Counters |-> IF c \in Counted(outcome) THEN mid.bets[c] + 1 ELSE mid.bets[c]]
  OBVIOUS
<1>6. IsEvent(next) /\ next.bets = b
  BY <1>3, <1>4, <1>5 DEF IsEvent
<1>7. ASSUME NEW o \in Outcomes PROVE b[o] = event.bets[o] + IF o = outcome THEN 1 ELSE 0
  BY <1>3, <1>5, CountedOutcome, OutcomesCounted
<1> QED BY <1>6, <1>7

\* A parlay counts every leg once: CheckBettingTx wants different events.
LEMMA LegsCount ==
    ASSUME NEW legs, NEW n \in Nat, DOMAIN legs = 1 .. n, NEW e \in DOMAIN cache.events, IsEvent(cache.events[e]),
           \A i, j \in DOMAIN legs : i # j => legs[i].event # legs[j].event,
           \A o \in Outcomes : cache.events[e].bets[o] \in Nat,
           NEW next, next = WithLegs(e, legs, n)
    PROVE  IsEvent(next) /\ \A o \in Outcomes :
             next.bets[o] = cache.events[e].bets[o] + IF LegOn(legs, e, o) THEN 1 ELSE 0
<1>1. CASE \A i \in 1 .. n : legs[i].event # e
  BY <1>1 DEF WithLegs, LegOn
<1>2. CASE ~\A i \in 1 .. n : legs[i].event # e
  <2>1. PICK event : event = cache.events[e]
    OBVIOUS
  <2> DEFINE T(c) == {i \in 1 .. n : legs[i].event = e /\ c \in Counted(legs[i].outcome)}
  <2>2. PICK b : b = [c \in Counters |-> event.bets[c] + Cardinality(T(c))]
    OBVIOUS
  <2>3. next = [event EXCEPT !.bets = b]
    BY <1>2, <2>1, <2>2 DEF WithLegs, IsEvent
  <2>4. IsEvent(next) /\ next.bets = b
    BY <2>1, <2>3 DEF IsEvent
  <2>5. ASSUME NEW o \in Outcomes PROVE Cardinality(T(o)) = IF LegOn(legs, e, o) THEN 1 ELSE 0
    <3>1. \A i \in T(o) : i \in DOMAIN legs /\ legs[i].event = e /\ legs[i].outcome = o
      BY CountedOutcome
    <3>2. CASE LegOn(legs, e, o)
      <4>1. PICK i \in DOMAIN legs : legs[i].event = e /\ legs[i].outcome = o
        BY <3>2 DEF LegOn
      <4>2. T(o) = {i}
        BY <3>1, <4>1, CountedOutcome
      <4> HIDE DEF T
      <4> QED BY <3>2, <4>2, FS_Singleton
    <3>3. CASE ~LegOn(legs, e, o)
      <4>1. T(o) = {}
        BY <3>1, <3>3 DEF LegOn
      <4> HIDE DEF T
      <4> QED BY <3>3, <4>1, FS_EmptySet
    <3> QED BY <3>2, <3>3
  <2> HIDE DEF T
  <2>6. ASSUME NEW o \in Outcomes PROVE b[o] = event.bets[o] + IF LegOn(legs, e, o) THEN 1 ELSE 0
    BY <2>2, <2>5, OutcomesCounted
  <2> QED BY <2>1, <2>4, <2>6
<1> QED BY <1>1, <1>2

\* An output that is no bet and leaves all counters of the events it finds.
LEMMA PlainCounting ==
    ASSUME EventsCount(cache.events), ~IsBet(Tx), cache'.events = cache.events
    PROVE  Counting
BY DEF Counting, EventsCount

\* Changing the odds of events leaves their counters.
LEMMA InfoCounting ==
    ASSUME EventsCount(cache.events), ~IsBet(Tx), DOMAIN cache'.events = DOMAIN cache.events,
           \A e \in DOMAIN cache.events : IsEvent(cache'.events[e]) /\ cache'.events[e].bets = cache.events[e].bets
    PROVE  Counting
BY DEF Counting, EventsCount

\* Outputs about peerless events.
LEMMA PeerlessCounting ==
    ASSUME Ordinary, Lists, TypeOK, UInv, AllDbs(cache), EventsCount(cache.events), mode = "connect", PeerlessStep
    PROVE  Counting
<1>0. "events" \in Dbs
  BY DEF Dbs, BetDbs
<1>n. ASSUME NEW type, Undoing(type) PROVE FALSE
  BY <1>n DEF Undoing, Handles
<1>4. ASSUME NEW type, Processing(type), type \notin {"plBet", "plParlayBet"} PROVE ~IsBet(Tx)
  <2>1. First(Tx).type = type /\ AtOutput
    BY <1>4, AtConnecting
  <2> QED BY <1>4, <2>1 DEF IsBet, HasType
<1>e. ASSUME NEW e \in DOMAIN cache.events
      PROVE  IsEvent(cache.events[e]) /\ \A o \in Outcomes : cache.events[e].bets[o] \in Nat
  BY DEF EventsCount
<1>1. CASE ProcessPlBet
  <2>0. Processing("plBet")
    BY <1>1 DEF ProcessPlBet
  <2>1. First(Tx).type = "plBet" /\ AtOutput /\ Tx \in Txs
    BY <2>0, AtConnecting
  <2>2. IsBet(Tx) /\ DOMAIN First(Tx).legs = {1}
    BY <2>1 DEF IsBet, Saves, HasType, RecordTypes, Ordinary
  <2>3. PICK leg, e : leg = First(Tx).legs[1] /\ e = leg.event
    OBVIOUS
  <2>4. NamesEvent(Tx, e) /\ Saves(Tx)
    BY <2>1, <2>2, <2>3 DEF NamesEvent, OnLegs, IsBet, HasType
  <2>5. e \in DOMAIN cache.events
    BY <2>0, <2>4, AtConnecting
  <2>6. PICK next : next = PlBetEvent
    OBVIOUS
  <2>7. cache'.events = DbUpdate(cache.events, e, next)
    BY <1>1, <2>3, <2>6, PlBetTrace
  <2>8. DOMAIN cache'.events = DOMAIN cache.events
    BY <2>5, <2>7 DEF DbUpdate, Put
  <2>c. cache'.events[e] = next
    BY <2>5, <2>7 DEF DbUpdate, Put
  <2>d. \A x \in DOMAIN cache.events : x # e => cache'.events[x] = cache.events[x]
    BY <2>5, <2>7 DEF DbUpdate, Put
  <2>9. /\ IsEvent(next)
        /\ \A o \in Outcomes : next.bets[o] = cache.events[e].bets[o] + IF o = leg.outcome THEN 1 ELSE 0
    <3>1. PICK event, outcome, amount, payout :
            /\ event = cache.events[e] /\ outcome = leg.outcome
            /\ next = CountBet(AddLiability(event, outcome, amount, payout), outcome)
      BY <2>3, <2>6 DEF PlBetEvent
    <3>2. IsEvent(event) /\ \A o \in Outcomes : event.bets[o] \in Nat
      BY <1>e, <2>5, <3>1
    <3>3. /\ IsEvent(next)
          /\ \A o \in Outcomes : next.bets[o] = event.bets[o] + IF o = outcome THEN 1 ELSE 0
      BY <3>1, <3>2, PlBetCounts
    <3> QED BY <3>1, <3>3
  <2>10. \A x, o : LegOn(First(Tx).legs, x, o) <=> x = e /\ o = leg.outcome
    BY <2>2, <2>3 DEF LegOn
  <2>11. ASSUME NEW x \in DOMAIN cache.events
         PROVE  /\ IsEvent(cache'.events[x])
                /\ \A o \in Outcomes : cache'.events[x].bets[o] = cache.events[x].bets[o]
                     + IF IsBet(Tx) /\ LegOn(First(Tx).legs, x, o) THEN 1 ELSE 0
    <3>1. CASE x = e
      BY <2>2, <2>c, <2>9, <2>10, <3>1
    <3>2. CASE x # e
      BY <1>e, <2>d, <2>10, <3>2
    <3> QED BY <3>1, <3>2
  <2> QED BY <2>8, <2>11 DEF Counting
<1>2. CASE ProcessPlParlayBet /\ First(Tx).legs # <<>>
  <2>0. Processing("plParlayBet")
    BY <1>2 DEF ProcessPlParlayBet
  <2>1. First(Tx).type = "plParlayBet" /\ AtOutput /\ Tx \in Txs /\ CheckBettingTx(Tx)
    BY <2>0, AtConnecting
  <2>2. IsBet(Tx)
    BY <1>2, <2>1 DEF IsBet, Saves, HasType, RecordTypes
  <2>3. PICK legs, n : legs = First(Tx).legs /\ n = Len(legs)
    OBVIOUS
  <2>4. n \in Nat /\ DOMAIN legs = 1 .. n /\ \A i, j \in DOMAIN legs : i # j => legs[i].event # legs[j].event
    <3>1. CheckPlParlayBet(First(Tx)) /\ IsSeq(legs)
      BY <2>1, <2>3, CheckedOutput DEF Lists, HasType
    <3> QED BY <2>3, <3>1, LenProperties DEF CheckPlParlayBet, IsSeq
  <2>5. cache'.events = [e \in DOMAIN cache.events |-> WithLegs(e, legs, n)]
    BY <1>2, <2>3, PlParlayTrace
  <2>6. ASSUME NEW e \in DOMAIN cache.events
        PROVE  /\ IsEvent(cache'.events[e])
               /\ \A o \in Outcomes : cache'.events[e].bets[o] = cache.events[e].bets[o]
                    + IF LegOn(legs, e, o) THEN 1 ELSE 0
    <3>1. PICK next : next = WithLegs(e, legs, n)
      OBVIOUS
    <3>2. cache'.events[e] = next
      BY <2>5, <3>1
    <3>3. /\ IsEvent(next)
          /\ \A o \in Outcomes : next.bets[o] = cache.events[e].bets[o] + IF LegOn(legs, e, o) THEN 1 ELSE 0
      BY <1>e, <2>4, <3>1, LegsCount
    <3> QED BY <3>2, <3>3
  <2>7. DOMAIN cache'.events = DOMAIN cache.events
    BY <2>5
  <2> QED BY <2>2, <2>3, <2>6, <2>7 DEF Counting
<1>3. CASE ProcessPlParlayBet /\ First(Tx).legs = <<>>
  <2>1. First(Tx).type = "plParlayBet" /\ AtOutput
    BY <1>3, AtConnecting DEF ProcessPlParlayBet
  <2>2. ~IsBet(Tx)
    BY <1>3, <2>1 DEF IsBet, Saves, HasType
  <2>3. cache' = cache
    BY <1>3, EmptyParlayTrace
  <2> QED BY <2>2, <2>3, PlainCounting
<1>5. CASE ProcessMapping
  <2>1. Processing("mapping")
    BY <1>5 DEF ProcessMapping
  <2>2. ~IsBet(Tx)
    BY <1>4, <2>1
  <2>3. cache'.events = cache.events
    BY <1>0, <1>5, MappingTrace DEF Came
  <2> QED BY <2>2, <2>3, PlainCounting
<1>6. CASE ProcessPlEvent
  <2>1. Processing("plEvent")
    BY <1>6 DEF ProcessPlEvent
  <2>2. ~IsBet(Tx)
    BY <1>4, <2>1
  <2>3. PICK e, v : /\ cache'.events = DbWrite(cache.events, e, v)
                    /\ v = [info |-> First(Tx).info, bets |-> Zero, liability |-> Zero]
    BY <1>6, PlEventTrace
  <2>4. IsEvent(v) /\ \A o \in Outcomes : v.bets[o] = 0
    BY <2>3, OutcomesCounted DEF IsEvent, Zero
  <2>5. CASE e \in DOMAIN cache.events
    BY <2>2, <2>3, <2>5, PlainCounting DEF DbWrite
  <2>6. CASE e \notin DOMAIN cache.events
    <3>1. /\ DOMAIN cache'.events = DOMAIN cache.events \cup {e} /\ cache'.events[e] = v
          /\ \A x \in DOMAIN cache.events : cache'.events[x] = cache.events[x]
      BY <2>3, <2>6 DEF DbWrite, Put
    <3> QED BY <1>e, <2>2, <2>4, <3>1 DEF Counting
  <2> QED BY <2>5, <2>6
<1>7. CASE ProcessPlResult
  <2>1. Processing("plResult")
    BY <1>7 DEF ProcessPlResult
  <2>2. ~IsBet(Tx)
    BY <1>4, <2>1
  <2>3. cache'.events = cache.events
    BY <1>0, <1>7, PlResultTrace DEF Came
  <2> QED BY <2>2, <2>3, PlainCounting
<1>8. CASE ProcessPlZeroing
  <2>1. Processing("plZeroing")
    BY <1>8 DEF ProcessPlZeroing
  <2>2. ~IsBet(Tx)
    BY <1>4, <2>1
  <2>3. PICK ids, n : cache'.events = [e \in DOMAIN cache.events |-> WithZeroes(e, ids, n)]
    BY <1>8, PlZeroingTrace
  <2>4. ASSUME NEW e \in DOMAIN cache.events
        PROVE  IsEvent(cache'.events[e]) /\ cache'.events[e].bets = cache.events[e].bets
    <3>1. cache'.events[e] = WithZeroes(e, ids, n)
      BY <2>3
    <3> QED BY <1>e, <3>1 DEF WithZeroes, IsEvent
  <2>5. DOMAIN cache'.events = DOMAIN cache.events
    BY <2>3
  <2> QED BY <2>2, <2>4, <2>5, InfoCounting
<1>9. ASSUME NEW type \in PlUpdates, ProcessPlUpdate(type) PROVE Counting
  <2>1. Processing(type) /\ type \notin {"plBet", "plParlayBet"}
    BY <1>9 DEF ProcessPlUpdate, PlUpdates
  <2>2. ~IsBet(Tx)
    BY <1>4, <2>1
  <2>3. PICK x, info : cache'.events = [cache.events EXCEPT ![x].info = info]
    <3>1. cache'.events = [cache.events EXCEPT ![First(Tx).event].info = ExtractDataFromTx(@, First(Tx))]
      BY <1>9, PlUpdateTrace
    <3> QED BY <3>1
  <2>4. ASSUME NEW e \in DOMAIN cache.events
        PROVE  IsEvent(cache'.events[e]) /\ cache'.events[e].bets = cache.events[e].bets
    <3>1. cache'.events[e] = cache.events[e] \/ cache'.events[e] = [cache.events[e] EXCEPT !.info = info]
      BY <2>3
    <3> QED BY <1>e, <3>1 DEF IsEvent
  <2>5. DOMAIN cache'.events = DOMAIN cache.events
    BY <2>3
  <2> QED BY <2>2, <2>4, <2>5, InfoCounting
<1> QED BY <1>n, <1>1, <1>2, <1>3, <1>5, <1>6, <1>7, <1>8, <1>9
        DEF PeerlessStep, UndoPeerlessBet, UndoMapping, UndoPlEvent, UndoPlResult, UndoPlZeroing, UndoPlUpdate

\* Outputs about field events leave the peerless ones.
LEMMA FieldStepCounting ==
    ASSUME Ordinary, Lists, NoGames, TypeOK, UInv, AllDbs(cache), EventsCount(cache.events), mode = "connect", FieldStep
    PROVE  Counting
<1>0. "events" \in Dbs
  BY DEF Dbs, BetDbs
<1>n. ASSUME NEW type, Undoing(type) PROVE FALSE
  BY <1>n DEF Undoing, Handles
<1>4. ASSUME NEW type, Processing(type), type \notin {"plBet", "plParlayBet"} PROVE ~IsBet(Tx)
  <2>1. First(Tx).type = type /\ AtOutput
    BY <1>4, AtConnecting
  <2> QED BY <1>4, <2>1 DEF IsBet, HasType
<1>1. CASE ProcessFBet
  <2>1. Processing("fBet") /\ cache'.events = cache.events
    BY <1>0, <1>1, FBetTrace DEF ProcessFBet
  <2> QED BY <1>4, <2>1, PlainCounting
<1>2. CASE ProcessFParlayBet /\ First(Tx).legs # <<>>
  <2>1. Processing("fParlayBet") /\ cache'.events = cache.events
    BY <1>0, <1>2, FParlayTrace DEF ProcessFParlayBet
  <2> QED BY <1>4, <2>1, PlainCounting
<1>3. CASE ProcessFParlayBet /\ First(Tx).legs = <<>>
  <2>1. Processing("fParlayBet") /\ cache' = cache
    BY <1>3, EmptyParlayTrace DEF ProcessFParlayBet
  <2> QED BY <1>4, <2>1, PlainCounting
<1>6. CASE ProcessFEvent
  <2>1. Processing("fEvent") /\ cache'.events = cache.events
    BY <1>0, <1>6, FEventTrace DEF ProcessFEvent, Came
  <2> QED BY <1>4, <2>1, PlainCounting
<1>7. CASE ProcessFResult
  BY <1>7, NoGamesStep
<1>9. ASSUME NEW type \in FieldUpdates, ProcessFUpdate(type) PROVE Counting
  <2>1. Processing(type) /\ type \notin {"plBet", "plParlayBet"}
    BY <1>9 DEF ProcessFUpdate, FieldUpdates
  <2>2. cache'.events = cache.events
    BY <1>0, <1>9, FUpdateTrace DEF Came
  <2> QED BY <1>4, <2>1, <2>2, PlainCounting
<1> QED BY <1>n, <1>1, <1>2, <1>3, <1>6, <1>7, <1>9
        DEF FieldStep, UndoFieldBet, UndoFEvent, UndoFResult, UndoFUpdate

\* Every step of ConnectBlock that handles an output.
LEMMA OutputCounting ==
    ASSUME Ordinary, Lists, NoGames, TypeOK, UInv, AllDbs(cache), EventsCount(cache.events), mode = "connect", OutputAction
    PROVE  Counting
BY NothingSkipped, NoGamesStep, PeerlessCounting, FieldStepCounting DEF OutputAction

\* The events of the first databases have no bets yet.
Uncounted == \A e \in DOMAIN BaseView.events :
    IsEvent(BaseView.events[e]) /\ \A o \in Outcomes : BaseView.events[e].bets[o] = 0

\* The bets of a block are those of the transactions it has handled.
PlacedBefore ==
    \A k \in DOMAIN cache.bets : k[1] = BlkHeight => \E j \in 1 .. HandledCount : k[2] = blk.txs[j].id

(* The counters match the bets after every block of the chain, and in the block
   that is being connected after every transaction.  While a
   block is disconnected they need not match; that they do again afterwards is
   RInv and BInv. *)
NInv ==
    /\ \A i \in 1 .. Len(chain) : BetsCounted(chain[i].after)
    /\ mode = "connect" => BetsCounted(cache) /\ PlacedBefore

\* The counters are about the legs of the bets and nothing else.
LEMMA CountedSame ==
    ASSUME NEW v, NEW w, BetsCounted(w), v.events = w.events, DOMAIN v.bets = DOMAIN w.bets,
           \A k \in DOMAIN w.bets : v.bets[k].legs = w.bets[k].legs
    PROVE  BetsCounted(v)
<1>1. ASSUME NEW e, NEW o PROVE BetsOn(v, e, o) = BetsOn(w, e, o)
  BY DEF BetsOn
<1> QED BY <1>1 DEF BetsCounted

\* So they do in bettingsView.
LEMMA ViewCounted ==
    ASSUME TypeOK, RInv, BInv, NInv
    PROVE  BetsCounted(view)
<1>1. Len(chain) \in 1 .. Len(chain)
  BY ChainSeq
<1>2. PICK w : w = chain[Len(chain)].after
  OBVIOUS
<1>3. BetsCounted(w) /\ view.events = w.events
  BY <1>1, <1>2 DEF NInv, RInv, ODbs, Dbs, BetDbs
<1>4. DOMAIN view.bets = DOMAIN w.bets /\ \A k \in DOMAIN w.bets : view.bets[k].legs = w.bets[k].legs
  BY <1>2, LikeSame DEF BInv, LikeBets
<1> QED BY <1>3, <1>4, CountedSame

\* The bet of the transaction at hand is new.
LEMMA BetIsNew ==
    ASSUME Ordinary, TypeOK, UInv, NInv, mode = "connect", AtOutput
    PROVE  <<BlkHeight, Tx.id, 1>> \notin DOMAIN cache.bets
<1>1. /\ pos.tx \in 1 .. Len(blk.txs) /\ pos.out = 1 /\ Tx = blk.txs[pos.tx] /\ Tx \in Txs
      /\ \A j \in 1 .. Len(blk.txs) : blk.txs[j] \in Txs
      /\ Len(blk.txs) \in Nat /\ DOMAIN blk.txs = 1 .. Len(blk.txs)
  BY AtTx
<1>2. HandledCount = pos.tx - 1
  BY <1>1 DEF HandledCount
<1>3. ASSUME NEW j \in 1 .. pos.tx - 1 PROVE blk.txs[j].id # Tx.id
  <2>1. j \in DOMAIN blk.txs /\ pos.tx \in DOMAIN blk.txs /\ j # pos.tx
    BY <1>1
  <2>2. blk.txs[j] # Tx
    BY <1>1, <2>1 DEF UInv, Once
  <2> QED BY <1>1, <2>1, <2>2 DEF Ordinary
<1> SUFFICES ASSUME <<BlkHeight, Tx.id, 1>> \in DOMAIN cache.bets PROVE FALSE
  OBVIOUS
<1>4. \E j \in 1 .. HandledCount : Tx.id = blk.txs[j].id
  BY DEF NInv, PlacedBefore
<1> QED BY <1>2, <1>3, <1>4

LEMMA ConnectingCounts ==
    ASSUME Ordinary, Lists, Reversible, TypeOK, UInv, RInv, BInv, NInv, ConnectsOutput, Connecting, Counting
    PROVE  NInv'
<1>1. mode = "connect" /\ AtOutput /\ mode' = mode /\ chain' = chain /\ blk'.txs = blk.txs /\ pos' = NextPos
  BY DEF ConnectsOutput, MovesTo
<1>2. BlkHeight' = BlkHeight
  BY <1>1 DEF BlkHeight, TipHeight
<1>3. /\ pos.tx \in 1 .. Len(blk.txs) /\ pos.out = 1 /\ Tx = blk.txs[pos.tx] /\ Len(blk.txs) \in Nat
      /\ pos.tx = Len(blk.txs)
  BY <1>1, AtTx DEF TypeOK, PosOK
<1>4. HandledCount = pos.tx - 1 /\ HandledCount' = pos.tx
  <2>1. pos'.tx = pos.tx /\ pos'.out = 2
    BY <1>1, <1>3 DEF NextPos, TypeOK, PosOK
  <2> QED BY <1>3, <2>1 DEF HandledCount
<1>5. PICK K, b : K = <<BlkHeight, Tx.id, 1>> /\ b = BetMade
  OBVIOUS
<1>6. K \notin DOMAIN cache.bets /\ cache'.bets = IF IsBet(Tx) THEN Put(cache.bets, K, b) ELSE cache.bets
  <2>1. K \notin DOMAIN cache.bets
    BY <1>1, <1>5, BetIsNew
  <2> QED BY <1>5, <2>1 DEF Connecting, DbWrite
<1>7. /\ DOMAIN cache'.bets = IF IsBet(Tx) THEN DOMAIN cache.bets \cup {K} ELSE DOMAIN cache.bets
      /\ \A k \in DOMAIN cache.bets : cache'.bets[k] = cache.bets[k]
      /\ IsBet(Tx) => cache'.bets[K] = b
  BY <1>6 DEF Put
<1>8. b.legs = First(Tx).legs
  BY <1>5 DEF BetMade, NewBet
<1>9. IsBet(Tx) => \A i \in DOMAIN b.legs : b.legs[i].event \in DOMAIN cache.events
  <2> SUFFICES ASSUME IsBet(Tx) PROVE \A i \in DOMAIN b.legs : b.legs[i].event \in DOMAIN cache.events
    OBVIOUS
  <2>1. Placed(K, BetMade, blk.txs, BlkHeight, view)
    BY <1>1, <1>5, BetMadeOK
  <2>2. DOMAIN view.events \subseteq DOMAIN cache.events
    BY <1>1 DEF UInv, BlockChecked
  <2> QED BY <1>5, <2>1, <2>2 DEF Placed
<1>10. BetsCounted(cache)
  BY <1>1 DEF NInv
<1>11. \A e \in DOMAIN cache.events : e \in DOMAIN cache'.events
  BY DEF Counting
<1>12. ASSUME NEW k \in DOMAIN cache'.bets, NEW i \in DOMAIN cache'.bets[k].legs
       PROVE  cache'.bets[k].legs[i].event \in DOMAIN cache.events
  <2>1. CASE k \in DOMAIN cache.bets
    BY <1>7, <1>10, <1>12, <2>1 DEF BetsCounted
  <2>2. CASE k \notin DOMAIN cache.bets
    BY <1>7, <1>9, <1>12, <2>2
  <2> QED BY <2>1, <2>2
<1>13. ASSUME NEW e \in DOMAIN cache'.events, NEW o \in Outcomes
       PROVE  IsEvent(cache'.events[e]) /\ cache'.events[e].bets[o] = Cardinality(BetsOn(cache', e, o))
  <2>f. IsFiniteSet(BetsOn(cache, e, o)) /\ Cardinality(BetsOn(cache, e, o)) \in Nat
    <3>1. IsFiniteSet(DOMAIN cache.bets) /\ BetsOn(cache, e, o) \subseteq DOMAIN cache.bets
      BY <1>1 DEF BInv, BetsOK, BetsOn
    <3> QED BY <3>1, FS_Subset, FS_CardinalityType
  <2>1. CASE e \notin DOMAIN cache.events
    <3>1. BetsOn(cache', e, o) = {}
      BY <1>12, <2>1 DEF BetsOn
    <3>2. IsEvent(cache'.events[e]) /\ cache'.events[e].bets[o] = 0
      BY <2>1 DEF Counting
    <3> QED BY <3>1, <3>2, FS_EmptySet
  <2>2. CASE e \in DOMAIN cache.events
    <3>1. /\ IsEvent(cache'.events[e])
          /\ cache'.events[e].bets[o] = Cardinality(BetsOn(cache, e, o))
               + IF IsBet(Tx) /\ LegOn(b.legs, e, o) THEN 1 ELSE 0
      BY <1>8, <1>10, <2>2 DEF Counting, BetsCounted
    <3>2. CASE IsBet(Tx) /\ LegOn(b.legs, e, o)
      <4>1. BetsOn(cache', e, o) = BetsOn(cache, e, o) \cup {K} /\ K \notin BetsOn(cache, e, o)
        BY <1>6, <1>7, <3>2 DEF BetsOn, LegOn
      <4>2. Cardinality(BetsOn(cache', e, o)) = Cardinality(BetsOn(cache, e, o)) + 1
        BY <2>f, <4>1, FS_AddElement
      <4> QED BY <3>1, <3>2, <4>2
    <3>3. CASE ~(IsBet(Tx) /\ LegOn(b.legs, e, o))
      <4>1. BetsOn(cache', e, o) = BetsOn(cache, e, o)
        BY <1>6, <1>7, <3>3 DEF BetsOn, LegOn
      <4> QED BY <2>f, <3>1, <3>3, <4>1
    <3> QED BY <3>2, <3>3
  <2> QED BY <2>1, <2>2
<1>14. BetsCounted(cache')
  <2>1. \A e \in DOMAIN cache'.events : IsEvent(cache'.events[e])
    BY DEF Counting
  <2> QED BY <1>11, <1>12, <1>13, <2>1 DEF BetsCounted
<1>15. PlacedBefore'
  <2>1. ASSUME NEW k \in DOMAIN cache'.bets, k[1] = BlkHeight PROVE \E j \in 1 .. pos.tx : k[2] = blk.txs[j].id
    <3>1. CASE k \in DOMAIN cache.bets
      <4>1. PICK j \in 1 .. pos.tx - 1 : k[2] = blk.txs[j].id
        BY <1>1, <1>4, <2>1, <3>1 DEF NInv, PlacedBefore
      <4>2. j \in 1 .. pos.tx
        BY <1>3
      <4> QED BY <4>1, <4>2
    <3>2. CASE k \notin DOMAIN cache.bets
      <4>1. k = K /\ k[2] = Tx.id
        BY <1>5, <1>7, <3>2
      <4> QED BY <1>3, <4>1
    <3> QED BY <3>1, <3>2
  <2> QED BY <1>1, <1>2, <1>4, <2>1 DEF PlacedBefore
<1> QED BY <1>1, <1>14, <1>15 DEF NInv

LEMMA BeginConnectCounts ==
    ASSUME Ordinary, Reversible, CInv, NInv, NEW time, NEW proof, BeginConnect(time, proof)
    PROVE  NInv'
<1>0. TypeOK /\ Base /\ RInv /\ BInv /\ NoGames
  BY DEF CInv, Base, IInv, Reversible
<1>1. /\ mode' = "connect" /\ chain' = chain /\ cache'.bets = Settled.bets /\ cache'.events = view.events
      /\ cache'.results = view.results
  <2>1. /\ mode' = "connect" /\ chain' = chain /\ cache'.bets = Settled.bets
        /\ \A d \in Databases \ {"bets", "payoutsInfo"} : cache'[d] = view[d]
    BY <1>0, BlockStarts
  <2> QED BY <2>1 DEF Databases
<1>2. PICK c : c = cache'
  OBVIOUS
<1>3. c.bets = Settled.bets /\ c.results = view.results
  BY <1>1, <1>2
<1>4. /\ DOMAIN c.bets = DOMAIN view.bets
      /\ \A k \in DOMAIN view.bets :
           IF SettledHere(view.bets[k], view.results, chain[Len(chain)].vResultIDs)
           THEN Completes(view.bets[k], TipHeight + 1, c.bets[k])
           ELSE c.bets[k] = view.bets[k]
  BY <1>0, <1>3, SettlingMoves
<1>5. \A k \in DOMAIN view.bets : c.bets[k].legs = view.bets[k].legs
  BY <1>4 DEF Completes
<1>6. BetsCounted(c)
  BY <1>0, <1>1, <1>2, <1>4, <1>5, ViewCounted, CountedSame
<1>7. ASSUME NEW k \in DOMAIN cache'.bets PROVE k[1] # BlkHeight'
  <2>1. BlkHeight' = TipHeight + 1 /\ TipHeight \in Nat
    BY <1>0, <1>1, ChainSeq DEF BlkHeight, TipHeight
  <2>2. k[1] \in Nat /\ k[1] <= TipHeight
    BY <1>0, <1>2, <1>4, ViewBets DEF BetsOK, BetOK, IsKey
  <2> QED BY <2>1, <2>2
<1>8. PlacedBefore'
  BY <1>7 DEF PlacedBefore
<1> QED BY <1>1, <1>2, <1>6, <1>8 DEF NInv

LEMMA NInvStep ==
    ASSUME Ordinary, Lists, Reversible, CInv, CInv', NInv, [Next]_vars
    PROVE  NInv'
<1>0. /\ TypeOK /\ UInv /\ Base /\ RInv /\ BInv /\ NoGames /\ mode' # "failed"
      /\ AllDbs(cache) /\ Len(chain) \in Nat \ {0}
  BY ChainSeq DEF CInv, Base, IInv, Reversible, RInv, Sound
<1>1. ASSUME chain' = chain, mode' # "connect" PROVE NInv'
  BY <1>1 DEF NInv
<1>2. CASE EndConnect
  <2>1. /\ mode = "connect" /\ mode' = "idle" /\ Len(chain') = Len(chain) + 1
        /\ \A i \in 1 .. Len(chain) : chain'[i] = chain[i]
        /\ chain'[Len(chain) + 1] = Connected(blk, view')
    BY <1>0, <1>2, BlockEnds
  <2>2. view'.events = cache.events /\ view'.bets = cache.bets
    <3>1. \A d \in Databases \ {"undos", "lastHeight"} : view'[d] = cache[d]
      BY <1>0, <1>2, BlockEnds
    <3> QED BY <3>1 DEF Databases
  <2>3. PICK v : v = view'
    OBVIOUS
  <2>4. BetsCounted(v)
    BY <2>1, <2>2, <2>3, CountedSame DEF NInv
  <2>5. chain'[Len(chain) + 1].after = v
    BY <2>1, <2>3 DEF Connected
  <2>6. \A i \in 1 .. Len(chain') : i \in 1 .. Len(chain) \/ i = Len(chain) + 1
    BY <1>0, <2>1
  <2> QED BY <2>1, <2>4, <2>5, <2>6 DEF NInv
<1>3. CASE EndDisconnect
  <2>1. mode' = "idle" /\ Len(chain') = Len(chain) - 1 /\ \A i \in 1 .. Len(chain) - 1 : chain'[i] = chain[i]
    BY <1>0, <1>3, UndoEnds
  <2>2. \A i \in 1 .. Len(chain') : i \in 1 .. Len(chain) /\ chain'[i] = chain[i]
    BY <1>0, <2>1
  <2> QED BY <2>1, <2>2 DEF NInv
<1>4. CASE UNCHANGED vars
  <2>1. cache' = cache /\ chain' = chain /\ mode' = mode /\ blk' = blk /\ pos' = pos
    BY <1>4 DEF vars
  <2>2. BlkHeight' = BlkHeight /\ HandledCount' = HandledCount
    BY <2>1 DEF BlkHeight, TipHeight, HandledCount
  <2>3. PlacedBefore => PlacedBefore'
    BY <2>1, <2>2 DEF PlacedBefore
  <2> QED BY <2>1, <2>3 DEF NInv
<1>5. ASSUME NEW tx \in Txs, TakeTx(tx) PROVE NInv'
  <2>1. /\ mode = "connect" /\ mode' = mode /\ cache' = cache /\ chain' = chain
        /\ OutputsDone /\ blk'.txs = Append(blk.txs, tx) /\ pos'.tx = Len(blk.txs) + 1 /\ pos'.out = 1
    BY <1>0, <1>5 DEF TakeTx, TypeOK
  <2>2. HandledCount = Len(blk.txs) /\ Len(blk.txs) \in Nat
    BY <1>0, <2>1, AllHandled
  <2>3. HandledCount' = HandledCount
    BY <2>1, <2>2 DEF HandledCount
  <2>4. BlkHeight' = BlkHeight
    BY <2>1 DEF TipHeight, BlkHeight
  <2>5. \A j \in 1 .. HandledCount : blk'.txs[j] = blk.txs[j]
    BY <1>0, <2>1, <2>2, AppendProperties DEF TypeOK
  <2>6. PlacedBefore'
    BY <2>1, <2>3, <2>4, <2>5 DEF NInv, PlacedBefore
  <2> QED BY <2>1, <2>6 DEF NInv
<1>6. CASE Connect
  <2>1. ASSUME RejectBlock PROVE NInv'
    BY <1>1, <2>1 DEF RejectBlock
  <2> QED BY <1>2, <1>5, <1>6, <2>1, BeginConnectCounts DEF Connect
<1>7. CASE Disconnect
  <2>1. ASSUME BeginDisconnect PROVE NInv'
    BY <1>1, <2>1 DEF BeginDisconnect, Abort
  <2> QED BY <1>3, <1>7, <2>1 DEF Disconnect
<1>8. CASE OutputAction
  <2>1. ConnectsOutput \/ DisconnectsOutput
    BY <1>0, <1>8, Outputs DEF OutputAction, Abort
  <2>2. CASE ConnectsOutput
    <3>1. mode = "connect" /\ BetsCounted(cache) /\ IsFiniteSet(DOMAIN cache.bets)
      BY <2>2 DEF ConnectsOutput, NInv, CInv, BInv, BetsOK
    <3>2. EventsCount(cache.events)
      <4>1. ASSUME NEW e, NEW o PROVE Cardinality(BetsOn(cache, e, o)) \in Nat
        <5>1. BetsOn(cache, e, o) \subseteq DOMAIN cache.bets
          BY DEF BetsOn
        <5> QED BY <3>1, <5>1, FS_Subset, FS_CardinalityType
      <4> QED BY <3>1, <4>1 DEF BetsCounted, EventsCount
    <3>3. Connecting /\ Counting
      BY <1>0, <1>8, <3>1, <3>2, OutputConnecting, OutputCounting
    <3> QED BY <1>0, <2>2, <3>3, ConnectingCounts
  <2>3. CASE DisconnectsOutput
    BY <1>1, <2>3 DEF DisconnectsOutput, MovesTo
  <2> QED BY <2>1, <2>2, <2>3
<1> QED BY <1>4, <1>6, <1>7, <1>8 DEF Next, OutputAction

LEMMA InitNInv == Reversible /\ Uncounted /\ Init => NInv
<1> SUFFICES ASSUME Reversible, Uncounted, Init PROVE NInv
  OBVIOUS
<1>1. Len(chain) = 1 /\ chain[1].after = BaseView /\ mode = "idle"
  BY DEF Init, Connected, NoBlock, Block
<1>2. DOMAIN BaseView.bets = {}
  BY DEF Reversible
<1>3. \A e, o : BetsOn(BaseView, e, o) = {}
  BY <1>2 DEF BetsOn
<1>4. BetsCounted(BaseView)
  BY <1>2, <1>3, FS_EmptySet DEF BetsCounted, Uncounted
<1> QED BY <1>1, <1>4 DEF NInv

(* The counters of an event equal the number of bets in the database, for any
   sequence of bets, odds changes, zeroings and reorganisations
   (CPeerlessExtendedEventDB, UndoEventChanges). *)
THEOREM CountersMatchBetsCorrect ==
    Ordinary /\ Lists /\ Reversible /\ Uncounted => (Spec => []CountersMatchBets)
<1> SUFFICES ASSUME Ordinary, Lists, Reversible, Uncounted PROVE Spec => []CountersMatchBets
  OBVIOUS
<1>1. Init => CInv /\ NInv
  BY InitCInv, InitNInv
<1>2. CInv /\ NInv /\ [Next]_vars => CInv' /\ NInv'
  BY CInvStep, NInvStep
<1>3. CInv /\ NInv => CountersMatchBets
  <2> SUFFICES ASSUME CInv, NInv PROVE CountersMatchBets
    OBVIOUS
  <2>1. TypeOK /\ RInv /\ BInv
    BY DEF CInv, Base, IInv
  <2>2. BetsCounted(view)
    BY <2>1, ViewCounted
  <2> QED BY <2>2 DEF BetsCounted, CountersMatchBets
<1> QED BY <1>1, <1>2, <1>3, PTL DEF Spec

-----------------------------------------------------------------------------
\* The counters of the field events.

\* A leg of a field bet.
IsFieldLeg(leg) == leg = [event |-> leg.event, outcome |-> leg.outcome, contender |-> leg.contender]

\* The leg on contender c in market o of event e.
FieldLeg(e, o, c) == [event |-> e, outcome |-> o, contender |-> c]

\* It is one of these legs.
FieldLegOn(legs, e, o, c) == \E i \in DOMAIN legs : legs[i] = FieldLeg(e, o, c)

\* The transaction places a bet on field events.
IsFieldBet(tx) == HasType(tx, {"fBet", "fParlayBet"}) /\ Saves(tx)

\* The legs of a field bet name an event, a market and a contender.
FieldLegsComplete ==
    \A tx \in Txs : HasType(tx, {"fBet", "fParlayBet"}) => \A i \in DOMAIN First(tx).legs : IsFieldLeg(First(tx).legs[i])

\* The counters of the contenders in v are those of its field bets.
FieldCounted(v) ==
    /\ IsFiniteSet(DOMAIN v.fieldBets)
    /\ \A e \in DOMAIN v.fieldEvents : IsField(v.fieldEvents[e])
         /\ \A c \in DOMAIN v.fieldEvents[e].contenders : \A o \in FieldOutcomes :
              v.fieldEvents[e].contenders[c].bets[o] = Cardinality(FieldBetsOn(v, FieldLeg(e, o, c)))
    /\ \A k \in DOMAIN v.fieldBets : \A i \in DOMAIN v.fieldBets[k].legs :
         /\ v.fieldBets[k].legs[i].event \in DOMAIN v.fieldEvents
         /\ v.fieldBets[k].legs[i].contender \in DOMAIN v.fieldEvents[v.fieldBets[k].legs[i].event].contenders

\* What a step does to the event x, with a bet on these legs or with none.
Recounted(x, y, e, bet, legs) ==
    /\ IsField(y) /\ DOMAIN x.contenders \subseteq DOMAIN y.contenders
    /\ \A c \in DOMAIN y.contenders : \A o \in FieldOutcomes : y.contenders[c].bets[o] =
         Contender(x, c).bets[o] + IF bet /\ FieldLegOn(legs, e, o, c) THEN 1 ELSE 0

\* What a step that connects an output does to the counters of the contenders.
FieldCounting ==
    /\ \A e \in DOMAIN cache.fieldEvents :
         /\ e \in DOMAIN cache'.fieldEvents
         /\ Recounted(cache.fieldEvents[e], cache'.fieldEvents[e], e, IsFieldBet(Tx), First(Tx).legs)
    /\ \A e \in DOMAIN cache'.fieldEvents : e \notin DOMAIN cache.fieldEvents =>
         /\ IsField(cache'.fieldEvents[e])
         /\ \A c \in DOMAIN cache'.fieldEvents[e].contenders : cache'.fieldEvents[e].contenders[c].bets = NoCounts
    /\ IsFieldBet(Tx) =>
         /\ \E b : b.legs = First(Tx).legs /\ cache'.fieldBets = DbWrite(cache.fieldBets, <<BlkHeight, Tx.id, 1>>, b)
         /\ \A i \in DOMAIN First(Tx).legs :
              /\ First(Tx).legs[i].event \in DOMAIN cache.fieldEvents
              /\ First(Tx).legs[i].contender \in DOMAIN cache'.fieldEvents[First(Tx).legs[i].event].contenders
    /\ ~IsFieldBet(Tx) => cache'.fieldBets = cache.fieldBets

\* Counters that are numbers.
CountsOK(x) == IsField(x) /\ \A c \in DOMAIN x.contenders : \A o \in FieldOutcomes : x.contenders[c].bets[o] \in Nat

\* All events.
FieldEventsCount(events) == \A e \in DOMAIN events : CountsOK(events[e])

\* So are those of any contender.
LEMMA ContenderCountsOK ==
    ASSUME NEW x, CountsOK(x), NEW c, NEW o \in FieldOutcomes
    PROVE  Contender(x, c).bets[o] \in Nat
<1>1. IsField(x)
  BY DEF CountsOK
<1>2. CASE c \in DOMAIN x.contenders
  BY <1>1, <1>2, DefaultIsContender DEF CountsOK
<1>3. CASE c \notin DOMAIN x.contenders
  <2>1. Contender(x, c).bets[o] = 0
    BY <1>1, <1>3, DefaultIsContender
  <2> QED BY <2>1
<1> QED BY <1>2, <1>3

\* No bet, and the bets of every contender stay.
LEMMA NotRecounted ==
    ASSUME NEW x, CountsOK(x), NEW y, IsField(y), SameBets(x, y), NEW e, NEW legs, NEW bet,
           ~bet \/ \A i \in DOMAIN legs : legs[i].event # e
    PROVE  Recounted(x, y, e, bet, legs)
<1>1. \A c, o : ~(bet /\ FieldLegOn(legs, e, o, c))
  BY DEF FieldLegOn, FieldLeg
<1>2. ASSUME NEW c \in DOMAIN y.contenders, NEW o \in FieldOutcomes
      PROVE  y.contenders[c].bets[o] = Contender(x, c).bets[o] + IF bet /\ FieldLegOn(legs, e, o, c) THEN 1 ELSE 0
  <2>1. y.contenders[c].bets[o] = Contender(x, c).bets[o] /\ Contender(x, c).bets[o] \in Nat
    BY ContenderCountsOK DEF SameBets
  <2> QED BY <1>1, <2>1
<1> QED BY <1>2 DEF Recounted, SameBets

\* Leaving an event alone.
LEMMA SameBetsSelf == ASSUME NEW x, IsField(x) PROVE SameBets(x, x)
BY DefaultIsContender DEF SameBets

\* A bet on one leg.
LEMMA BetRecounted ==
    ASSUME NEW x, CountsOK(x), NEW leg, IsFieldLeg(leg), NEW legs, DOMAIN legs = {1}, legs[1] = leg, NEW payout,
           NEW y, y = AddFieldLiability(x, leg, payout), NEW z, z = CountFieldBet(y, leg), NEW e, e = leg.event
    PROVE  Recounted(x, z, e, TRUE, legs) /\ leg.contender \in DOMAIN z.contenders
<1>1. IsField(x)
  BY DEF CountsOK
<1>2. /\ IsField(y) /\ DOMAIN y.contenders = DOMAIN x.contenders \cup {leg.contender}
      /\ \A j \in DOMAIN y.contenders : y.contenders[j].bets = Contender(x, j).bets
  BY <1>1, AddLiabilityCounts DEF CountersOnly
<1>3. /\ IsField(z) /\ DOMAIN z.contenders = DOMAIN y.contenders \cup {leg.contender}
      /\ \A j \in DOMAIN z.contenders : \A o \in FieldOutcomes : z.contenders[j].bets[o] =
           IF j = leg.contender /\ o = leg.outcome THEN Contender(y, j).bets[o] + 1 ELSE Contender(y, j).bets[o]
  <2>1. CountersOnly(y, z) /\ DOMAIN z.contenders = DOMAIN y.contenders \cup {leg.contender}
    BY <1>2, CountBetCounts
  <2>2. \A j \in DOMAIN z.contenders : \A o \in FieldOutcomes : z.contenders[j].bets[o] =
          IF j = leg.contender /\ o = leg.outcome THEN Contender(y, j).bets[o] + 1 ELSE Contender(y, j).bets[o]
    BY <1>2, CountBetCounts
  <2> QED BY <2>1, <2>2 DEF CountersOnly
<1>4. \A j \in DOMAIN z.contenders : Contender(y, j).bets = Contender(x, j).bets
  BY <1>2, <1>3, DefaultIsContender
<1>5. ASSUME NEW c, NEW o PROVE FieldLegOn(legs, e, o, c) <=> c = leg.contender /\ o = leg.outcome
  BY DEF FieldLegOn, FieldLeg, IsFieldLeg
<1>6. ASSUME NEW c \in DOMAIN z.contenders, NEW o \in FieldOutcomes
      PROVE  z.contenders[c].bets[o] = Contender(x, c).bets[o] + IF TRUE /\ FieldLegOn(legs, e, o, c) THEN 1 ELSE 0
  <2>1. Contender(x, c).bets[o] \in Nat
    BY ContenderCountsOK
  <2> QED BY <1>3, <1>4, <1>5, <2>1
<1> QED BY <1>2, <1>3, <1>6 DEF Recounted

\* A parlay, with at most one leg on the event.
LEMMA LegsRecounted ==
    ASSUME NEW e, CountsOK(cache.fieldEvents[e]), NEW legs, NEW n \in Nat, DOMAIN legs = 1 .. n,
           \A i \in DOMAIN legs : IsFieldLeg(legs[i]),
           \A i, j \in DOMAIN legs : i # j => legs[i].event # legs[j].event,
           NEW y, y = WithFieldLegs(e, legs, n)
    PROVE  /\ Recounted(cache.fieldEvents[e], y, e, TRUE, legs)
           /\ \A i \in DOMAIN legs : legs[i].event = e => legs[i].contender \in DOMAIN y.contenders
<1>1. PICK x : x = cache.fieldEvents[e]
  OBVIOUS
<1>2. PICK on : on = {i \in 1 .. n : legs[i].event = e}
  OBVIOUS
<1>3. IsField(x) /\ CountsOK(x)
  BY <1>1 DEF CountsOK
<1>4. /\ CountersOnly(x, y)
      /\ on = {} => y = x
      /\ on # {} =>
           /\ DOMAIN y.contenders = DOMAIN x.contenders \cup {legs[i].contender : i \in on}
           /\ \A i \in on : \A o \in FieldOutcomes : y.contenders[legs[i].contender].bets[o] =
                Contender(x, legs[i].contender).bets[o]
                  + Cardinality({j \in on : legs[j].contender = legs[i].contender /\ legs[j].outcome = o})
           /\ \A j \in DOMAIN x.contenders :
                (\A i \in on : legs[i].contender # j) => y.contenders[j] = x.contenders[j]
  BY <1>1, <1>2, <1>3, FieldLegsCount
<1>5. CASE on = {}
  <2>1. \A i \in DOMAIN legs : legs[i].event # e
    BY <1>2, <1>5
  <2>2. y = x /\ SameBets(x, y)
    BY <1>3, <1>4, <1>5, SameBetsSelf
  <2>3. Recounted(x, y, e, TRUE, legs)
    BY <1>3, <2>1, <2>2, NotRecounted
  <2> QED BY <1>1, <2>1, <2>3
<1>6. CASE on # {}
  <2>1. PICK i : i \in on
    BY <1>6
  <2>2. on = {i} /\ i \in DOMAIN legs /\ legs[i].event = e
    BY <1>2, <2>1
  <2>3. PICK leg, id : leg = legs[i] /\ id = leg.contender
    OBVIOUS
  <2>4. IsField(y) /\ DOMAIN y.contenders = DOMAIN x.contenders \cup {id}
    BY <1>4, <1>6, <2>2, <2>3 DEF CountersOnly
  <2>5. ASSUME NEW c, NEW o PROVE FieldLegOn(legs, e, o, c) <=> c = id /\ o = leg.outcome
    <3>1. IsFieldLeg(leg) /\ leg.event = e
      BY <2>2, <2>3
    <3>2. ASSUME FieldLegOn(legs, e, o, c) PROVE c = id /\ o = leg.outcome
      <4>1. PICK j \in DOMAIN legs : legs[j] = FieldLeg(e, o, c)
        BY <3>2 DEF FieldLegOn
      <4>2. j = i
        BY <2>2, <4>1 DEF FieldLeg
      <4> QED BY <2>3, <4>1, <4>2 DEF FieldLeg
    <3>3. ASSUME c = id, o = leg.outcome PROVE FieldLegOn(legs, e, o, c)
      BY <2>2, <2>3, <3>1, <3>3 DEF FieldLegOn, FieldLeg, IsFieldLeg
    <3> QED BY <3>2, <3>3
  <2>6. ASSUME NEW o \in FieldOutcomes
        PROVE  y.contenders[id].bets[o] = Contender(x, id).bets[o] + IF o = leg.outcome THEN 1 ELSE 0
    <3>1. PICK T : T = {j \in on : legs[j].contender = legs[i].contender /\ legs[j].outcome = o}
      OBVIOUS
    <3>2. y.contenders[id].bets[o] = Contender(x, id).bets[o] + Cardinality(T)
      BY <1>4, <1>6, <2>1, <2>3, <3>1
    <3>3. T = IF o = leg.outcome THEN {i} ELSE {}
      BY <2>2, <2>3, <3>1
    <3>4. Cardinality(T) = IF o = leg.outcome THEN 1 ELSE 0
      BY <3>3, FS_Singleton, FS_EmptySet
    <3> QED BY <3>2, <3>4
  <2>7. ASSUME NEW c \in DOMAIN y.contenders, NEW o \in FieldOutcomes
        PROVE  y.contenders[c].bets[o] = Contender(x, c).bets[o] + IF TRUE /\ FieldLegOn(legs, e, o, c) THEN 1 ELSE 0
    <3>1. CASE c = id
      BY <2>5, <2>6, <3>1
    <3>2. CASE c # id
      <4>1. c \in DOMAIN x.contenders
        BY <2>4, <3>2
      <4>2. y.contenders[c] = x.contenders[c]
        BY <1>4, <1>6, <2>2, <2>3, <3>2, <4>1
      <4>3. Contender(x, c) = x.contenders[c] /\ Contender(x, c).bets[o] \in Nat
        BY <1>3, <4>1, ContenderCountsOK, DefaultIsContender
      <4> QED BY <2>5, <3>2, <4>2, <4>3
    <3> QED BY <3>1, <3>2
  <2>8. Recounted(x, y, e, TRUE, legs)
    BY <2>4, <2>7 DEF Recounted
  <2>9. \A j \in DOMAIN legs : legs[j].event = e => legs[j].contender \in DOMAIN y.contenders
    BY <2>2, <2>3, <2>4
  <2> QED BY <1>1, <2>8, <2>9
<1> QED BY <1>5, <1>6

\* An output that leaves the field events and bets alone.
LEMMA PlainFieldCounting ==
    ASSUME FieldEventsCount(cache.fieldEvents), ~IsFieldBet(Tx),
           cache'.fieldEvents = cache.fieldEvents, cache'.fieldBets = cache.fieldBets
    PROVE  FieldCounting
<1>1. PICK bet, legs : bet = IsFieldBet(Tx) /\ legs = First(Tx).legs
  OBVIOUS
<1>2. ASSUME NEW e \in DOMAIN cache.fieldEvents
      PROVE  Recounted(cache.fieldEvents[e], cache.fieldEvents[e], e, bet, legs)
  <2>1. PICK x : x = cache.fieldEvents[e]
    OBVIOUS
  <2>2. CountsOK(x) /\ IsField(x) /\ SameBets(x, x)
    BY <2>1, SameBetsSelf DEF FieldEventsCount, CountsOK
  <2> QED BY <1>1, <2>1, <2>2, NotRecounted
<1> QED BY <1>1, <1>2 DEF FieldCounting

\* A bet on a field event.
LEMMA FBetCounting ==
    ASSUME Ordinary, FieldLegsComplete, TypeOK, UInv, AllDbs(cache), FieldEventsCount(cache.fieldEvents), ProcessFBet
    PROVE  FieldCounting
<1>1. Processing("fBet")
  BY DEF ProcessFBet
<1>2. /\ First(Tx).type = "fBet" /\ Tx \in Txs
      /\ \A e : NamesFieldEvent(Tx, e) => e \in DOMAIN cache.fieldEvents
  BY <1>1, AtConnecting
<1>3. PICK legs : legs = First(Tx).legs
  OBVIOUS
<1>4. PICK leg : leg = legs[1]
  OBVIOUS
<1>5. PICK e : e = leg.event
  OBVIOUS
<1>6. DOMAIN legs = {1} /\ IsFieldLeg(leg) /\ IsFieldBet(Tx)
  BY <1>2, <1>3, <1>4 DEF IsFieldBet, Saves, HasType, RecordTypes, Ordinary, FieldLegsComplete
<1>7. e \in DOMAIN cache.fieldEvents
  <2>1. NamesFieldEvent(Tx, e)
    BY <1>2, <1>3, <1>4, <1>5, <1>6 DEF NamesFieldEvent, OnLegs, HasType
  <2> QED BY <1>2, <2>1
<1>8. PICK z : z = FBetEvent
  OBVIOUS
<1>9. cache'.fieldEvents = DbUpdate(cache.fieldEvents, e, z)
  BY <1>3, <1>4, <1>5, <1>8, FBetTrace
<1>10. PICK b : b.legs = legs /\ cache'.fieldBets = DbWrite(cache.fieldBets, <<BlkHeight, Tx.id, 1>>, b)
  <2>1. PICK b : /\ b = NewBet(First(Tx).amount, First(Tx).legs, <<FBetLocked>>)
                 /\ cache'.fieldBets = DbWrite(cache.fieldBets, <<BlkHeight, Tx.id, 1>>, b)
    BY FBetTrace
  <2>2. b.legs = legs
    BY <1>3, <2>1 DEF NewBet
  <2> QED BY <2>1, <2>2
<1>11. PICK x : x = cache.fieldEvents[e]
  OBVIOUS
<1>12. PICK w : z = CountFieldBet(AddFieldLiability(x, leg, w), leg)
  BY <1>3, <1>4, <1>5, <1>8, <1>11, Zenon DEF FBetEvent
<1>13. PICK y : y = AddFieldLiability(x, leg, w)
  OBVIOUS
<1>14. CountsOK(x)
  BY <1>7, <1>11 DEF FieldEventsCount
<1>15. Recounted(x, z, e, TRUE, legs) /\ leg.contender \in DOMAIN z.contenders
  BY <1>4, <1>5, <1>6, <1>12, <1>13, <1>14, BetRecounted
<1>16. /\ DOMAIN cache'.fieldEvents = DOMAIN cache.fieldEvents /\ cache'.fieldEvents[e] = z
       /\ \A d \in DOMAIN cache.fieldEvents : d # e => cache'.fieldEvents[d] = cache.fieldEvents[d]
  BY <1>7, <1>9 DEF DbUpdate, Put
<1>17. ASSUME NEW d \in DOMAIN cache.fieldEvents
       PROVE  Recounted(cache.fieldEvents[d], cache'.fieldEvents[d], d, TRUE, legs)
  <2>1. CASE d = e
    BY <1>11, <1>15, <1>16, <2>1
  <2>2. CASE d # e
    <3>1. PICK v : v = cache.fieldEvents[d]
      OBVIOUS
    <3>2. CountsOK(v) /\ IsField(v) /\ SameBets(v, v) /\ cache'.fieldEvents[d] = v
      BY <1>16, <2>2, <3>1, SameBetsSelf DEF FieldEventsCount, CountsOK
    <3>3. \A i \in DOMAIN legs : legs[i].event # d
      BY <1>4, <1>5, <1>6, <2>2
    <3> QED BY <3>1, <3>2, <3>3, NotRecounted
  <2> QED BY <2>1, <2>2
<1>18. \A i \in DOMAIN legs : /\ legs[i].event \in DOMAIN cache.fieldEvents
                              /\ legs[i].contender \in DOMAIN cache'.fieldEvents[legs[i].event].contenders
  BY <1>4, <1>5, <1>6, <1>7, <1>15, <1>16
<1>19. IsFieldBet(Tx) = TRUE
  BY <1>6 DEF IsFieldBet, HasType, Saves
<1>20. ASSUME NEW d \in DOMAIN cache.fieldEvents
       PROVE  Recounted(cache.fieldEvents[d], cache'.fieldEvents[d], d, IsFieldBet(Tx), First(Tx).legs)
  BY <1>3, <1>17, <1>19
<1> QED BY <1>3, <1>6, <1>10, <1>16, <1>18, <1>20 DEF FieldCounting

\* A parlay on field events.
LEMMA FParlayCounting ==
    ASSUME Ordinary, Lists, FieldLegsComplete, TypeOK, UInv, AllDbs(cache), FieldEventsCount(cache.fieldEvents),
           ProcessFParlayBet, First(Tx).legs # <<>>
    PROVE  FieldCounting
<1>1. Processing("fParlayBet")
  BY DEF ProcessFParlayBet
<1>2. /\ First(Tx).type = "fParlayBet" /\ Tx \in Txs /\ CheckBettingTx(Tx)
      /\ \A e : NamesFieldEvent(Tx, e) => e \in DOMAIN cache.fieldEvents
  BY <1>1, AtConnecting
<1>3. PICK legs, n : legs = First(Tx).legs /\ n = Len(legs)
  OBVIOUS
<1>4. n \in Nat /\ DOMAIN legs = 1 .. n /\ \A i, j \in DOMAIN legs : i # j => legs[i].event # legs[j].event
  <2>1. CheckFParlayBet(First(Tx)) /\ IsSeq(legs)
    BY <1>2, <1>3, CheckedOutput DEF Lists, HasType
  <2> QED BY <1>3, <2>1, LenProperties DEF CheckFParlayBet, IsSeq
<1>5. IsFieldBet(Tx) /\ \A i \in DOMAIN legs : IsFieldLeg(legs[i])
  BY <1>2, <1>3 DEF IsFieldBet, Saves, HasType, RecordTypes, FieldLegsComplete
<1>6. \A i \in DOMAIN legs : legs[i].event \in DOMAIN cache.fieldEvents
  <2>1. \A i \in DOMAIN legs : NamesFieldEvent(Tx, legs[i].event)
    BY <1>2, <1>3 DEF NamesFieldEvent, OnLegs, HasType
  <2> QED BY <1>2, <2>1
<1>7. cache'.fieldEvents = [e \in DOMAIN cache.fieldEvents |-> WithFieldLegs(e, legs, n)]
  BY <1>3, FParlayTrace
<1>8. PICK b : b.legs = legs /\ cache'.fieldBets = DbWrite(cache.fieldBets, <<BlkHeight, Tx.id, 1>>, b)
  <2>1. PICK b : /\ b = NewBet(First(Tx).amount, legs, [i \in DOMAIN legs |-> view.fieldEvents[legs[i].event]])
                 /\ cache'.fieldBets = DbWrite(cache.fieldBets, <<BlkHeight, Tx.id, 1>>, b)
    BY <1>3, FParlayTrace
  <2>2. b.legs = legs
    BY <2>1 DEF NewBet
  <2> QED BY <2>1, <2>2
<1>9. ASSUME NEW e \in DOMAIN cache.fieldEvents
      PROVE  /\ Recounted(cache.fieldEvents[e], cache'.fieldEvents[e], e, TRUE, legs)
             /\ \A i \in DOMAIN legs : legs[i].event = e => legs[i].contender \in DOMAIN cache'.fieldEvents[e].contenders
  <2>1. PICK y : y = WithFieldLegs(e, legs, n)
    OBVIOUS
  <2>2. cache'.fieldEvents[e] = y /\ CountsOK(cache.fieldEvents[e])
    BY <1>7, <2>1 DEF FieldEventsCount
  <2>3. /\ Recounted(cache.fieldEvents[e], y, e, TRUE, legs)
        /\ \A i \in DOMAIN legs : legs[i].event = e => legs[i].contender \in DOMAIN y.contenders
    BY <1>4, <1>5, <2>1, <2>2, LegsRecounted
  <2> QED BY <2>2, <2>3
<1>10. DOMAIN cache'.fieldEvents = DOMAIN cache.fieldEvents
  BY <1>7
<1>11. IsFieldBet(Tx) = TRUE
  BY <1>5 DEF IsFieldBet, HasType, Saves
<1>12. ASSUME NEW d \in DOMAIN cache.fieldEvents
       PROVE  Recounted(cache.fieldEvents[d], cache'.fieldEvents[d], d, IsFieldBet(Tx), First(Tx).legs)
  BY <1>3, <1>9, <1>11
<1> QED BY <1>3, <1>5, <1>6, <1>8, <1>9, <1>10, <1>12 DEF FieldCounting

\* New odds, modifiers or margin of a field event, and zeroing it.
LEMMA FUpdateCounting ==
    ASSUME Ordinary, TypeOK, UInv, AllDbs(cache), FieldEventsCount(cache.fieldEvents),
           NEW type \in FieldUpdates, ProcessFUpdate(type)
    PROVE  FieldCounting
<1>1. PICK out, e : out = First(Tx) /\ e = out.event
  OBVIOUS
<1>2. /\ out.type \in FieldUpdates /\ e \in DOMAIN cache.fieldEvents
      /\ cache'.fieldEvents = [cache.fieldEvents EXCEPT ![e] = UpdatedField(@, out)]
  BY <1>1, FUpdateTrace DEF HasType
<1>3. cache'.fieldBets = cache.fieldBets
  <2>1. Came("fieldEvents") /\ "fieldBets" \in Dbs
    BY FUpdateTrace DEF Dbs, BetDbs
  <2> QED BY <2>1 DEF Came
<1>4. ~IsFieldBet(Tx)
  BY <1>1, <1>2 DEF IsFieldBet, HasType, FieldUpdates
<1>5. PICK bet, legs : bet = IsFieldBet(Tx) /\ legs = First(Tx).legs
  OBVIOUS
<1>6. /\ DOMAIN cache'.fieldEvents = DOMAIN cache.fieldEvents
      /\ cache'.fieldEvents[e] = UpdatedField(cache.fieldEvents[e], out)
      /\ \A d \in DOMAIN cache.fieldEvents : d # e => cache'.fieldEvents[d] = cache.fieldEvents[d]
  BY <1>2
<1>7. ASSUME NEW d \in DOMAIN cache.fieldEvents
      PROVE  Recounted(cache.fieldEvents[d], cache'.fieldEvents[d], d, bet, legs)
  <2>1. PICK x, y : x = cache.fieldEvents[d] /\ y = cache'.fieldEvents[d]
    OBVIOUS
  <2>2. CountsOK(x) /\ IsField(x)
    BY <2>1 DEF FieldEventsCount, CountsOK
  <2>3. IsField(y) /\ SameBets(x, y)
    <3>1. CASE d = e
      BY <1>2, <1>6, <2>1, <2>2, <3>1, UpdatedBets
    <3>2. CASE d # e
      BY <1>6, <2>1, <2>2, <3>2, SameBetsSelf
    <3> QED BY <3>1, <3>2
  <2> QED BY <1>4, <1>5, <2>1, <2>2, <2>3, NotRecounted
<1> QED BY <1>3, <1>4, <1>5, <1>6, <1>7 DEF FieldCounting

\* A new field event.
LEMMA FEventCounting ==
    ASSUME Ordinary, TypeOK, UInv, AllDbs(cache), FieldEventsCount(cache.fieldEvents), ProcessFEvent
    PROVE  FieldCounting
<1>1. Processing("fEvent")
  BY DEF ProcessFEvent
<1>2. First(Tx).type = "fEvent" /\ IsView(cache)
  BY <1>1, AtConnecting
<1>3. ~IsFieldBet(Tx)
  BY <1>2 DEF IsFieldBet, HasType
<1>4. CASE cache' = cache
  BY <1>3, <1>4, PlainFieldCounting
<1>5. CASE cache' # cache
  <2>1. PICK x, e : x = NewField(Out) /\ e = Out.event
    OBVIOUS
  <2>2. PICK db : db = DbWrite(cache.fieldEvents, e, x)
    OBVIOUS
  <2>3. cache' = [cache EXCEPT !.fieldEvents = db]
    BY <1>5, <2>1, <2>2, Zenon DEF ProcessFEvent, Advance, NewField, NewInputs, NewContenders
  <2>4. cache'.fieldEvents = db /\ cache'.fieldBets = cache.fieldBets
    BY <1>2, <2>3 DEF IsView, Databases
  <2>5. CASE e \in DOMAIN cache.fieldEvents
    BY <1>3, <2>2, <2>4, <2>5, PlainFieldCounting DEF DbWrite
  <2>6. CASE e \notin DOMAIN cache.fieldEvents
    <3>1. /\ DOMAIN cache'.fieldEvents = DOMAIN cache.fieldEvents \cup {e} /\ cache'.fieldEvents[e] = x
          /\ \A d \in DOMAIN cache.fieldEvents : cache'.fieldEvents[d] = cache.fieldEvents[d]
      BY <2>2, <2>4, <2>6 DEF DbWrite, Put
    <3>2. IsField(x) /\ \A c \in DOMAIN x.contenders : x.contenders[c].bets = NoCounts
      BY <2>1, NewFieldIs
    <3>3. PICK bet, legs : bet = IsFieldBet(Tx) /\ legs = First(Tx).legs
      OBVIOUS
    <3>4. ASSUME NEW d \in DOMAIN cache.fieldEvents
          PROVE  Recounted(cache.fieldEvents[d], cache'.fieldEvents[d], d, bet, legs)
      <4>1. PICK v : v = cache.fieldEvents[d]
        OBVIOUS
      <4>2. CountsOK(v) /\ IsField(v) /\ SameBets(v, v) /\ cache'.fieldEvents[d] = v
        BY <3>1, <4>1, SameBetsSelf DEF FieldEventsCount, CountsOK
      <4> QED BY <1>3, <3>3, <4>1, <4>2, NotRecounted
    <3> QED BY <1>3, <2>4, <3>1, <3>2, <3>3, <3>4 DEF FieldCounting
  <2> QED BY <2>5, <2>6
<1> QED BY <1>4, <1>5

\* Outputs about peerless events leave the field events.
LEMMA PeerlessFieldCounting ==
    ASSUME Ordinary, Lists, TypeOK, UInv, AllDbs(cache), FieldEventsCount(cache.fieldEvents), mode = "connect", PeerlessStep
    PROVE  FieldCounting
<1>0. {"fieldEvents", "fieldBets"} \subseteq Dbs
  BY DEF Dbs, BetDbs
<1>n. ASSUME NEW type, Undoing(type) PROVE FALSE
  BY <1>n DEF Undoing, Handles
<1>4. ASSUME NEW type, Processing(type), type \notin {"fBet", "fParlayBet"} PROVE ~IsFieldBet(Tx)
  <2>1. First(Tx).type = type /\ AtOutput
    BY <1>4, AtConnecting
  <2> QED BY <1>4, <2>1 DEF IsFieldBet, HasType
<1>c. ASSUME NEW d \in {"mappings", "events", "results"}, Came(d), ~IsFieldBet(Tx) PROVE FieldCounting
  <2>1. cache'.fieldEvents = cache.fieldEvents /\ cache'.fieldBets = cache.fieldBets
    BY <1>0, <1>c DEF Came
  <2> QED BY <1>c, <2>1, PlainFieldCounting
<1>1. CASE ProcessPlBet
  <2>1. Processing("plBet") /\ cache'.fieldEvents = cache.fieldEvents /\ cache'.fieldBets = cache.fieldBets
    BY <1>0, <1>1, PlBetTrace DEF ProcessPlBet
  <2> QED BY <1>4, <2>1, PlainFieldCounting
<1>2. CASE ProcessPlParlayBet /\ First(Tx).legs # <<>>
  <2>1. Processing("plParlayBet") /\ cache'.fieldEvents = cache.fieldEvents /\ cache'.fieldBets = cache.fieldBets
    BY <1>0, <1>2, PlParlayTrace DEF ProcessPlParlayBet
  <2> QED BY <1>4, <2>1, PlainFieldCounting
<1>3. CASE ProcessPlParlayBet /\ First(Tx).legs = <<>>
  <2>1. Processing("plParlayBet") /\ cache' = cache
    BY <1>3, EmptyParlayTrace DEF ProcessPlParlayBet
  <2> QED BY <1>4, <2>1, PlainFieldCounting
<1>5. CASE ProcessMapping
  <2>1. Processing("mapping")
    BY <1>5 DEF ProcessMapping
  <2> QED BY <1>4, <1>5, <1>c, <2>1, MappingTrace
<1>6. CASE ProcessPlEvent
  <2>1. Processing("plEvent")
    BY <1>6 DEF ProcessPlEvent
  <2> QED BY <1>4, <1>6, <1>c, <2>1, PlEventTrace
<1>7. CASE ProcessPlResult
  <2>1. Processing("plResult")
    BY <1>7 DEF ProcessPlResult
  <2> QED BY <1>4, <1>7, <1>c, <2>1, PlResultTrace
<1>8. CASE ProcessPlZeroing
  <2>1. Processing("plZeroing")
    BY <1>8 DEF ProcessPlZeroing
  <2>2. cache'.fieldEvents = cache.fieldEvents /\ cache'.fieldBets = cache.fieldBets
    BY <1>0, <1>8, PlZeroingTrace DEF Came
  <2> QED BY <1>4, <2>1, <2>2, PlainFieldCounting
<1>9. ASSUME NEW type \in PlUpdates, ProcessPlUpdate(type) PROVE FieldCounting
  <2>1. Processing(type) /\ type \notin {"fBet", "fParlayBet"}
    BY <1>9 DEF ProcessPlUpdate, PlUpdates
  <2>2. Came("events")
    BY <1>9, PlUpdateTrace
  <2> QED BY <1>4, <1>c, <2>1, <2>2
<1> QED BY <1>n, <1>1, <1>2, <1>3, <1>5, <1>6, <1>7, <1>8, <1>9
        DEF PeerlessStep, UndoPeerlessBet, UndoMapping, UndoPlEvent, UndoPlResult, UndoPlZeroing, UndoPlUpdate

\* Every step of ConnectBlock that handles an output.
LEMMA OutputFieldCounting ==
    ASSUME Ordinary, Lists, FieldLegsComplete, NoGames, TypeOK, UInv, AllDbs(cache),
           FieldEventsCount(cache.fieldEvents), mode = "connect", OutputAction
    PROVE  FieldCounting
<1>n. ASSUME NEW type, Undoing(type) PROVE FALSE
  BY <1>n DEF Undoing, Handles
<1>1. ASSUME ProcessFParlayBet, First(Tx).legs = <<>> PROVE FieldCounting
  <2>1. First(Tx).type = "fParlayBet" /\ cache' = cache
    BY <1>1, EmptyParlayTrace, AtConnecting DEF ProcessFParlayBet
  <2>2. ~IsFieldBet(Tx)
    BY <1>1, <2>1 DEF IsFieldBet, Saves, HasType
  <2> QED BY <2>1, <2>2, PlainFieldCounting
<1>2. ASSUME FieldStep PROVE FieldCounting
  BY <1>n, <1>1, <1>2, FBetCounting, FParlayCounting, FUpdateCounting, FEventCounting, NoGamesStep
     DEF FieldStep, UndoFieldBet, UndoFEvent, UndoFResult, UndoFUpdate
<1> QED BY <1>2, NothingSkipped, NoGamesStep, PeerlessFieldCounting DEF OutputAction

\* No field bet was placed before the chain begins.
FieldUncounted ==
    /\ DOMAIN BaseView.fieldBets = {}
    /\ \A e \in DOMAIN BaseView.fieldEvents : IsField(BaseView.fieldEvents[e])
         /\ \A c \in DOMAIN BaseView.fieldEvents[e].contenders : BaseView.fieldEvents[e].contenders[c].bets = NoCounts

\* The field bets of a block are those of the transactions it has handled.
FieldPlacedBefore ==
    \A k \in DOMAIN cache.fieldBets : k[1] = BlkHeight => \E j \in 1 .. HandledCount : k[2] = blk.txs[j].id

(* The counters of the contenders match the field bets after every block of the
   chain and, in a block that is being connected, after every transaction. *)
FNInv ==
    /\ \A i \in 1 .. Len(chain) : FieldCounted(chain[i].after)
    /\ mode = "connect" => FieldCounted(cache) /\ FieldPlacedBefore

\* The counters are about the field events and the field bets.
LEMMA FieldCountedSame ==
    ASSUME NEW v, NEW w, FieldCounted(w), v.fieldEvents = w.fieldEvents, v.fieldBets = w.fieldBets
    PROVE  FieldCounted(v)
<1>1. \A leg : FieldBetsOn(v, leg) = FieldBetsOn(w, leg)
  BY DEF FieldBetsOn
<1> QED BY <1>1 DEF FieldCounted

\* They match in bettingsView.
LEMMA ViewFieldCounted ==
    ASSUME TypeOK, RInv, FNInv
    PROVE  FieldCounted(view)
<1>1. Len(chain) \in 1 .. Len(chain)
  BY ChainSeq
<1>2. PICK w : w = chain[Len(chain)].after
  OBVIOUS
<1>3. FieldCounted(w) /\ view.fieldEvents = w.fieldEvents /\ view.fieldBets = w.fieldBets
  BY <1>1, <1>2 DEF FNInv, RInv, ODbs, Dbs, BetDbs
<1> QED BY <1>3, FieldCountedSame

\* The bet of the transaction at hand is new.
LEMMA FieldBetIsNew ==
    ASSUME Ordinary, TypeOK, UInv, FNInv, mode = "connect", AtOutput
    PROVE  <<BlkHeight, Tx.id, 1>> \notin DOMAIN cache.fieldBets
<1>1. /\ pos.tx \in 1 .. Len(blk.txs) /\ pos.out = 1 /\ Tx = blk.txs[pos.tx] /\ Tx \in Txs
      /\ \A j \in 1 .. Len(blk.txs) : blk.txs[j] \in Txs
      /\ Len(blk.txs) \in Nat /\ DOMAIN blk.txs = 1 .. Len(blk.txs)
  BY AtTx
<1>2. HandledCount = pos.tx - 1
  BY <1>1 DEF HandledCount
<1>3. ASSUME NEW j \in 1 .. pos.tx - 1 PROVE blk.txs[j].id # Tx.id
  <2>1. j \in DOMAIN blk.txs /\ pos.tx \in DOMAIN blk.txs /\ j # pos.tx
    BY <1>1
  <2>2. blk.txs[j] # Tx
    BY <1>1, <2>1 DEF UInv, Once
  <2> QED BY <1>1, <2>1, <2>2 DEF Ordinary
<1> SUFFICES ASSUME <<BlkHeight, Tx.id, 1>> \in DOMAIN cache.fieldBets PROVE FALSE
  OBVIOUS
<1>4. \E j \in 1 .. HandledCount : Tx.id = blk.txs[j].id
  BY DEF FNInv, FieldPlacedBefore
<1> QED BY <1>2, <1>3, <1>4

\* The databases after an output, as their counters and bets are.
LEMMA FieldCountedNext ==
    ASSUME NEW v, NEW w, FieldCounted(v), NEW K, K \notin DOMAIN v.fieldBets, NEW bet \in BOOLEAN, NEW legs, NEW b,
           b.legs = legs, w.fieldBets = IF bet THEN Put(v.fieldBets, K, b) ELSE v.fieldBets,
           \A e \in DOMAIN v.fieldEvents :
               e \in DOMAIN w.fieldEvents /\ Recounted(v.fieldEvents[e], w.fieldEvents[e], e, bet, legs),
           \A e \in DOMAIN w.fieldEvents : e \notin DOMAIN v.fieldEvents =>
               /\ IsField(w.fieldEvents[e])
               /\ \A c \in DOMAIN w.fieldEvents[e].contenders : w.fieldEvents[e].contenders[c].bets = NoCounts,
           bet => \A i \in DOMAIN legs : /\ legs[i].event \in DOMAIN v.fieldEvents
                                         /\ legs[i].contender \in DOMAIN w.fieldEvents[legs[i].event].contenders
    PROVE  FieldCounted(w)
<1>1. /\ DOMAIN w.fieldBets = IF bet THEN DOMAIN v.fieldBets \cup {K} ELSE DOMAIN v.fieldBets
      /\ \A k \in DOMAIN v.fieldBets : w.fieldBets[k] = v.fieldBets[k]
      /\ bet => w.fieldBets[K] = b
  BY DEF Put
<1>2. IsFiniteSet(DOMAIN v.fieldBets)
  BY DEF FieldCounted
<1>3. IsFiniteSet(DOMAIN w.fieldBets)
  BY <1>1, <1>2, FS_AddElement
<1>4. ASSUME NEW k \in DOMAIN w.fieldBets, NEW i \in DOMAIN w.fieldBets[k].legs, NEW leg, leg = w.fieldBets[k].legs[i]
      PROVE  leg.event \in DOMAIN v.fieldEvents /\ leg.contender \in DOMAIN w.fieldEvents[leg.event].contenders
  <2>1. CASE k \in DOMAIN v.fieldBets
    <3>1. leg.event \in DOMAIN v.fieldEvents /\ leg.contender \in DOMAIN v.fieldEvents[leg.event].contenders
      BY <1>1, <1>4, <2>1 DEF FieldCounted
    <3> QED BY <3>1 DEF Recounted
  <2>2. CASE k \notin DOMAIN v.fieldBets
    BY <1>1, <1>4, <2>2
  <2> QED BY <2>1, <2>2
<1>5. ASSUME NEW e \in DOMAIN w.fieldEvents, NEW c \in DOMAIN w.fieldEvents[e].contenders, NEW o \in FieldOutcomes
      PROVE  w.fieldEvents[e].contenders[c].bets[o] = Cardinality(FieldBetsOn(w, FieldLeg(e, o, c)))
  <2>0. PICK leg : leg = FieldLeg(e, o, c)
    OBVIOUS
  <2>l. leg.event = e /\ leg.contender = c
    BY <2>0 DEF FieldLeg
  <2>f. IsFiniteSet(FieldBetsOn(v, leg)) /\ Cardinality(FieldBetsOn(v, leg)) \in Nat
    <3>1. FieldBetsOn(v, leg) \subseteq DOMAIN v.fieldBets
      BY DEF FieldBetsOn
    <3> QED BY <1>2, <3>1, FS_Subset, FS_CardinalityType
  <2>1. CASE e \notin DOMAIN v.fieldEvents
    <3>1. FieldBetsOn(w, leg) = {}
      BY <1>4, <2>l, <2>1 DEF FieldBetsOn
    <3>2. w.fieldEvents[e].contenders[c].bets[o] = 0
      BY <2>1 DEF NoCounts
    <3> QED BY <2>0, <3>1, <3>2, FS_EmptySet
  <2>2. CASE e \in DOMAIN v.fieldEvents
    <3>1. PICK x, y : x = v.fieldEvents[e] /\ y = w.fieldEvents[e]
      OBVIOUS
    <3>2. IsField(x) /\ Recounted(x, y, e, bet, legs)
      BY <2>2, <3>1 DEF FieldCounted
    <3>3. Contender(x, c).bets[o] = Cardinality(FieldBetsOn(v, leg))
      <4>1. CASE c \in DOMAIN x.contenders
        <5>1. Contender(x, c) = x.contenders[c]
          BY <3>2, <4>1, DefaultIsContender
        <5> QED BY <2>0, <2>2, <3>1, <4>1, <5>1 DEF FieldCounted
      <4>2. CASE c \notin DOMAIN x.contenders
        <5>1. Contender(x, c).bets[o] = 0
          BY <3>2, <4>2, DefaultIsContender
        <5>2. FieldBetsOn(v, leg) = {}
          BY <2>l, <2>2, <3>1, <4>2 DEF FieldBetsOn, FieldCounted
        <5> QED BY <5>1, <5>2, FS_EmptySet
      <4> QED BY <4>1, <4>2
    <3>4. y.contenders[c].bets[o] = Contender(x, c).bets[o] + IF bet /\ FieldLegOn(legs, e, o, c) THEN 1 ELSE 0
      BY <1>5, <3>1, <3>2 DEF Recounted
    <3>5. CASE bet /\ FieldLegOn(legs, e, o, c)
      <4>1. FieldBetsOn(w, leg) = FieldBetsOn(v, leg) \cup {K} /\ K \notin FieldBetsOn(v, leg)
        BY <1>1, <2>0, <3>5 DEF FieldBetsOn, FieldLegOn
      <4>2. Cardinality(FieldBetsOn(w, leg)) = Cardinality(FieldBetsOn(v, leg)) + 1
        BY <2>f, <4>1, FS_AddElement
      <4> QED BY <2>0, <3>1, <3>3, <3>4, <3>5, <4>2
    <3>6. CASE ~(bet /\ FieldLegOn(legs, e, o, c))
      <4>1. FieldBetsOn(w, leg) = FieldBetsOn(v, leg)
        BY <1>1, <2>0, <3>6 DEF FieldBetsOn, FieldLegOn
      <4> QED BY <2>0, <2>f, <3>1, <3>3, <3>4, <3>6, <4>1
    <3> QED BY <3>5, <3>6
  <2> QED BY <2>1, <2>2
<1>6. ASSUME NEW e \in DOMAIN w.fieldEvents PROVE IsField(w.fieldEvents[e])
  BY DEF Recounted
<1>7. ASSUME NEW k \in DOMAIN w.fieldBets, NEW i \in DOMAIN w.fieldBets[k].legs
      PROVE  /\ w.fieldBets[k].legs[i].event \in DOMAIN w.fieldEvents
             /\ w.fieldBets[k].legs[i].contender \in DOMAIN w.fieldEvents[w.fieldBets[k].legs[i].event].contenders
  BY <1>4
<1> QED BY <1>3, <1>5, <1>6, <1>7 DEF FieldCounted

\* Connecting an output.
LEMMA ConnectingFieldCounts ==
    ASSUME Ordinary, TypeOK, UInv, FNInv, ConnectsOutput, FieldCounting
    PROVE  FNInv'
<1>1. mode = "connect" /\ AtOutput /\ mode' = mode /\ chain' = chain /\ blk'.txs = blk.txs /\ pos' = NextPos
  BY DEF ConnectsOutput, MovesTo
<1>2. BlkHeight' = BlkHeight
  BY <1>1 DEF BlkHeight, TipHeight
<1>3. /\ pos.tx \in 1 .. Len(blk.txs) /\ pos.out = 1 /\ Tx = blk.txs[pos.tx] /\ Len(blk.txs) \in Nat
      /\ pos.tx = Len(blk.txs)
  BY <1>1, AtTx DEF TypeOK, PosOK
<1>4. HandledCount = pos.tx - 1 /\ HandledCount' = pos.tx
  <2>1. pos'.tx = pos.tx /\ pos'.out = 2
    BY <1>1, <1>3 DEF NextPos, TypeOK, PosOK
  <2> QED BY <1>3, <2>1 DEF HandledCount
<1>5. PICK K, bet, legs : K = <<BlkHeight, Tx.id, 1>> /\ bet = IsFieldBet(Tx) /\ legs = First(Tx).legs
  OBVIOUS
<1>6. K \notin DOMAIN cache.fieldBets /\ bet \in BOOLEAN
  BY <1>1, <1>5, FieldBetIsNew DEF IsFieldBet, HasType, Saves
<1>7. PICK b : b.legs = legs /\ cache'.fieldBets = IF bet THEN Put(cache.fieldBets, K, b) ELSE cache.fieldBets
  <2>1. CASE bet
    BY <1>5, <1>6, <2>1 DEF FieldCounting, DbWrite
  <2>2. CASE ~bet
    <3>1. PICK b : b = [legs |-> legs]
      OBVIOUS
    <3>2. b.legs = legs
      BY <3>1
    <3>3. cache'.fieldBets = cache.fieldBets
      BY <1>5, <2>2 DEF FieldCounting
    <3> QED BY <2>2, <3>2, <3>3
  <2> QED BY <1>6, <2>1, <2>2
<1>8. FieldCounted(cache')
  <2>1. PICK v, w : v = cache /\ w = cache'
    OBVIOUS
  <2>2. FieldCounted(v)
    BY <1>1, <2>1 DEF FNInv
  <2>3. \A e \in DOMAIN v.fieldEvents :
           e \in DOMAIN w.fieldEvents /\ Recounted(v.fieldEvents[e], w.fieldEvents[e], e, bet, legs)
    BY <1>5, <2>1 DEF FieldCounting
  <2>4. \A e \in DOMAIN w.fieldEvents : e \notin DOMAIN v.fieldEvents =>
           /\ IsField(w.fieldEvents[e])
           /\ \A c \in DOMAIN w.fieldEvents[e].contenders : w.fieldEvents[e].contenders[c].bets = NoCounts
    BY <2>1 DEF FieldCounting
  <2>5. bet => \A i \in DOMAIN legs : /\ legs[i].event \in DOMAIN v.fieldEvents
                                      /\ legs[i].contender \in DOMAIN w.fieldEvents[legs[i].event].contenders
    BY <1>5, <2>1 DEF FieldCounting
  <2>6. K \notin DOMAIN v.fieldBets /\ w.fieldBets = IF bet THEN Put(v.fieldBets, K, b) ELSE v.fieldBets
    BY <1>6, <1>7, <2>1
  <2>7. FieldCounted(w)
    BY <1>6, <1>7, <2>2, <2>3, <2>4, <2>5, <2>6, FieldCountedNext
  <2> QED BY <2>1, <2>7
<1>9. FieldPlacedBefore'
  <2>0. DOMAIN cache'.fieldBets \subseteq DOMAIN cache.fieldBets \cup {K}
    BY <1>7 DEF Put
  <2>1. ASSUME NEW k \in DOMAIN cache'.fieldBets, k[1] = BlkHeight PROVE \E j \in 1 .. pos.tx : k[2] = blk.txs[j].id
    <3>1. CASE k \in DOMAIN cache.fieldBets
      <4>1. PICK j \in 1 .. pos.tx - 1 : k[2] = blk.txs[j].id
        BY <1>1, <1>4, <2>1, <3>1 DEF FNInv, FieldPlacedBefore
      <4>2. j \in 1 .. pos.tx
        BY <1>3
      <4> QED BY <4>1, <4>2
    <3>2. CASE k \notin DOMAIN cache.fieldBets
      <4>1. k = K /\ k[2] = Tx.id
        BY <1>5, <2>0, <3>2
      <4> QED BY <1>3, <4>1
    <3> QED BY <3>1, <3>2
  <2> QED BY <1>1, <1>2, <1>4, <2>1 DEF FieldPlacedBefore
<1> QED BY <1>1, <1>8, <1>9 DEF FNInv

\* Every step.
LEMMA FNInvStep ==
    ASSUME Ordinary, Lists, FieldLegsComplete, Reversible, CInv, CInv', FNInv, [Next]_vars
    PROVE  FNInv'
<1>0. /\ TypeOK /\ UInv /\ Base /\ RInv /\ NoGames /\ mode' # "failed"
      /\ AllDbs(cache) /\ Len(chain) \in Nat \ {0}
  BY ChainSeq DEF CInv, Base, IInv, Reversible, RInv, Sound
<1>1. ASSUME chain' = chain, mode' # "connect" PROVE FNInv'
  BY <1>1 DEF FNInv
<1>b. ASSUME NEW time, NEW proof, BeginConnect(time, proof) PROVE FNInv'
  <2>1. mode = "idle" /\ mode' = "connect" /\ chain' = chain
    BY <1>0, <1>b, BlockStarts
  <2>2. cache'.fieldEvents = view.fieldEvents /\ cache'.fieldBets = view.fieldBets
    <3>1. \A d \in Databases \ {"bets", "payoutsInfo"} : cache'[d] = view[d]
      BY <1>0, <1>b, BlockStarts
    <3> QED BY <3>1 DEF Databases
  <2>3. FieldCounted(view)
    BY <1>0, ViewFieldCounted
  <2>4. PICK c : c = cache'
    OBVIOUS
  <2>5. FieldCounted(c)
    BY <2>2, <2>3, <2>4, FieldCountedSame
  <2>6. ASSUME NEW k \in DOMAIN cache'.fieldBets PROVE k[1] # BlkHeight'
    <3>1. BlkHeight' = TipHeight + 1 /\ TipHeight \in Nat
      BY <1>0, <2>1, ChainSeq DEF BlkHeight, TipHeight
    <3>2. k[1] \in Nat /\ k[1] <= TipHeight
      BY <1>0, <2>2, <2>6 DEF RInv, Sound
    <3> QED BY <3>1, <3>2
  <2>7. FieldPlacedBefore'
    BY <2>6 DEF FieldPlacedBefore
  <2> QED BY <2>1, <2>4, <2>5, <2>7 DEF FNInv
<1>2. CASE EndConnect
  <2>1. /\ mode = "connect" /\ mode' = "idle" /\ Len(chain') = Len(chain) + 1
        /\ \A i \in 1 .. Len(chain) : chain'[i] = chain[i]
        /\ chain'[Len(chain) + 1] = Connected(blk, view')
    BY <1>0, <1>2, BlockEnds
  <2>2. view'.fieldEvents = cache.fieldEvents /\ view'.fieldBets = cache.fieldBets
    <3>1. \A d \in Databases \ {"undos", "lastHeight"} : view'[d] = cache[d]
      BY <1>0, <1>2, BlockEnds
    <3> QED BY <3>1 DEF Databases
  <2>3. PICK v : v = view'
    OBVIOUS
  <2>4. FieldCounted(v)
    BY <2>1, <2>2, <2>3, FieldCountedSame DEF FNInv
  <2>5. chain'[Len(chain) + 1].after = v
    BY <2>1, <2>3 DEF Connected
  <2>6. \A i \in 1 .. Len(chain') : i \in 1 .. Len(chain) \/ i = Len(chain) + 1
    BY <1>0, <2>1
  <2> QED BY <2>1, <2>4, <2>5, <2>6 DEF FNInv
<1>3. CASE EndDisconnect
  <2>1. mode' = "idle" /\ Len(chain') = Len(chain) - 1 /\ \A i \in 1 .. Len(chain) - 1 : chain'[i] = chain[i]
    BY <1>0, <1>3, UndoEnds
  <2>2. \A i \in 1 .. Len(chain') : i \in 1 .. Len(chain) /\ chain'[i] = chain[i]
    BY <1>0, <2>1
  <2> QED BY <2>1, <2>2 DEF FNInv
<1>4. CASE UNCHANGED vars
  <2>1. cache' = cache /\ chain' = chain /\ mode' = mode /\ blk' = blk /\ pos' = pos
    BY <1>4 DEF vars
  <2>2. BlkHeight' = BlkHeight /\ HandledCount' = HandledCount
    BY <2>1 DEF BlkHeight, TipHeight, HandledCount
  <2>3. FieldPlacedBefore => FieldPlacedBefore'
    BY <2>1, <2>2 DEF FieldPlacedBefore
  <2> QED BY <2>1, <2>3 DEF FNInv
<1>5. ASSUME NEW tx \in Txs, TakeTx(tx) PROVE FNInv'
  <2>1. /\ mode = "connect" /\ mode' = mode /\ cache' = cache /\ chain' = chain
        /\ OutputsDone /\ blk'.txs = Append(blk.txs, tx) /\ pos'.tx = Len(blk.txs) + 1 /\ pos'.out = 1
    BY <1>0, <1>5 DEF TakeTx, TypeOK
  <2>2. HandledCount = Len(blk.txs) /\ Len(blk.txs) \in Nat
    BY <1>0, <2>1, AllHandled
  <2>3. HandledCount' = HandledCount
    BY <2>1, <2>2 DEF HandledCount
  <2>4. BlkHeight' = BlkHeight
    BY <2>1 DEF TipHeight, BlkHeight
  <2>5. \A j \in 1 .. HandledCount : blk'.txs[j] = blk.txs[j]
    BY <1>0, <2>1, <2>2, AppendProperties DEF TypeOK
  <2>6. FieldPlacedBefore'
    BY <2>1, <2>3, <2>4, <2>5 DEF FNInv, FieldPlacedBefore
  <2> QED BY <2>1, <2>6 DEF FNInv
<1>6. CASE Connect
  <2>1. ASSUME RejectBlock PROVE FNInv'
    BY <1>1, <2>1 DEF RejectBlock
  <2> QED BY <1>2, <1>5, <1>6, <1>b, <2>1 DEF Connect
<1>7. CASE Disconnect
  <2>1. ASSUME BeginDisconnect PROVE FNInv'
    BY <1>1, <2>1 DEF BeginDisconnect, Abort
  <2> QED BY <1>3, <1>7, <2>1 DEF Disconnect
<1>8. CASE OutputAction
  <2>1. ConnectsOutput \/ DisconnectsOutput
    BY <1>0, <1>8, Outputs DEF OutputAction, Abort
  <2>2. CASE ConnectsOutput
    <3>1. mode = "connect" /\ FieldCounted(cache)
      BY <2>2 DEF ConnectsOutput, FNInv
    <3>2. FieldEventsCount(cache.fieldEvents)
      <4>1. ASSUME NEW leg PROVE Cardinality(FieldBetsOn(cache, leg)) \in Nat
        <5>1. FieldBetsOn(cache, leg) \subseteq DOMAIN cache.fieldBets /\ IsFiniteSet(DOMAIN cache.fieldBets)
          BY <3>1 DEF FieldBetsOn, FieldCounted
        <5> QED BY <5>1, FS_Subset, FS_CardinalityType
      <4> QED BY <3>1, <4>1 DEF FieldCounted, FieldEventsCount, CountsOK
    <3>3. FieldCounting
      BY <1>0, <1>8, <3>1, <3>2, OutputFieldCounting
    <3> QED BY <1>0, <2>2, <3>3, ConnectingFieldCounts
  <2>3. CASE DisconnectsOutput
    BY <1>1, <2>3 DEF DisconnectsOutput, MovesTo
  <2> QED BY <2>1, <2>2, <2>3
<1> QED BY <1>4, <1>6, <1>7, <1>8 DEF Next, OutputAction

\* At first there are no bets.
LEMMA InitFNInv == FieldUncounted /\ Init => FNInv
<1> SUFFICES ASSUME FieldUncounted, Init PROVE FNInv
  OBVIOUS
<1>1. Len(chain) = 1 /\ chain[1].after = BaseView /\ mode = "idle"
  BY DEF Init, Connected, NoBlock, Block
<1>2. DOMAIN BaseView.fieldBets = {}
  BY DEF FieldUncounted
<1>3. \A leg : FieldBetsOn(BaseView, leg) = {}
  BY <1>2 DEF FieldBetsOn
<1>4. IsFiniteSet(DOMAIN BaseView.fieldBets)
  BY <1>2, FS_EmptySet
<1>5. FieldCounted(BaseView)
  BY <1>2, <1>3, <1>4, FS_EmptySet DEF FieldCounted, FieldUncounted, NoCounts
<1> QED BY <1>1, <1>5 DEF FNInv

(* The counters of a contender equal the number of field bets in the database,
   for any sequence of bets, updates and reorganisations: ProcessBettingTx
   counts a bet exactly if it saves it, and UndoBettingTx erases it exactly if
   it restores the event (CContenderInfo, UndoEventChanges). *)
THEOREM FieldCountersMatchBetsCorrect ==
    Ordinary /\ Lists /\ Reversible /\ FieldLegsComplete /\ FieldUncounted => (Spec => []FieldCountersMatchBets)
<1> SUFFICES ASSUME Ordinary, Lists, Reversible, FieldLegsComplete, FieldUncounted
             PROVE  Spec => []FieldCountersMatchBets
  OBVIOUS
<1>1. Init => CInv /\ FNInv
  BY InitCInv, InitFNInv
<1>2. CInv /\ FNInv /\ [Next]_vars => CInv' /\ FNInv'
  BY CInvStep, FNInvStep
<1>3. CInv /\ FNInv => FieldCountersMatchBets
  <2> SUFFICES ASSUME CInv, FNInv PROVE FieldCountersMatchBets
    OBVIOUS
  <2>1. TypeOK /\ RInv
    BY DEF CInv, Base, IInv
  <2>2. FieldCounted(view)
    BY <2>1, ViewFieldCounted
  <2> QED BY <2>2 DEF FieldCounted, FieldCountersMatchBets, FieldLeg
<1> QED BY <1>1, <1>2, <1>3, PTL DEF Spec

-----------------------------------------------------------------------------
\* Settling all kinds of bets: which players a block pays.

\* k is where the output of a transaction puts a bet of the database d.
PlacedAs(k, d) == \E tx \in Txs, h \in Nat : HasType(tx, Makes[d]) /\ k = <<h, tx.id, 1>>

\* The bets of database d have such keys.
PlacedIn(v, d) == IsFiniteSet(DOMAIN v[d]) /\ \A k \in DOMAIN v[d] : PlacedAs(k, d)

\* Ids of transactions and proofs of stake are hashes, which the code orders and
\* draws from as numbers; the chain begins without bets.
Countable ==
    /\ \A tx \in Txs : tx.id \in Nat
    /\ Proofs \subseteq Nat
    /\ \A d \in BetDbs : DOMAIN BaseView[d] = {}

\* Such a key has a height and an id.
LEMMA PlacedKey ==
    ASSUME Countable, NEW d, NEW k, PlacedAs(k, d)
    PROVE  IsKey(k)
BY DEF Countable, PlacedAs, IsKey

\* No output puts its bet into two databases.
LEMMA PlacedOnce ==
    ASSUME Ordinary, NEW d \in BetDbs, NEW e \in BetDbs, NEW k, PlacedAs(k, d), PlacedAs(k, e)
    PROVE  d = e
<1>1. PICK tx \in Txs, h \in Nat : HasType(tx, Makes[d]) /\ k = <<h, tx.id, 1>>
  BY DEF PlacedAs
<1>2. PICK ty \in Txs, g \in Nat : HasType(ty, Makes[e]) /\ k = <<g, ty.id, 1>>
  BY DEF PlacedAs
<1>3. tx.id = ty.id
  BY <1>1, <1>2
<1>4. tx = ty
  BY <1>3 DEF Ordinary
<1>5. First(tx).type \in Makes[d] /\ First(tx).type \in Makes[e]
  BY <1>1, <1>2, <1>4 DEF HasType
<1>6. /\ Makes["bets"] = {"plBet", "plParlayBet"} /\ Makes["fieldBets"] = {"fBet", "fParlayBet"}
      /\ Makes["chainGamesLottoBets"] = {"cgBet"} /\ Makes["quickGamesBets"] = {"qgBet"}
  BY DEF Makes, Dbs, BetDbs
<1> QED BY <1>5, <1>6 DEF BetDbs

\* A list as a function is a sequence,
LEMMA ListIsSeq ==
    ASSUME NEW P, NEW m \in Nat, P = [i \in 1 .. m |-> P[i]]
    PROVE  IsSeq(P)
<1> DEFINE S == {P[i] : i \in DOMAIN P}
<1>1. \A i \in 1 .. m : P[i] \in S
  OBVIOUS
<1> HIDE DEF S
<1>2. P \in Seq(S)
  BY <1>1, IsASeq
<1> QED BY <1>2 DEF IsSeq, S

\* and the other way round.
LEMMA SeqIsList ==
    ASSUME NEW P, IsSeq(P)
    PROVE  Len(P) \in Nat /\ DOMAIN P = 1 .. Len(P)
BY LenProperties DEF IsSeq

\* The elements of two lists, one after the other.
OneOf(x, P) == \E i \in DOMAIN P : x = P[i]

LEMMA ConcatElements ==
    ASSUME NEW P, IsSeq(P), NEW Q, IsSeq(Q), NEW R, R = P \o Q
    PROVE  /\ IsSeq(R)
           /\ \A i \in DOMAIN R : OneOf(R[i], P) \/ OneOf(R[i], Q)
<1> DEFINE S == {P[i] : i \in DOMAIN P} \cup {Q[i] : i \in DOMAIN Q}
<1>1. P \in Seq({P[i] : i \in DOMAIN P}) /\ Q \in Seq({Q[i] : i \in DOMAIN Q})
  BY DEF IsSeq
<1>2. P \in Seq(S) /\ Q \in Seq(S)
  <2>1. \A i \in 1 .. Len(P) : P[i] \in S
    BY <1>1, LenProperties
  <2>2. \A i \in 1 .. Len(Q) : Q[i] \in S
    BY <1>1, LenProperties
  <2>3. P = [i \in 1 .. Len(P) |-> P[i]] /\ Q = [i \in 1 .. Len(Q) |-> Q[i]] /\ Len(P) \in Nat /\ Len(Q) \in Nat
    BY <1>1, LenProperties
  <2> HIDE DEF S
  <2>4. P \in Seq(S)
    BY <2>1, <2>3, IsASeq
  <2>5. Q \in Seq(S)
    BY <2>2, <2>3, IsASeq
  <2> QED BY <2>4, <2>5
<1>a. DOMAIN P = 1 .. Len(P) /\ DOMAIN Q = 1 .. Len(Q) /\ Len(P) \in Nat /\ Len(Q) \in Nat
  BY <1>1, LenProperties
<1> HIDE DEF S
<1>3. R \in Seq(S)
  BY <1>2, ConcatProperties
<1>4. DOMAIN R = 1 .. Len(P) + Len(Q)
  BY <1>2, <1>3, ConcatProperties, LenProperties
<1>5. ASSUME NEW i \in DOMAIN R PROVE OneOf(R[i], P) \/ OneOf(R[i], Q)
  <2>0. i \in 1 .. Len(P) + Len(Q)
    BY <1>4
  <2>1. R[i] = IF i <= Len(P) THEN P[i] ELSE Q[i - Len(P)]
    BY <1>2, <2>0, ConcatProperties
  <2>2. i <= Len(P) => i \in DOMAIN P
    BY <1>a, <2>0
  <2>3. ~(i <= Len(P)) => i - Len(P) \in DOMAIN Q
    BY <1>a, <2>0
  <2> QED BY <2>1, <2>2, <2>3 DEF OneOf
<1> QED BY <1>3, <1>5, SeqIsSeq

\* The bets that a list of results settles are paid as they are marked.
SettlesAsMarked(bets, results, S) ==
    /\ IsSeq(S.payouts)
    /\ DOMAIN S.bets = DOMAIN bets
    /\ \A k \in DOMAIN bets : S.bets[k] = bets[k] \/
            (~bets[k].completed /\ S.bets[k].completed /\ IsBetRecord(S.bets[k]))
    /\ \A i \in DOMAIN S.payouts :
           LET out == S.payouts[i]
           IN  /\ out.to = "player" /\ out.key \in DOMAIN bets
               /\ S.bets[out.key].completed /\ out.amount = S.bets[out.key].payout

\* SettleResults does that, for peerless bets and for field bets.
LEMMA SettledAsMarked ==
    ASSUME NEW bets, IsFiniteSet(DOMAIN bets), \A k \in DOMAIN bets : IsKey(k) /\ IsBetRecord(bets[k]),
           NEW results, NEW ids, IsSeq(ids), NEW h, NEW pairs, NEW offers,
           NEW S, S = SettleResults(bets, results, ids, h, pairs, offers)
    PROVE  SettlesAsMarked(bets, results, S)
<1> DEFINE due == Settlements(bets, results, ids, SearchStart(h - 1))
           keys == {p[2] : p \in due}
           odds == [k \in keys |-> FinalOdds(bets[k], pairs[k])]
           Q == PaidOut(bets, due, odds)
           done == S.bets
<1>1. /\ S.bets = [k \in DOMAIN bets |->
                    IF k \in keys THEN SetCompleted(bets[k], pairs[k], offers[k], h) ELSE bets[k]]
      /\ S.payouts = Q
  BY DEF SettleResults
<1>n. PICK N \in Nat : DOMAIN ids = 1 .. N
  BY SeqIsList
<1>2. ASSUME NEW p \in due
      PROVE  /\ p = <<p[1], p[2]>> /\ p[1] \in 1 .. N /\ p[2] \in DOMAIN bets /\ p[1] \in Nat
             /\ SettledBy(bets[p[2]], results, ids, p[1])
             /\ \A j \in 1 .. p[1] - 1 : ~SettledBy(bets[p[2]], results, ids, j)
  BY <1>n DEF Settlements
<1>3. ASSUME NEW p \in due, NEW q \in due, p[2] = q[2] PROVE p = q
  <2>1. ~(p[1] < q[1]) /\ ~(q[1] < p[1])
    BY <1>2, <1>3
  <2>2. p[1] = q[1]
    BY <1>2, <2>1
  <2> QED BY <1>2, <1>3, <2>2
<1>4. IsFiniteSet(due)
  <2>1. due \subseteq (1 .. N) \X DOMAIN bets
    BY <1>n DEF Settlements
  <2>2. IsFiniteSet(1 .. N)
    BY FS_Interval
  <2>3. IsFiniteSet((1 .. N) \X DOMAIN bets)
    BY <2>2, FS_Product
  <2> HIDE DEF due
  <2> QED BY <2>1, <2>3, FS_Subset
<1>5. ASSUME NEW k \in keys
      PROVE  /\ k \in DOMAIN bets /\ ~bets[k].completed
             /\ S.bets[k].completed /\ IsBetRecord(S.bets[k])
             /\ S.bets[k].payout = Worth(bets[k].amount, odds[k][2])
  <2>1. PICK p \in due : p[2] = k
    OBVIOUS
  <2>2. k \in DOMAIN bets /\ ~bets[k].completed
    BY <1>2, <2>1 DEF SettledBy, Due
  <2>3. S.bets[k] = SetCompleted(bets[k], pairs[k], offers[k], h) /\ IsBetRecord(bets[k])
    BY <1>1, <2>2
  <2>4. odds[k] = FinalOdds(bets[k], pairs[k])
    OBVIOUS
  <2> HIDE DEF odds, keys
  <2> QED BY <2>2, <2>3, <2>4 DEF SetCompleted, IsBetRecord, BetFields
<1>6. \A p \in due : done[p[2]].payout = Worth(bets[p[2]].amount, odds[p[2]][2])
  <2>1. \A p \in due : p[2] \in keys
    OBVIOUS
  <2> HIDE DEF keys, odds, due
  <2> QED BY <1>5, <2>1
<1>7. Q = PaidOut(bets, due, odds) /\ keys = {p[2] : p \in due}
  OBVIOUS
<1> HIDE DEF done, due, odds, Q, keys
<1>8. \A p \in due : p = <<p[1], p[2]>> /\ p[1] \in Nat /\ IsKey(p[2])
  BY <1>2
<1>9. \A p, q \in due : p[2] = q[2] => p = q
  BY <1>3
<1>10. PlayersList(Q, {p[2] : p \in due}, done)
  BY <1>4, <1>6, <1>7, <1>8, <1>9, PaidOutList
<1>11. PICK m \in Nat : Q = [i \in 1 .. m |-> Q[i]]
  BY <1>10 DEF PlayersList
<1>12. IsSeq(Q)
  BY <1>11, ListIsSeq
<1>13. \A i \in DOMAIN Q : Q[i].to = "player" /\ Q[i].key \in keys /\ Q[i].amount = done[Q[i].key].payout
  BY <1>7, <1>10 DEF PlayersList, PaysFor
<1>14. DOMAIN S.bets = DOMAIN bets /\ \A k \in DOMAIN bets : k \notin keys => S.bets[k] = bets[k]
  BY <1>1
<1> QED BY <1>1, <1>5, <1>12, <1>13, <1>14 DEF SettlesAsMarked, done

\* All players that P pays are those of bets in K.
PaysOnly(P, K) == IsSeq(P) /\ \A i \in DOMAIN P : P[i].to = "player" => P[i].key \in K

\* Two lists one after the other.
LEMMA PaysBoth ==
    ASSUME NEW P, NEW Q, NEW K, PaysOnly(P, K), PaysOnly(Q, K), NEW R, R = P \o Q
    PROVE  PaysOnly(R, K)
<1>1. IsSeq(P) /\ IsSeq(Q)
  BY DEF PaysOnly
<1>2. IsSeq(R)
  BY <1>1, ConcatElements
<1>3. \A i \in DOMAIN R : OneOf(R[i], P) \/ OneOf(R[i], Q)
  BY <1>1, ConcatElements
<1> QED BY <1>2, <1>3 DEF PaysOnly, OneOf

\* An empty list pays nobody.
LEMMA PaysNobody ==
    ASSUME NEW K
    PROVE  PaysOnly(<<>>, K)
<1>1. PICK P, S : P = <<>> /\ S = {0}
  OBVIOUS
<1>2. P \in Seq(S) /\ DOMAIN P = {}
  BY <1>1
<1>3. IsSeq(P)
  BY <1>2, SeqIsSeq
<1>4. PaysOnly(P, K)
  BY <1>2, <1>3 DEF PaysOnly
<1> QED BY <1>1, <1>4

\* Peerless bets are paid to those who placed them,
LEMMA PlPaysOnly ==
    ASSUME NEW v, IsFiniteSet(DOMAIN v.bets), \A k \in DOMAIN v.bets : IsKey(k) /\ IsBetRecord(v.bets[k]),
           NEW ids, IsSeq(ids), NEW h, NEW S, S = GetPLBetPayouts(v, ids, h)
    PROVE  /\ PaysOnly(S.payouts, DOMAIN v.bets)
           /\ DOMAIN S.bets = DOMAIN v.bets
           /\ \A k \in DOMAIN v.bets : IsBetRecord(S.bets[k])
<1> DEFINE pairs == [k \in DOMAIN v.bets |-> LegOdds(v.bets[k], v)]
           offers == [k \in DOMAIN v.bets |-> Quotes(v.bets[k])]
<1>1. PICK T : T = SettleResults(v.bets, v.results, ids, h, pairs, offers)
  OBVIOUS
<1>2. S = WithRewards(T, h)
  BY <1>1 DEF GetPLBetPayouts
<1> HIDE DEF pairs, offers
<1>3. PICK bets, results : bets = v.bets /\ results = v.results
  OBVIOUS
<1>4. SettlesAsMarked(bets, results, T)
  BY <1>1, <1>3, SettledAsMarked
<1>5. PICK W : W = Rewards(T.fee, h)
  OBVIOUS
<1>6. IsSeq(W) /\ \A i \in DOMAIN W : W[i].to # "player"
  BY <1>5, RewardsList, SeqIsSeq
<1>7. PaysOnly(W, DOMAIN bets)
  BY <1>6 DEF PaysOnly
<1>8. PaysOnly(T.payouts, DOMAIN bets)
  BY <1>4 DEF SettlesAsMarked, PaysOnly
<1>9. PICK R : R = T.payouts \o W
  OBVIOUS
<1>10. PaysOnly(R, DOMAIN bets)
  BY <1>7, <1>8, <1>9, PaysBoth
<1>11. S = [bets |-> T.bets, payouts |-> R]
  BY <1>2, <1>5, <1>9, Zenon DEF WithRewards
<1>12. S.payouts = R /\ S.bets = T.bets
  BY <1>11
<1> QED BY <1>3, <1>4, <1>10, <1>12 DEF SettlesAsMarked

\* Keys in the order of the database.
LEMMA KeysInOrder ==
    ASSUME NEW K, IsFiniteSet(K), \A k \in K : IsKey(k)
    PROVE  /\ Cardinality(K) \in Nat
           /\ InKeyOrder(K) \in [1 .. Cardinality(K) -> K]
<1> DEFINE R == {p \in K \X K : KeyLess(p[1], p[2])}
<1>1. \A k, l \in K : <<k, l>> \in R <=> KeyLess(k, l)
  OBVIOUS
<1> HIDE DEF R
<1>2. ASSUME NEW k, NEW l, IsKey(k), IsKey(l)
      PROVE  ~KeyLess(k, k) /\ (k = l \/ KeyLess(k, l) \/ KeyLess(l, k))
  BY <1>2 DEF KeyLess, IsKey
<1>3. ASSUME NEW k, NEW l, NEW j, IsKey(k), IsKey(l), IsKey(j), KeyLess(k, l), KeyLess(l, j)
      PROVE  KeyLess(k, j)
  BY <1>3 DEF KeyLess, IsKey
<1>4. StrictOrder(K, R)
  BY <1>1, <1>2, <1>3 DEF StrictOrder
<1> QED BY <1>4, InOrderLists DEF InKeyOrder, R

\* so are quick games,
LEMMA QgPaysOnly ==
    ASSUME NEW bets, IsFiniteSet(DOMAIN bets), \A k \in DOMAIN bets : IsKey(k),
           NEW games, DOMAIN games \subseteq DOMAIN bets, NEW h,
           NEW S, S = SettleQuickGames(bets, games, h)
    PROVE  PaysOnly(S.payouts, DOMAIN bets) /\ DOMAIN S.bets = DOMAIN bets
<1> DEFINE paid == {k \in DOMAIN games : games[k].payout > 0}
           ks == InKeyOrder(paid)
           P == [i \in DOMAIN ks |-> QuickGamePayout(ks[i], games[ks[i]])]
           W == QuickGamesRewards(games, paid, h)
<1>1. S.payouts = P \o W /\ DOMAIN S.bets = DOMAIN bets
  BY DEF SettleQuickGames
<1>2. paid \subseteq DOMAIN bets /\ IsFiniteSet(paid)
  BY FS_Subset
<1> HIDE DEF paid
<1>3. PICK m \in Nat : ks \in [1 .. m -> paid]
  BY <1>2, KeysInOrder
<1> HIDE DEF ks
<1>4. P = [i \in 1 .. m |-> P[i]] /\ DOMAIN P = 1 .. m
  BY <1>3
<1>5. \A i \in DOMAIN P : P[i].key \in DOMAIN bets
  BY <1>2, <1>3 DEF QuickGamePayout, Payout
<1>6. PaysOnly(P, DOMAIN bets)
  <2> HIDE DEF P
  <2>1. IsSeq(P)
    BY <1>4, ListIsSeq
  <2> QED BY <1>5, <2>1 DEF PaysOnly
<1>7. PaysOnly(W, DOMAIN bets)
  <2>1. W = <<>> \/ \E a, b : W = <<Reward("dev", h, a, "quickGamesReward"), Reward("omno", h, b, "quickGamesReward")>>
    BY DEF QuickGamesRewards
  <2>2. ASSUME NEW a, NEW b, W = <<a, b>>, a.to # "player", b.to # "player" PROVE PaysOnly(W, DOMAIN bets)
    <3>1. W \in Seq({a, b})
      BY <2>2
    <3>2. \A i \in DOMAIN W : W[i].to # "player"
      BY <2>2
    <3> HIDE DEF W
    <3>3. IsSeq(W)
      BY <3>1, SeqIsSeq
    <3> QED BY <3>2, <3>3 DEF PaysOnly
  <2>3. \A a, n, t : Reward("dev", n, a, t).to # "player" /\ Reward("omno", n, a, t).to # "player"
    BY DEF Reward
  <2> HIDE DEF W
  <2> QED BY <2>1, <2>2, <2>3, PaysNobody
<1> HIDE DEF P, W
<1>8. PICK R : R = P \o W
  OBVIOUS
<1>9. PaysOnly(R, DOMAIN bets)
  BY <1>6, <1>7, <1>8, PaysBoth
<1> QED BY <1>1, <1>8, <1>9

\* What AtPairs lists.
TakenAt(t, ss, Q) == \A i \in DOMAIN t : \E p \in Q : t[i] = ss[p[1]][p[2]]

LEMMA PairElements ==
    ASSUME NEW ss, NEW Q, IsFiniteSet(Q), \A p \in Q : p = <<p[1], p[2]>> /\ p[1] \in Nat /\ p[2] \in Nat,
           NEW t, t = AtPairs(ss, Q)
    PROVE  IsSeq(t) /\ TakenAt(t, ss, Q)
<1> DEFINE R == {p \in Q \X Q : p[1][1] < p[2][1] \/ (p[1][1] = p[2][1] /\ p[1][2] < p[2][2])}
           f == InOrder(Q, R)
<1>1. \A p, q \in Q : <<p, q>> \in R <=> p[1] < q[1] \/ (p[1] = q[1] /\ p[2] < q[2])
  OBVIOUS
<1>2. t = [i \in 1 .. Cardinality(Q) |-> ss[f[i][1]][f[i][2]]]
  BY DEF AtPairs
<1> HIDE DEF R
<1>3. StrictOrder(Q, R)
  <2>1. \A p \in Q : <<p, p>> \notin R
    BY <1>1
  <2>2. \A p, q, r \in Q : <<p, q>> \in R /\ <<q, r>> \in R => <<p, r>> \in R
    BY <1>1
  <2>3. \A p, q \in Q : p = q \/ <<p, q>> \in R \/ <<q, p>> \in R
    <3> SUFFICES ASSUME NEW p \in Q, NEW q \in Q PROVE p = q \/ <<p, q>> \in R \/ <<q, p>> \in R
      OBVIOUS
    <3>1. p[1] < q[1] \/ q[1] < p[1] \/ p[1] = q[1]
      OBVIOUS
    <3>2. p[2] < q[2] \/ q[2] < p[2] \/ p[2] = q[2]
      OBVIOUS
    <3>3. p[1] = q[1] /\ p[2] = q[2] => p = q
      OBVIOUS
    <3> QED BY <1>1, <3>1, <3>2, <3>3
  <2> QED BY <2>1, <2>2, <2>3 DEF StrictOrder
<1>4. Cardinality(Q) \in Nat /\ f \in [1 .. Cardinality(Q) -> Q]
  BY <1>3, InOrderLists
<1> HIDE DEF f
<1>5. PICK m \in Nat : m = Cardinality(Q)
  BY <1>4
<1>6. t = [i \in 1 .. m |-> t[i]] /\ DOMAIN t = 1 .. m
  BY <1>2, <1>5
<1>7. IsSeq(t)
  BY <1>6, ListIsSeq
<1>8. \A i \in 1 .. m : t[i] = ss[f[i][1]][f[i][2]] /\ f[i] \in Q
  BY <1>2, <1>4, <1>5
<1> QED BY <1>6, <1>7, <1>8 DEF TakenAt

\* The positions of lists that are not longer than two.
LEMMA ShortPositions ==
    ASSUME NEW ss, NEW n \in Nat, DOMAIN ss = 1 .. n, \A i \in 1 .. n : DOMAIN ss[i] \subseteq {1, 2},
           NEW Q, Q \subseteq Positions(ss)
    PROVE  /\ IsFiniteSet(Q)
           /\ \A p \in Q : p = <<p[1], p[2]>> /\ p[1] \in DOMAIN ss /\ p[2] \in DOMAIN ss[p[1]]
                            /\ p[1] \in Nat /\ p[2] \in Nat
<1>1. \A p \in Positions(ss) : p = <<p[1], p[2]>> /\ p[1] \in DOMAIN ss /\ p[2] \in DOMAIN ss[p[1]]
  BY DEF Positions
<1>2. \A p \in Q : p = <<p[1], p[2]>> /\ p[1] \in DOMAIN ss /\ p[2] \in DOMAIN ss[p[1]]
  BY <1>1
<1>m. PICK m \in Nat : m = 2
  OBVIOUS
<1>3. \A p \in Q : p[1] \in 1 .. n /\ p[2] \in 1 .. m
  BY <1>2, <1>m
<1>4. Q \subseteq (1 .. n) \X (1 .. m)
  BY <1>2, <1>3
<1>5. IsFiniteSet(1 .. n) /\ IsFiniteSet(1 .. m)
  BY FS_Interval
<1>6. IsFiniteSet((1 .. n) \X (1 .. m))
  BY <1>5, FS_Product
<1>7. IsFiniteSet(Q)
  BY <1>4, <1>6, FS_Subset
<1> QED BY <1>2, <1>3, <1>7

\* A drawing pays the entrants.
LEMMA DrawPays ==
    ASSUME NEW bets, NEW K, NEW m \in Nat, NEW entries \in [1 .. m -> K], NEW fee, NEW hash \in Nat, NEW h,
           NEW D, D = Draw(bets, entries, fee, hash, h)
    PROVE  DOMAIN D.payouts \subseteq {1, 2} /\ PaysOnly(D.payouts, K)
<1>0. entries \in Seq(K) /\ Len(entries) = m
  BY IsASeq
<1>1. CASE m = 0
  <2>1. D.payouts = <<>>
    BY <1>0, <1>1 DEF Draw
  <2> QED BY <2>1, PaysNobody
<1>2. CASE m = 1
  <2>1. D.payouts = IF fee > 0 THEN <<Payout(entries[1], fee, "chainGamesRefund")>> ELSE <<>>
    BY <1>0, <1>2 DEF Draw
  <2>2. CASE fee > 0
    <3>1. PICK x : x = Payout(entries[1], fee, "chainGamesRefund")
      OBVIOUS
    <3>2. x.key \in K
      BY <1>2, <3>1 DEF Payout
    <3>3. PICK P : P = <<x>>
      OBVIOUS
    <3>4. P \in Seq({x}) /\ DOMAIN P = {1} /\ P[1] = x
      BY <3>3
    <3>5. IsSeq(P)
      BY <3>4, SeqIsSeq
    <3>6. PaysOnly(P, K)
      BY <3>2, <3>4, <3>5 DEF PaysOnly
    <3> QED BY <2>1, <2>2, <3>1, <3>3, <3>4, <3>6
  <2>3. CASE ~(fee > 0)
    BY <2>1, <2>3, PaysNobody
  <2> QED BY <2>2, <2>3
<1>3. CASE m > 1
  <2> DEFINE pot == IF hash = 0 THEN 0 ELSE Len(entries) * fee
             prize == WinnerPayout(pot)
             winner == entries[(hash % Len(entries)) + 1]
  <2>1. D.payouts = IF prize > 0 THEN <<Payout(winner, prize, "chainGamesPayout"),
                                        Reward("omno", h, pot \div 50, "chainGamesReward")>> ELSE <<>>
    <3> DEFINE mk == [k \in ToSet(entries) |->
                        [bets[k] EXCEPT !.completed = TRUE, !.payout = IF k = winner THEN prize ELSE @]]
               pay == IF prize > 0 THEN <<Payout(winner, prize, "chainGamesPayout"),
                                          Reward("omno", h, pot \div 50, "chainGamesReward")>> ELSE <<>>
    <3>1. Len(entries) # 0 /\ Len(entries) # 1
      BY <1>0, <1>3
    <3>2. D = [marks |-> mk, payouts |-> pay]
      BY <3>1, Zenon DEF Draw
    <3> HIDE DEF mk, pay
    <3>3. D.payouts = pay
      BY <3>2
    <3> QED BY <3>3 DEF pay
  <2>2. (hash % m) + 1 \in 1 .. m
    BY <1>3
  <2>3. winner \in K
    BY <1>0, <2>2
  <2> HIDE DEF winner, prize, pot
  <2>4. CASE prize > 0
    <3>1. PICK x, y : x = Payout(winner, prize, "chainGamesPayout") /\ y = Reward("omno", h, pot \div 50, "chainGamesReward")
      OBVIOUS
    <3>2. x.key \in K /\ y.to # "player"
      BY <2>3, <3>1 DEF Payout, Reward
    <3>3. PICK P : P = <<x, y>>
      OBVIOUS
    <3>4. P \in Seq({x, y}) /\ DOMAIN P = {1, 2} /\ P[1] = x /\ P[2] = y
      BY <3>3
    <3>5. IsSeq(P)
      BY <3>4, SeqIsSeq
    <3>6. PaysOnly(P, K)
      BY <3>2, <3>4, <3>5 DEF PaysOnly
    <3> QED BY <2>1, <2>4, <3>1, <3>3, <3>4, <3>6
  <2>5. CASE ~(prize > 0)
    BY <2>1, <2>5, PaysNobody
  <2> QED BY <2>4, <2>5
<1> QED BY <1>1, <1>2, <1>3

\* The drawings of a block.
LEMMA DrawsPay ==
    ASSUME NEW bets, NEW draws, NEW n \in Nat, DOMAIN draws = 1 .. n,
           \A i \in 1 .. n : DOMAIN draws[i].payouts \subseteq {1, 2} /\ PaysOnly(draws[i].payouts, DOMAIN bets),
           NEW S, S = SettleDraws(bets, draws)
    PROVE  PaysOnly(S.payouts, DOMAIN bets) /\ DOMAIN S.bets = DOMAIN bets
<1> DEFINE ss == [i \in DOMAIN draws |-> draws[i].payouts]
           Q == Positions(ss)
<1>1. S.payouts = AtPairs(ss, Q) /\ DOMAIN S.bets = DOMAIN bets
  BY DEF SettleDraws
<1>2. DOMAIN ss = 1 .. n /\ \A i \in 1 .. n : ss[i] = draws[i].payouts
  OBVIOUS
<1> HIDE DEF ss
<1>3. \A i \in 1 .. n : DOMAIN ss[i] \subseteq {1, 2} /\ PaysOnly(ss[i], DOMAIN bets)
  BY <1>2
<1>4. PICK q : q = Q /\ q \subseteq Positions(ss)
  OBVIOUS
<1> HIDE DEF Q
<1>5. /\ IsFiniteSet(q)
      /\ \A p \in q : p = <<p[1], p[2]>> /\ p[1] \in DOMAIN ss /\ p[2] \in DOMAIN ss[p[1]]
                            /\ p[1] \in Nat /\ p[2] \in Nat
  BY <1>2, <1>3, <1>4, ShortPositions
<1>6. PICK t : t = AtPairs(ss, q)
  OBVIOUS
<1>7. IsSeq(t) /\ TakenAt(t, ss, q)
  BY <1>5, <1>6, PairElements
<1>8. ASSUME NEW i \in DOMAIN t, t[i].to = "player" PROVE t[i].key \in DOMAIN bets
  <2>1. PICK p \in q : t[i] = ss[p[1]][p[2]]
    BY <1>7 DEF TakenAt
  <2>2. p[1] \in 1 .. n /\ p[2] \in DOMAIN ss[p[1]]
    BY <1>2, <1>5
  <2>3. PaysOnly(ss[p[1]], DOMAIN bets)
    BY <1>3, <2>2
  <2> QED BY <1>8, <2>1, <2>2, <2>3 DEF PaysOnly
<1>9. PaysOnly(t, DOMAIN bets)
  BY <1>7, <1>8 DEF PaysOnly
<1> QED BY <1>1, <1>4, <1>6, <1>9

\* and lottos: the entrants of the drawing.
LEMMA CgPaysOnly ==
    ASSUME Ordinary, NEW v, IsFiniteSet(DOMAIN v.chainGamesLottoBets), \A k \in DOMAIN v.chainGamesLottoBets : IsKey(k),
           NEW last, last.txs \in Seq(Txs), last.proof \in Nat, NEW h,
           NEW S, S = GetCGLottoBetPayouts(v, last, h)
    PROVE  /\ PaysOnly(S.payouts, DOMAIN v.chainGamesLottoBets)
           /\ DOMAIN S.bets = DOMAIN v.chainGamesLottoBets
<1> DEFINE outs == [i \in DOMAIN last.txs |-> last.txs[i].outs]
           at == {p \in Positions(outs) : /\ last.txs[p[1]].oracle
                                          /\ Len(outs[p[1]]) <= 2
                                          /\ outs[p[1]][p[2]].type = "cgResult"}
           all == GetCGLottoEventResults(last)
           known == {i \in DOMAIN all : all[i].event \in DOMAIN v.chainGamesLottoEvents}
           results == At(all, known)
           draws == DrawResults(v, results, last.proof, h)
<1>1. PICK n \in Nat : DOMAIN last.txs = 1 .. n /\ \A i \in 1 .. n : last.txs[i] \in Txs
  BY LenProperties, ElementOfSeq
<1>2. DOMAIN outs = 1 .. n /\ \A i \in 1 .. n : DOMAIN outs[i] \subseteq {1, 2}
  BY <1>1 DEF Ordinary
<1>3. all = AtPairs(outs, at) /\ at \subseteq Positions(outs)
  BY DEF GetCGLottoEventResults
<1> HIDE DEF at, outs
<1>4. IsFiniteSet(at) /\ \A p \in at : p = <<p[1], p[2]>> /\ p[1] \in Nat /\ p[2] \in Nat
  BY <1>2, <1>3, ShortPositions
<1>5. IsSeq(all)
  <2> HIDE DEF all
  <2> QED BY <1>3, <1>4, PairElements
<1> HIDE DEF all
<1>6. Len(all) \in Nat /\ DOMAIN all = 1 .. Len(all)
  BY <1>5, SeqIsList
<1>7. IsFiniteSet(1 .. Len(all)) /\ known \subseteq 1 .. Len(all)
  BY <1>6, FS_Interval
<1> HIDE DEF known
<1>a. IsFiniteSet(known)
  BY <1>7, FS_Subset
<1>8. IsFiniteSet(known) /\ known \subseteq Nat
  BY <1>6, <1>7, <1>a
<1>9. PICK m \in Nat : m = Cardinality(known)
  BY <1>8, FS_CardinalityType
<1>10. DOMAIN results = 1 .. m
  BY <1>8, <1>9, AtElements
<1> HIDE DEF results
<1>11. PICK bets : bets = v.chainGamesLottoBets
  OBVIOUS
<1>12. ASSUME NEW i \in 1 .. m
       PROVE  DOMAIN draws[i].payouts \subseteq {1, 2} /\ PaysOnly(draws[i].payouts, DOMAIN bets)
  <2> DEFINE fee == v.chainGamesLottoEvents[results[i].event] * COIN
             K == {k \in DOMAIN bets : /\ k[1] >= SearchStart(h - 1)
                                       /\ ~bets[k].completed
                                       /\ bets[k].event = results[i].event
                                       /\ bets[k].amount = fee}
             entries == InKeyOrder(K)
  <2>1. draws[i] = Draw(bets, entries, fee, last.proof, h)
    BY <1>10, <1>11, Zenon DEF DrawResults, Entries
  <2>2. K \subseteq DOMAIN bets
    OBVIOUS
  <2> HIDE DEF K, fee
  <2>3. IsFiniteSet(K) /\ \A k \in K : IsKey(k)
    BY <1>11, <2>2, FS_Subset
  <2>4. Cardinality(K) \in Nat /\ entries \in [1 .. Cardinality(K) -> K]
    BY <2>3, KeysInOrder
  <2>5. PICK c \in Nat : c = Cardinality(K)
    BY <2>4
  <2>6. entries \in [1 .. c -> DOMAIN bets]
    BY <2>2, <2>4, <2>5
  <2> HIDE DEF entries
  <2>7. PICK hash \in Nat : hash = last.proof
    OBVIOUS
  <2>8. PICK D : D = Draw(bets, entries, fee, hash, h)
    OBVIOUS
  <2>9. DOMAIN D.payouts \subseteq {1, 2} /\ PaysOnly(D.payouts, DOMAIN bets)
    BY <2>6, <2>8, DrawPays
  <2> QED BY <2>1, <2>7, <2>8, <2>9
<1>13. DOMAIN draws = 1 .. m
  BY <1>10 DEF DrawResults
<1>14. S = SettleDraws(bets, draws)
  BY <1>11, Zenon DEF GetCGLottoBetPayouts, all, results, draws, known
<1> HIDE DEF draws
<1>15. PaysOnly(S.payouts, DOMAIN bets) /\ DOMAIN S.bets = DOMAIN bets
  BY <1>12, <1>13, <1>14, DrawsPay
<1> QED BY <1>11, <1>15

\* The databases hold bets that were placed in them, under keys of their own.
BetsPlaced(v) ==
    /\ \A d \in BetDbs : PlacedIn(v, d)
    /\ \A k \in DOMAIN v.bets : IsBetRecord(v.bets[k])
    /\ \A k \in DOMAIN v.fieldBets : IsBetRecord(v.fieldBets[k])

\* A payout for a bet of another kind, or what a field bet records.
FieldPay(out, bets) == out.key \in DOMAIN bets /\ bets[out.key].completed /\ out.amount = bets[out.key].payout
OtherPay(out, v) == \E d \in BetDbs \ {"fieldBets"} : out.key \in DOMAIN v[d]

\* What GetBettingPayouts makes of all bets of v: the same bets, field bets that
\* are completed unchanged, and payouts as the field bets record them.
SettledAll(v, D) ==
    /\ \A d \in BetDbs : DOMAIN D.view[d] = DOMAIN v[d]
    /\ \A k \in DOMAIN v.bets : IsBetRecord(D.view.bets[k])
    /\ \A k \in DOMAIN v.fieldBets : D.view.fieldBets[k] = v.fieldBets[k] \/
            (~v.fieldBets[k].completed /\ D.view.fieldBets[k].completed /\ IsBetRecord(D.view.fieldBets[k]))
    /\ \A i \in DOMAIN D.payouts : D.payouts[i].to = "player" =>
            OtherPay(D.payouts[i], v) \/ FieldPay(D.payouts[i], D.view.fieldBets)

\* GetBettingPayouts does that.
LEMMA PayoutsSettleAll ==
    ASSUME Ordinary, Countable, NEW v, IsView(v), BetsPlaced(v),
           NEW last, last.txs \in Seq(Txs), last.proof \in Nat, IsSeq(last.vResultIDs), NEW h,
           NEW D, D = GetBettingPayouts(v, last, h)
    PROVE  SettledAll(v, D)
<1>0. /\ \A d \in BetDbs : IsFiniteSet(DOMAIN v[d]) /\ \A k \in DOMAIN v[d] : IsKey(k)
      /\ BetDbs = {"bets", "fieldBets", "chainGamesLottoBets", "quickGamesBets"}
  BY PlacedKey DEF BetsPlaced, PlacedIn, BetDbs
<1>1. PICK ids : ids = last.vResultIDs /\ IsSeq(ids)
  OBVIOUS
<1>2. PICK pl : pl = GetPLBetPayouts(v, ids, h)
  OBVIOUS
<1>3. PICK cg : cg = GetCGLottoBetPayouts(v, last, h)
  OBVIOUS
<1>4. PICK qg : qg = GetQuickGamesBetPayouts(v, last, h)
  OBVIOUS
<1>5. PICK fl : fl = IF h >= V4Start THEN GetFieldBetPayouts(v, ids, h) ELSE [bets |-> v.fieldBets, payouts |-> <<>>]
  OBVIOUS
<1>6. D = AllPayouts(v, pl, cg, qg, fl)
  BY <1>1, <1>2, <1>3, <1>4, <1>5, Zenon DEF GetBettingPayouts
<1>7. /\ PaysOnly(pl.payouts, DOMAIN v.bets) /\ DOMAIN pl.bets = DOMAIN v.bets
      /\ \A k \in DOMAIN v.bets : IsBetRecord(pl.bets[k])
  <2>1. IsFiniteSet(DOMAIN v.bets) /\ \A k \in DOMAIN v.bets : IsKey(k) /\ IsBetRecord(v.bets[k])
    BY <1>0 DEF BetsPlaced
  <2> QED BY <1>1, <1>2, <2>1, PlPaysOnly
<1>8. PaysOnly(cg.payouts, DOMAIN v.chainGamesLottoBets) /\ DOMAIN cg.bets = DOMAIN v.chainGamesLottoBets
  BY <1>0, <1>3, CgPaysOnly
<1>9. PaysOnly(qg.payouts, DOMAIN v.quickGamesBets) /\ DOMAIN qg.bets = DOMAIN v.quickGamesBets
  <2> DEFINE games == [k \in QuickGamesDue(v, h) |-> QuickGame(v.quickGamesBets[k], last.proof)]
  <2>1. PICK bets : bets = v.quickGamesBets
    OBVIOUS
  <2>2. qg = SettleQuickGames(bets, games, h)
    BY <1>4, <2>1, Zenon DEF GetQuickGamesBetPayouts
  <2>3. DOMAIN games \subseteq DOMAIN bets
    BY <2>1 DEF QuickGamesDue
  <2> HIDE DEF games
  <2>4. PaysOnly(qg.payouts, DOMAIN bets) /\ DOMAIN qg.bets = DOMAIN bets
    BY <1>0, <2>1, <2>2, <2>3, QgPaysOnly
  <2> QED BY <2>1, <2>4
<1>10. /\ IsSeq(fl.payouts) /\ DOMAIN fl.bets = DOMAIN v.fieldBets
       /\ \A k \in DOMAIN v.fieldBets : fl.bets[k] = v.fieldBets[k] \/
             (~v.fieldBets[k].completed /\ fl.bets[k].completed /\ IsBetRecord(fl.bets[k]))
       /\ \A i \in DOMAIN fl.payouts : FieldPay(fl.payouts[i], fl.bets)
  <2>1. CASE h >= V4Start
    <3> DEFINE pairs == [k \in DOMAIN v.fieldBets |-> FieldLegOdds(v.fieldBets[k], v)]
               offers == [k \in DOMAIN v.fieldBets |-> FieldQuotes(v.fieldBets[k])]
    <3>1. PICK js : js = (IF h - 1 >= V4Start THEN ids ELSE <<>>)
      OBVIOUS
    <3>2. IsSeq(js)
      BY <1>1, <3>1, PaysNobody DEF PaysOnly
    <3>3. PICK bets, results : bets = v.fieldBets /\ results = v.fieldResults
      OBVIOUS
    <3>4. fl = SettleResults(bets, results, js, h, pairs, offers)
      BY <1>5, <2>1, <3>1, <3>3, Zenon DEF GetFieldBetPayouts
    <3> HIDE DEF pairs, offers
    <3>5. IsFiniteSet(DOMAIN bets) /\ \A k \in DOMAIN bets : IsKey(k) /\ IsBetRecord(bets[k])
      BY <1>0, <3>3 DEF BetsPlaced
    <3>6. SettlesAsMarked(bets, results, fl)
      BY <3>2, <3>4, <3>5, SettledAsMarked
    <3> QED BY <3>3, <3>6 DEF SettlesAsMarked, FieldPay
  <2>2. CASE ~(h >= V4Start)
    <3>1. fl.bets = v.fieldBets /\ fl.payouts = <<>>
      BY <1>5, <2>2
    <3>2. IsSeq(fl.payouts) /\ DOMAIN fl.payouts = {}
      BY <3>1, PaysNobody DEF PaysOnly
    <3> QED BY <3>1, <3>2
  <2> QED BY <2>1, <2>2
<1>11. PICK A : A = pl.payouts \o cg.payouts
  OBVIOUS
<1>12. PICK B : B = A \o qg.payouts
  OBVIOUS
<1>13. PICK C : C = B \o fl.payouts
  OBVIOUS
<1>14. IsSeq(A) /\ \A i \in DOMAIN A : OneOf(A[i], pl.payouts) \/ OneOf(A[i], cg.payouts)
  BY <1>7, <1>8, <1>11, ConcatElements DEF PaysOnly
<1>15. IsSeq(B) /\ \A i \in DOMAIN B : OneOf(B[i], A) \/ OneOf(B[i], qg.payouts)
  BY <1>9, <1>12, <1>14, ConcatElements DEF PaysOnly
<1>16. IsSeq(C) /\ \A i \in DOMAIN C : OneOf(C[i], B) \/ OneOf(C[i], fl.payouts)
  BY <1>10, <1>13, <1>15, ConcatElements
<1>w. PICK w : w = [v EXCEPT !.bets = pl.bets, !.chainGamesLottoBets = cg.bets,
                             !.quickGamesBets = qg.bets, !.fieldBets = fl.bets]
  OBVIOUS
<1>17. D = [view |-> w, payouts |-> C]
  BY <1>6, <1>11, <1>12, <1>13, <1>w, Zenon DEF AllPayouts
<1>x. /\ w.bets = pl.bets /\ w.chainGamesLottoBets = cg.bets
      /\ w.quickGamesBets = qg.bets /\ w.fieldBets = fl.bets
  BY <1>w DEF IsView, Databases
<1>18. /\ D.payouts = C /\ D.view.bets = pl.bets /\ D.view.chainGamesLottoBets = cg.bets
       /\ D.view.quickGamesBets = qg.bets /\ D.view.fieldBets = fl.bets
  BY <1>17, <1>x
<1>19. ASSUME NEW i \in DOMAIN C, C[i].to = "player" PROVE OtherPay(C[i], v) \/ FieldPay(C[i], fl.bets)
  <2>1. \A x : OneOf(x, pl.payouts) /\ x.to = "player" => OtherPay(x, v)
    BY <1>0, <1>7 DEF OneOf, PaysOnly, OtherPay
  <2>2. \A x : OneOf(x, cg.payouts) /\ x.to = "player" => OtherPay(x, v)
    BY <1>0, <1>8 DEF OneOf, PaysOnly, OtherPay
  <2>3. \A x : OneOf(x, qg.payouts) /\ x.to = "player" => OtherPay(x, v)
    BY <1>0, <1>9 DEF OneOf, PaysOnly, OtherPay
  <2>4. \A x : OneOf(x, fl.payouts) => FieldPay(x, fl.bets)
    BY <1>10 DEF OneOf
  <2>5. \A x : OneOf(x, A) => OneOf(x, pl.payouts) \/ OneOf(x, cg.payouts)
    <3> SUFFICES ASSUME NEW x, OneOf(x, A) PROVE OneOf(x, pl.payouts) \/ OneOf(x, cg.payouts)
      OBVIOUS
    <3>1. PICK j \in DOMAIN A : x = A[j]
      BY DEF OneOf
    <3> QED BY <1>14, <3>1
  <2>6. \A x : OneOf(x, B) => OneOf(x, A) \/ OneOf(x, qg.payouts)
    <3> SUFFICES ASSUME NEW x, OneOf(x, B) PROVE OneOf(x, A) \/ OneOf(x, qg.payouts)
      OBVIOUS
    <3>1. PICK j \in DOMAIN B : x = B[j]
      BY DEF OneOf
    <3> QED BY <1>15, <3>1
  <2>7. OneOf(C[i], B) \/ OneOf(C[i], fl.payouts)
    BY <1>16
  <2> QED BY <1>19, <2>1, <2>2, <2>3, <2>4, <2>5, <2>6, <2>7
<1> QED BY <1>0, <1>7, <1>8, <1>9, <1>10, <1>18, <1>19 DEF SettledAll

-----------------------------------------------------------------------------
\* What outputs do to the bets, those of games and field results included.

\* What connecting an output does to the bets: at most one is added, where
\* outputs of its kind belong.
BetsWritten ==
    \A d \in BetDbs : cache'[d] = cache[d] \/
        \E b : /\ HasType(Tx, Makes[d])
               /\ d \in {"bets", "fieldBets"} => Saves(Tx) /\ IsBetRecord(b)
               /\ cache'[d] = DbWrite(cache[d], BetKey, b)

\* What disconnecting one does: bets are erased, field bets for sure.
BetsErased ==
    /\ \A d \in BetDbs : DOMAIN cache'[d] \subseteq DOMAIN cache[d]
                         /\ \A k \in DOMAIN cache'[d] : cache'[d][k] = cache[d][k]
    /\ Keys("fieldBets", Tx, TipHeight) \cap DOMAIN cache'.fieldBets = {}

\* A new bet has its fields.
LEMMA NewBetRecord ==
    ASSUME NEW amount, NEW legs, NEW locked
    PROVE  IsBetRecord(NewBet(amount, legs, locked))
BY DEF NewBet, IsBetRecord, BetFields

\* The outputs that place bets.
LEMMA BetMakers ==
    /\ Makes["bets"] = {"plBet", "plParlayBet"} /\ Makes["fieldBets"] = {"fBet", "fParlayBet"}
    /\ Makes["chainGamesLottoBets"] = {"cgBet"} /\ Makes["quickGamesBets"] = {"qgBet"}
BY DEF Makes, Dbs, BetDbs

\* The view that a step leaves, but for an undo record.
LeftAs(c) == Advance(c) \/ (\E e : AdvanceWithResult(c, e)) \/ (\E u : AdvanceWithUndo(c, u))

\* A record is not one of the bets.
LEMMA LeftBets ==
    ASSUME NEW c, IsView(c), LeftAs(c), mode' # "failed"
    PROVE  \A d \in BetDbs : cache'[d] = c[d]
<1>1. CASE Advance(c) \/ \E e : AdvanceWithResult(c, e)
  BY <1>1 DEF Advance, AdvanceWithResult
<1>2. ASSUME NEW u, AdvanceWithUndo(c, u) PROVE \A d \in BetDbs : cache'[d] = c[d]
  <2>1. cache' = [c EXCEPT !.undos = Put(c.undos, UndoKey, [height |-> BlkHeight, vUndos |-> u])]
    BY <1>2 DEF AdvanceWithUndo, Advance, Abort
  <2> QED BY <2>1 DEF IsView, BetDbs, Databases
<1> QED BY <1>1, <1>2 DEF LeftAs

\* A handler that writes elsewhere.
LEMMA WroteElse ==
    ASSUME TypeOK, mode' # "failed", NEW e \in Databases \ BetDbs, NEW x,
           LeftAs(cache) \/ LeftAs([cache EXCEPT ![e] = x])
    PROVE  BetsWritten
<1> DEFINE c == [cache EXCEPT ![e] = x]
<1>1. IsView(cache) /\ IsView(c)
  BY ExceptView DEF TypeOK
<1>2. \A d \in BetDbs : c[d] = cache[d]
  BY DEF TypeOK, IsView, BetDbs, Databases
<1> HIDE DEF c
<1>3. CASE LeftAs(cache)
  BY <1>1, <1>3, LeftBets DEF BetsWritten
<1>4. CASE LeftAs(c)
  BY <1>1, <1>2, <1>4, LeftBets DEF BetsWritten
<1> QED BY <1>3, <1>4 DEF c

\* A handler that places a bet.
LEMMA WroteBet ==
    ASSUME TypeOK, mode' # "failed", NEW e \in Databases \ BetDbs, NEW x, NEW b,
           NEW d \in BetDbs, HasType(Tx, Makes[d]),
           d \in {"bets", "fieldBets"} => Saves(Tx) /\ IsBetRecord(b),
           NEW c, c = [cache EXCEPT ![e] = x], NEW f, f = [c EXCEPT ![d] = DbWrite(cache[d], BetKey, b)],
           LeftAs(f)
    PROVE  BetsWritten
<1>1. IsView(c) /\ IsView(f)
  BY ExceptView DEF TypeOK
<1>2. \A o \in BetDbs : c[o] = cache[o]
  BY DEF TypeOK, IsView, BetDbs, Databases
<1>3. \A o \in BetDbs : f[o] = IF o = d THEN DbWrite(cache[d], BetKey, b) ELSE cache[o]
  BY <1>1, <1>2 DEF IsView, BetDbs, Databases
<1>4. \A o \in BetDbs : cache'[o] = f[o]
  BY <1>1, LeftBets
<1> QED BY <1>3, <1>4 DEF BetsWritten

\* Outputs about peerless events.
LEMMA PeerlessWrites ==
    ASSUME Ordinary, TypeOK, mode = "connect", mode' # "failed", PeerlessStep
    PROVE  BetsWritten
<1>n. ASSUME NEW type, Undoing(type) PROVE FALSE
  BY <1>n DEF Undoing, Handles
<1>0. {"events", "results", "mappings", "undos"} \subseteq Databases \ BetDbs /\ "bets" \in BetDbs
  BY DEF Databases, BetDbs
<1>e. ASSUME NEW e \in Databases \ BetDbs, LeftAs(cache) \/ \E x : LeftAs([cache EXCEPT ![e] = x])
      PROVE  BetsWritten
  BY <1>e, WroteElse
<1>b. ASSUME NEW type \in {"plBet", "plParlayBet"}, Processing(type), type = "plParlayBet" => Out.legs # <<>>,
             NEW x, NEW b, IsBetRecord(b),
             LeftAs([cache EXCEPT !.events = x, !.bets = DbWrite(cache.bets, BetKey, b)])
      PROVE  BetsWritten
  <2>1. First(Tx).type = type /\ Out = First(Tx)
    BY <1>b, AtProcessing
  <2>2. HasType(Tx, Makes["bets"]) /\ Saves(Tx)
    BY <1>b, <2>1, BetMakers DEF HasType, Saves, RecordTypes
  <2>3. PICK c : c = [cache EXCEPT !["events"] = x]
    OBVIOUS
  <2>4. PICK f : f = [c EXCEPT !["bets"] = DbWrite(cache["bets"], BetKey, b)]
    OBVIOUS
  <2>5. LeftAs(f)
    BY <1>b, <2>3, <2>4
  <2> QED BY <1>0, <1>b, <2>2, <2>3, <2>4, <2>5, WroteBet
<1>1. CASE ProcessPlBet
  <2>1. Processing("plBet")
    BY <1>1 DEF ProcessPlBet
  <2>2. LeftAs(cache) \/ \E x, l, u : AdvanceWithUndo([cache EXCEPT !.events = x,
            !.bets = DbWrite(cache.bets, BetKey, NewBet(Out.amount, Out.legs, l))], u)
    BY <1>1, Zenon DEF ProcessPlBet, LeftAs
  <2>3. CASE LeftAs(cache)
    BY <1>0, <1>e, <2>3
  <2>4. ASSUME NEW x, NEW l, NEW u, AdvanceWithUndo([cache EXCEPT !.events = x,
            !.bets = DbWrite(cache.bets, BetKey, NewBet(Out.amount, Out.legs, l))], u)
        PROVE  BetsWritten
    <3>1. PICK b : b = NewBet(Out.amount, Out.legs, l)
      OBVIOUS
    <3>2. IsBetRecord(b)
      BY <3>1, NewBetRecord
    <3>3. LeftAs([cache EXCEPT !.events = x, !.bets = DbWrite(cache.bets, BetKey, b)])
      BY <2>4, <3>1, Zenon DEF LeftAs
    <3> QED BY <1>b, <2>1, <3>2, <3>3
  <2> QED BY <2>2, <2>3, <2>4
<1>2. CASE ProcessPlParlayBet
  <2>1. Processing("plParlayBet")
    BY <1>2 DEF ProcessPlParlayBet
  <2>2. LeftAs(cache) \/ (Out.legs # <<>> /\ \E x, l, u : AdvanceWithUndo([cache EXCEPT !.events = x,
            !.bets = DbWrite(cache.bets, BetKey, NewBet(Out.amount, Out.legs, l))], u))
    BY <1>2, Zenon DEF ProcessPlParlayBet, LeftAs
  <2>3. CASE LeftAs(cache)
    BY <1>0, <1>e, <2>3
  <2>4. ASSUME Out.legs # <<>>, NEW x, NEW l, NEW u, AdvanceWithUndo([cache EXCEPT !.events = x,
            !.bets = DbWrite(cache.bets, BetKey, NewBet(Out.amount, Out.legs, l))], u)
        PROVE  BetsWritten
    <3>1. PICK b : b = NewBet(Out.amount, Out.legs, l)
      OBVIOUS
    <3>2. IsBetRecord(b)
      BY <3>1, NewBetRecord
    <3>3. LeftAs([cache EXCEPT !.events = x, !.bets = DbWrite(cache.bets, BetKey, b)])
      BY <2>4, <3>1, Zenon DEF LeftAs
    <3> QED BY <1>b, <2>1, <2>4, <3>2, <3>3
  <2> QED BY <2>2, <2>3, <2>4
<1>3. CASE ProcessMapping
  <2>1. LeftAs(cache) \/ \E x : LeftAs([cache EXCEPT !.mappings = x])
    BY <1>3, Zenon DEF ProcessMapping, LeftAs
  <2> QED BY <1>0, <1>e, <2>1
<1>4. CASE ProcessPlEvent
  <2>1. LeftAs(cache) \/ \E x : LeftAs([cache EXCEPT !.events = x])
    BY <1>4, Zenon DEF ProcessPlEvent, LeftAs
  <2> QED BY <1>0, <1>e, <2>1
<1>5. CASE ProcessPlResult
  <2>1. LeftAs(cache) \/ \E x : LeftAs([cache EXCEPT !.results = x])
    BY <1>5, Zenon DEF ProcessPlResult, LeftAs
  <2> QED BY <1>0, <1>e, <2>1
<1>6. CASE ProcessPlZeroing
  <2>1. LeftAs(cache) \/ \E x : LeftAs([cache EXCEPT !.events = x])
    BY <1>6, Zenon DEF ProcessPlZeroing, LeftAs
  <2> QED BY <1>0, <1>e, <2>1
<1>7. ASSUME NEW type, ProcessPlUpdate(type) PROVE BetsWritten
  <2>1. LeftAs(cache) \/ \E x : LeftAs([cache EXCEPT !.events = x])
    BY <1>7, Zenon DEF ProcessPlUpdate, LeftAs
  <2> QED BY <1>0, <1>e, <2>1
<1> QED BY <1>n, <1>1, <1>2, <1>3, <1>4, <1>5, <1>6, <1>7
        DEF PeerlessStep, UndoPeerlessBet, UndoMapping, UndoPlEvent, UndoPlResult, UndoPlZeroing, UndoPlUpdate

\* Outputs about field events.
LEMMA FieldWrites ==
    ASSUME Ordinary, TypeOK, mode = "connect", mode' # "failed", FieldStep
    PROVE  BetsWritten
<1>n. ASSUME NEW type, Undoing(type) PROVE FALSE
  BY <1>n DEF Undoing, Handles
<1>0. {"fieldEvents", "fieldResults"} \subseteq Databases \ BetDbs /\ "fieldBets" \in BetDbs
  BY DEF Databases, BetDbs
<1>e. ASSUME NEW e \in Databases \ BetDbs, LeftAs(cache) \/ \E x : LeftAs([cache EXCEPT ![e] = x])
      PROVE  BetsWritten
  BY <1>e, WroteElse
<1>b. ASSUME NEW type \in {"fBet", "fParlayBet"}, Processing(type), type = "fParlayBet" => Out.legs # <<>>,
             NEW x, NEW l, NEW u, AdvanceWithUndo([cache EXCEPT !.fieldEvents = x,
                 !.fieldBets = DbWrite(cache.fieldBets, BetKey, NewBet(Out.amount, Out.legs, l))], u)
      PROVE  BetsWritten
  <2>1. First(Tx).type = type /\ Out = First(Tx)
    BY <1>b, AtProcessing
  <2>2. HasType(Tx, Makes["fieldBets"]) /\ Saves(Tx)
    BY <1>b, <2>1, BetMakers DEF HasType, Saves, RecordTypes
  <2>3. PICK b : b = NewBet(Out.amount, Out.legs, l)
    OBVIOUS
  <2>4. IsBetRecord(b)
    BY <2>3, NewBetRecord
  <2>5. PICK c : c = [cache EXCEPT !["fieldEvents"] = x]
    OBVIOUS
  <2>6. PICK f : f = [c EXCEPT !["fieldBets"] = DbWrite(cache["fieldBets"], BetKey, b)]
    OBVIOUS
  <2>7. LeftAs([cache EXCEPT !.fieldEvents = x, !.fieldBets = DbWrite(cache.fieldBets, BetKey, b)])
    BY <1>b, <2>3, Zenon DEF LeftAs
  <2>8. LeftAs(f)
    BY <2>5, <2>6, <2>7
  <2> QED BY <1>0, <2>2, <2>4, <2>5, <2>6, <2>8, WroteBet
<1>1. CASE ProcessFBet
  <2>1. Processing("fBet")
    BY <1>1 DEF ProcessFBet
  <2>2. LeftAs(cache) \/ \E x, l, u : AdvanceWithUndo([cache EXCEPT !.fieldEvents = x,
            !.fieldBets = DbWrite(cache.fieldBets, BetKey, NewBet(Out.amount, Out.legs, l))], u)
    BY <1>1, Zenon DEF ProcessFBet, LeftAs
  <2> QED BY <1>0, <1>b, <1>e, <2>1, <2>2
<1>2. CASE ProcessFParlayBet
  <2>1. Processing("fParlayBet")
    BY <1>2 DEF ProcessFParlayBet
  <2>2. LeftAs(cache) \/ (Out.legs # <<>> /\ \E x, l, u : AdvanceWithUndo([cache EXCEPT !.fieldEvents = x,
            !.fieldBets = DbWrite(cache.fieldBets, BetKey, NewBet(Out.amount, Out.legs, l))], u))
    BY <1>2, Zenon DEF ProcessFParlayBet, LeftAs
  <2> QED BY <1>0, <1>b, <1>e, <2>1, <2>2
<1>3. CASE ProcessFEvent
  <2>1. LeftAs(cache) \/ \E x : LeftAs([cache EXCEPT !.fieldEvents = x])
    BY <1>3, Zenon DEF ProcessFEvent, LeftAs
  <2> QED BY <1>0, <1>e, <2>1
<1>4. CASE ProcessFResult
  <2>1. LeftAs(cache) \/ \E x : LeftAs([cache EXCEPT !.fieldResults = x])
    BY <1>4, Zenon DEF ProcessFResult, LeftAs
  <2> QED BY <1>0, <1>e, <2>1
<1>5. ASSUME NEW type, ProcessFUpdate(type) PROVE BetsWritten
  <2>1. LeftAs(cache) \/ \E x : LeftAs([cache EXCEPT !.fieldEvents = x])
    BY <1>5, Zenon DEF ProcessFUpdate, LeftAs
  <2> QED BY <1>0, <1>e, <2>1
<1> QED BY <1>n, <1>1, <1>2, <1>3, <1>4, <1>5 DEF FieldStep, UndoFieldBet, UndoFEvent, UndoFResult, UndoFUpdate

\* Outputs about games.
LEMMA GamesWrite ==
    ASSUME Ordinary, TypeOK, mode = "connect", mode' # "failed", GamesStep
    PROVE  BetsWritten
<1>n. ASSUME NEW type, Undoing(type) PROVE FALSE
  BY <1>n DEF Undoing, Handles
<1>0. /\ {"chainGamesLottoEvents", "chainGamesLottoResults"} \subseteq Databases \ BetDbs
      /\ {"chainGamesLottoBets", "quickGamesBets"} \subseteq BetDbs
  BY DEF Databases, BetDbs
<1>e. ASSUME NEW e \in Databases \ BetDbs, LeftAs(cache) \/ \E x : LeftAs([cache EXCEPT ![e] = x])
      PROVE  BetsWritten
  BY <1>e, WroteElse
<1>b. ASSUME NEW d \in {"chainGamesLottoBets", "quickGamesBets"}, NEW type \in Makes[d], Processing(type),
             NEW b, Advance([cache EXCEPT ![d] = DbWrite(cache[d], BetKey, b)])
      PROVE  BetsWritten
  <2>1. First(Tx).type = type
    BY <1>b, AtProcessing
  <2>2. HasType(Tx, Makes[d])
    BY <2>1 DEF HasType
  <2>3. PICK c : c = [cache EXCEPT ![d] = DbWrite(cache[d], BetKey, b)]
    OBVIOUS
  <2>4. \A o \in BetDbs : c[o] = IF o = d THEN DbWrite(cache[d], BetKey, b) ELSE cache[o]
    BY <2>3 DEF TypeOK, IsView, BetDbs, Databases
  <2>5. cache' = c
    BY <1>b, <2>3 DEF Advance
  <2> QED BY <2>2, <2>4, <2>5 DEF BetsWritten
<1>1. CASE ProcessCgBet
  <2>1. Processing("cgBet") /\ "cgBet" \in Makes["chainGamesLottoBets"]
    BY <1>1, BetMakers DEF ProcessCgBet
  <2>2. LeftAs(cache) \/ \E b : Advance([cache EXCEPT !.chainGamesLottoBets = DbWrite(cache.chainGamesLottoBets, BetKey, b)])
    BY <1>1, Zenon DEF ProcessCgBet, LeftAs
  <2> QED BY <1>0, <1>b, <1>e, <2>1, <2>2
<1>2. CASE ProcessQgBet
  <2>1. Processing("qgBet") /\ "qgBet" \in Makes["quickGamesBets"]
    BY <1>2, BetMakers DEF ProcessQgBet
  <2>2. LeftAs(cache) \/ \E b : Advance([cache EXCEPT !.quickGamesBets = DbWrite(cache.quickGamesBets, BetKey, b)])
    BY <1>2, Zenon DEF ProcessQgBet, LeftAs
  <2> QED BY <1>0, <1>b, <1>e, <2>1, <2>2
<1>3. CASE ProcessCgEvent
  <2>1. LeftAs(cache) \/ \E x : LeftAs([cache EXCEPT !.chainGamesLottoEvents = x])
    BY <1>3, Zenon DEF ProcessCgEvent, LeftAs
  <2> QED BY <1>0, <1>e, <2>1
<1>4. CASE ProcessCgResult
  <2>1. LeftAs(cache) \/ \E x : LeftAs([cache EXCEPT !.chainGamesLottoResults = x])
    BY <1>4, Zenon DEF ProcessCgResult, LeftAs
  <2> QED BY <1>0, <1>e, <2>1
<1> QED BY <1>n, <1>1, <1>2, <1>3, <1>4 DEF GamesStep, UndoCgBet, UndoQgBet, UndoCgEvent, UndoCgResult

\* Undoing leaves the bets alone or erases one.
LEMMA KeptBets ==
    ASSUME TypeOK, NEW e \in Databases \ BetDbs, NEW x, NEW c, IsView(c), \A d \in BetDbs : c[d] = cache[d],
           Keys("fieldBets", Tx, TipHeight) = {},
           cache' = c \/ cache' = [c EXCEPT ![e] = x]
    PROVE  BetsErased
<1>1. \A d \in BetDbs : cache'[d] = cache[d]
  BY DEF IsView, BetDbs, Databases
<1> QED BY <1>1 DEF BetsErased

\* Erasing the bet of the output.
LEMMA ErasedBet ==
    ASSUME TypeOK, NEW d \in BetDbs, NEW c, IsView(c), \A o \in BetDbs : c[o] = cache[o],
           Keys("fieldBets", Tx, TipHeight) \subseteq IF d = "fieldBets" THEN {BetKey} ELSE {},
           cache' = [c EXCEPT ![d] = DbErase(cache[d], BetKey)]
    PROVE  BetsErased
<1>1. \A o \in BetDbs : cache'[o] = IF o = d THEN DbErase(cache[d], BetKey) ELSE cache[o]
  BY DEF IsView, BetDbs, Databases
<1>2. DOMAIN DbErase(cache[d], BetKey) = DOMAIN cache[d] \ {BetKey}
      /\ \A k \in DOMAIN cache[d] \ {BetKey} : DbErase(cache[d], BetKey)[k] = cache[d][k]
  BY DEF DbErase, Restrict
<1>3. ASSUME NEW o \in BetDbs
      PROVE  DOMAIN cache'[o] \subseteq DOMAIN cache[o] /\ \A k \in DOMAIN cache'[o] : cache'[o][k] = cache[o][k]
  BY <1>1, <1>2
<1>4. Keys("fieldBets", Tx, TipHeight) \cap DOMAIN cache'.fieldBets = {}
  <2>1. CASE d = "fieldBets"
    BY <1>1, <1>2, <2>1
  <2> QED BY <2>1
<1> QED BY <1>3, <1>4 DEF BetsErased

\* Only a field bet has an entry among the field bets.
LEMMA NoFieldKey ==
    ASSUME Ordinary, TypeOK, UInv, NEW type, Undoing(type), type \notin {"fBet", "fParlayBet"}
    PROVE  Keys("fieldBets", Tx, TipHeight) = {}
<1>1. First(Tx).type = type
  BY AtUndoing
<1> QED BY <1>1, BetMakers DEF Keys, HasType

\* Restoring events leaves the bets.
LEMMA RevertedBets ==
    ASSUME TypeOK, NEW c, c = UndoEventChanges(cache, UndoKey)
    PROVE  IsView(c) /\ \A d \in BetDbs : c[d] = cache[d]
<1>1. \E x, y, z : c = [cache EXCEPT !.events = x, !.fieldEvents = y, !.undos = z]
  BY Zenon DEF UndoEventChanges
<1> QED BY <1>1 DEF TypeOK, IsView, Databases, BetDbs

\* Every step of DisconnectBlock that handles an output.
LEMMA Erases ==
    ASSUME Ordinary, TypeOK, UInv, mode = "disconnect", mode' # "failed", PeerlessStep \/ FieldStep \/ GamesStep
    PROVE  BetsErased
<1>n. ASSUME NEW type, Processing(type) PROVE FALSE
  BY <1>n DEF Processing, Handles
<1>c. IsView(cache)
  BY DEF TypeOK
<1>d. /\ {"events", "fieldEvents", "results", "mappings", "fieldResults", "chainGamesLottoEvents",
          "chainGamesLottoResults"} \subseteq Databases \ BetDbs
      /\ {"bets", "fieldBets", "chainGamesLottoBets", "quickGamesBets"} \subseteq BetDbs
  BY DEF Databases, BetDbs
<1>r. PICK r : r = UndoEventChanges(cache, UndoKey)
  OBVIOUS
<1>s. IsView(r) /\ \A d \in BetDbs : r[d] = cache[d]
  BY <1>r, RevertedBets
<1>k. ASSUME NEW type, Undoing(type), type \notin {"fBet", "fParlayBet"}, NEW e \in Databases \ BetDbs,
             cache' = cache \/ cache' = r \/ \E x : cache' = [cache EXCEPT ![e] = x]
      PROVE  BetsErased
  <2>1. Keys("fieldBets", Tx, TipHeight) = {}
    BY <1>k, NoFieldKey
  <2>2. CASE cache' = r
    BY <1>d, <1>s, <2>1, <2>2, KeptBets
  <2>3. CASE cache' = cache \/ \E x : cache' = [cache EXCEPT ![e] = x]
    <3>1. PICK c : c = cache
      OBVIOUS
    <3>2. IsView(c) /\ \A d \in BetDbs : c[d] = cache[d]
      BY <1>c, <3>1
    <3>3. PICK x : cache' = c \/ cache' = [c EXCEPT ![e] = x]
      BY <2>3, <3>1
    <3> QED BY <2>1, <3>2, <3>3, KeptBets
  <2> QED BY <1>k, <2>2, <2>3
<1>b. ASSUME NEW type, Undoing(type), type \notin {"fBet", "fParlayBet"}, NEW d \in BetDbs,
             NEW c, c = r \/ c = cache, cache' = [c EXCEPT ![d] = DbErase(cache[d], BetKey)]
      PROVE  BetsErased
  <2>1. Keys("fieldBets", Tx, TipHeight) = {}
    BY <1>b, NoFieldKey
  <2>2. IsView(c) /\ \A o \in BetDbs : c[o] = cache[o]
    BY <1>b, <1>c, <1>s
  <2> QED BY <1>b, <2>1, <2>2, ErasedBet
<1>1. ASSUME NEW type \in {"plBet", "plParlayBet"}, UndoPeerlessBet(type) PROVE BetsErased
  <2>1. Undoing(type)
    BY <1>1 DEF UndoPeerlessBet
  <2>2. cache' = cache \/ cache' = [r EXCEPT !.bets = DbErase(r.bets, BetKey)]
    BY <1>1, <1>r DEF UndoPeerlessBet, RevertOr, Advance, Abort
  <2>3. CASE cache' = cache
    BY <1>d, <1>k, <2>1, <2>3
  <2>4. CASE cache' = [r EXCEPT !.bets = DbErase(r.bets, BetKey)]
    <3>1. r.bets = cache.bets
      BY <1>d, <1>s
    <3> QED BY <1>b, <1>d, <2>1, <2>4, <3>1
  <2> QED BY <2>2, <2>3, <2>4
<1>2. ASSUME UndoMapping \/ UndoPlEvent \/ UndoPlResult \/ UndoFEvent \/ UndoFResult \/ UndoCgEvent \/ UndoCgResult
      PROVE  BetsErased
  <2>1. CASE UndoMapping
    <3>1. Undoing("mapping") /\ \E x : cache' = [cache EXCEPT !.mappings = x]
      BY <2>1, Zenon DEF UndoMapping, Advance, Abort
    <3> QED BY <1>d, <1>k, <3>1
  <2>2. CASE UndoPlEvent
    <3>1. Undoing("plEvent") /\ \E x : cache' = [cache EXCEPT !.events = x]
      BY <2>2, Zenon DEF UndoPlEvent, Advance
    <3> QED BY <1>d, <1>k, <3>1
  <2>3. CASE UndoPlResult
    <3>1. Undoing("plResult") /\ \E x : cache' = [cache EXCEPT !.results = x]
      BY <2>3, Zenon DEF UndoPlResult, Advance
    <3> QED BY <1>d, <1>k, <3>1
  <2>4. CASE UndoFEvent
    <3>1. Undoing("fEvent") /\ (cache' = cache \/ \E x : cache' = [cache EXCEPT !.fieldEvents = x])
      BY <2>4, Zenon DEF UndoFEvent, Advance
    <3> QED BY <1>d, <1>k, <3>1
  <2>5. CASE UndoFResult
    <3>1. Undoing("fResult") /\ (cache' = cache \/ \E x : cache' = [cache EXCEPT !.fieldResults = x])
      BY <2>5, Zenon DEF UndoFResult, Advance
    <3> QED BY <1>d, <1>k, <3>1
  <2>6. CASE UndoCgEvent
    <3>1. Undoing("cgEvent") /\ \E x : cache' = [cache EXCEPT !.chainGamesLottoEvents = x]
      BY <2>6, Zenon DEF UndoCgEvent, EraseOr, Advance, Abort
    <3> QED BY <1>d, <1>k, <3>1
  <2>7. CASE UndoCgResult
    <3>1. Undoing("cgResult") /\ \E x : cache' = [cache EXCEPT !.chainGamesLottoResults = x]
      BY <2>7, Zenon DEF UndoCgResult, EraseOr, Advance, Abort
    <3> QED BY <1>d, <1>k, <3>1
  <2> QED BY <1>2, <2>1, <2>2, <2>3, <2>4, <2>5, <2>6, <2>7
<1>3. ASSUME UndoPlZeroing \/ \E type \in PlUpdates : UndoPlUpdate(type) PROVE BetsErased
  <2>1. \E type \in PlUpdates \cup {"plZeroing"} : Undoing(type)
    BY <1>3 DEF UndoPlZeroing, UndoPlUpdate
  <2>2. cache' = cache \/ cache' = r
    BY <1>3, <1>r DEF UndoPlZeroing, UndoPlUpdate, RevertOr, Advance, Abort
  <2>3. \A type \in PlUpdates \cup {"plZeroing"} : type \notin {"fBet", "fParlayBet"}
    BY DEF PlUpdates
  <2> QED BY <1>d, <1>k, <2>1, <2>2, <2>3
<1>4. ASSUME NEW type \in FieldUpdates, UndoFUpdate(type) PROVE BetsErased
  <2>1. Undoing(type) /\ (cache' = cache \/ cache' = r)
    BY <1>4, <1>r DEF UndoFUpdate, RevertOr, Advance, Abort
  <2>2. type \notin {"fBet", "fParlayBet"}
    BY DEF FieldUpdates
  <2> QED BY <1>d, <1>k, <2>1, <2>2
<1>5. CASE UndoCgBet
  <2>1. Undoing("cgBet")
    BY <1>5 DEF UndoCgBet
  <2>2. cache' = cache \/ cache' = [cache EXCEPT !.chainGamesLottoBets = DbErase(cache.chainGamesLottoBets, BetKey)]
    BY <1>5, Zenon DEF UndoCgBet, EraseOr, Advance, Abort
  <2> QED BY <1>b, <1>d, <1>k, <2>1, <2>2
<1>6. CASE UndoQgBet
  <2>1. Undoing("qgBet")
    BY <1>6 DEF UndoQgBet
  <2>2. cache' = [cache EXCEPT !.quickGamesBets = DbErase(cache.quickGamesBets, BetKey)]
    BY <1>6, Zenon DEF UndoQgBet, EraseOr, Advance, Abort
  <2> QED BY <1>b, <1>d, <2>1, <2>2
<1>7. ASSUME NEW type \in {"fBet", "fParlayBet"}, UndoFieldBet(type) PROVE BetsErased
  <2>1. Undoing(type) /\ type \in V4Types
    BY <1>7 DEF UndoFieldBet, V4Types
  <2>2. /\ AtOutput /\ First(Tx).type = type /\ Out = First(Tx) /\ Tx \in Txs
        /\ BlkHeight = TipHeight /\ Allowed(Tx, TipHeight)
        /\ \A e : NamesFieldEvent(Tx, e) => e \in DOMAIN cache.fieldEvents
    BY <2>1, AtUndoing
  <2>3. Keys("fieldBets", Tx, TipHeight) \subseteq {BetKey}
    BY <1>d, <2>2, AtTx DEF Keys, Key, BetKey
  <2>4. CASE Out.legs = <<>>
    <3>1. type # "fBet"
      <4>1. type = "fBet" => DOMAIN Out.legs = {1}
        BY <2>2 DEF Ordinary, HasType
      <4>2. DOMAIN Out.legs = {}
        BY <2>4
      <4> QED BY <4>1, <4>2
    <3>2. ~Saves(Tx)
      BY <2>2, <2>4, <3>1 DEF Saves, HasType
    <3>3. Keys("fieldBets", Tx, TipHeight) = {}
      BY <3>2 DEF Keys
    <3>4. cache' = cache
      BY <1>7, <2>4 DEF UndoFieldBet, Advance
    <3>5. PICK c : c = cache /\ IsView(c) /\ \A d \in BetDbs : c[d] = cache[d]
      BY <1>c
    <3> QED BY <1>d, <3>3, <3>4, <3>5, KeptBets
  <2>5. CASE Out.legs # <<>>
    <3>1. BlkHeight >= V4Start
      BY <2>1, <2>2, ChainSeq, HeightsAssumption DEF Allowed, HasType
    <3>2. \A i \in DOMAIN Out.legs : Out.legs[i].event \in DOMAIN cache.fieldEvents
      BY <2>2 DEF NamesFieldEvent, HasType, OnLegs
    <3>3. cache' = [r EXCEPT !.fieldBets = DbErase(r.fieldBets, BetKey)]
      BY <1>7, <1>r, <2>5, <3>1, <3>2 DEF UndoFieldBet, RevertOr, Advance, Abort
    <3>4. r.fieldBets = cache.fieldBets
      BY <1>d, <1>s
    <3>5. PICK d \in BetDbs : d = "fieldBets"
      BY <1>d
    <3>6. Keys("fieldBets", Tx, TipHeight) \subseteq IF d = "fieldBets" THEN {BetKey} ELSE {}
      BY <2>3, <3>5
    <3>7. cache' = [r EXCEPT ![d] = DbErase(cache[d], BetKey)]
      BY <3>3, <3>4, <3>5
    <3> QED BY <1>s, <3>6, <3>7, ErasedBet
  <2> QED BY <2>4, <2>5
<1> QED BY <1>n, <1>1, <1>2, <1>3, <1>4, <1>5, <1>6, <1>7
        DEF PeerlessStep, FieldStep, GamesStep, ProcessPlBet, ProcessPlParlayBet, ProcessMapping, ProcessPlEvent,
            ProcessPlResult, ProcessPlZeroing, ProcessPlUpdate, ProcessFBet, ProcessFParlayBet, ProcessFEvent,
            ProcessFResult, ProcessFUpdate, ProcessCgBet, ProcessQgBet, ProcessCgEvent, ProcessCgResult

-----------------------------------------------------------------------------
\* What is paid for a field bet is what it records.

\* Payouts of a block at height h: for bets of another kind, or for field bets
\* of earlier blocks.
PaysPlaced(P, h) ==
    \A i \in DOMAIN P : P[i].to = "player" =>
        \/ \E d \in BetDbs \ {"fieldBets"} : PlacedAs(P[i].key, d)
        \/ PlacedAs(P[i].key, "fieldBets") /\ P[i].key[1] < h

\* What is paid for one of these field bets is what it records.
Agrees(P, bets) ==
    \A i \in DOMAIN P : P[i].to = "player" /\ P[i].key \in DOMAIN bets =>
        bets[P[i].key].completed /\ P[i].amount = bets[P[i].key].payout

\* A field bet is that of a handled transaction.
BetsOwned(v) ==
    \A k \in DOMAIN v.fieldBets : \E tx \in Txs : Handled(tx, k[1]) /\ k \in Keys("fieldBets", tx, k[1])

\* The payouts of the chain are what the field bets of v record.
ChainAgrees(v) == \A i \in DOMAIN chain : Agrees(chain[i].payouts, v.fieldBets)

\* What the payouts of a block need to know of it.
PayOK(block, h) == block.proof \in Nat /\ IsSeq(block.vResultIDs) /\ PaysPlaced(block.payouts, h)

(* The inductive invariant of the field bets.  Whatever is settled, disconnected
   and settled again: a bet that the chain pays is completed with that amount.
   UndoBettingTx does not open field bets, so that nothing says when a bet was
   settled; but a completed bet is not settled again, a block pays for bets of
   earlier blocks only, and no bet is in two databases. *)
FieldInv == mode # "failed" =>
    /\ BetsPlaced(cache) /\ BetsOwned(cache) /\ ChainAgrees(cache)
    /\ \A i \in DOMAIN chain : PayOK(chain[i], Height(i))
    /\ mode = "connect" =>
         /\ BetsPlaced(view) /\ BetsOwned(view) /\ ChainAgrees(view)
         /\ PayOK(blk, BlkHeight) /\ Agrees(blk.payouts, cache.fieldBets)

\* A new bet is not paid yet.
LEMMA AgreesMore ==
    ASSUME Ordinary, NEW P, NEW bets, Agrees(P, bets), NEW h \in Nat, NEW g \in Nat, g <= h, PaysPlaced(P, g),
           NEW tx \in Txs, HasType(tx, Makes["fieldBets"]), NEW b, NEW k, k = <<h, tx.id, 1>>
    PROVE  Agrees(P, DbWrite(bets, k, b))
<1>1. PlacedAs(k, "fieldBets") /\ k[1] = h /\ "fieldBets" \in BetDbs
  BY DEF PlacedAs, BetDbs
<1>2. ASSUME NEW i \in DOMAIN P, P[i].to = "player", P[i].key = k PROVE FALSE
  <2>1. CASE \E d \in BetDbs \ {"fieldBets"} : PlacedAs(P[i].key, d)
    BY <1>1, <1>2, <2>1, PlacedOnce
  <2>2. CASE P[i].key[1] < g
    BY <1>1, <1>2, <2>2
  <2> QED BY <1>2, <2>1, <2>2 DEF PaysPlaced
<1> QED BY <1>2 DEF Agrees, DbWrite, Put

\* Nor is one paid that is gone.
LEMMA AgreesLess ==
    ASSUME NEW P, NEW bets, Agrees(P, bets), NEW b, DOMAIN b \subseteq DOMAIN bets, \A k \in DOMAIN b : b[k] = bets[k]
    PROVE  Agrees(P, b)
BY DEF Agrees

\* Settling leaves what is paid already.
LEMMA AgreesSettled ==
    ASSUME NEW P, NEW v, Agrees(P, v.fieldBets), NEW D, SettledAll(v, D)
    PROVE  Agrees(P, D.view.fieldBets)
<1>1. "fieldBets" \in BetDbs
  BY DEF BetDbs
<1>2. DOMAIN D.view.fieldBets = DOMAIN v.fieldBets
  BY <1>1 DEF SettledAll
<1>3. \A k \in DOMAIN v.fieldBets : v.fieldBets[k].completed => D.view.fieldBets[k] = v.fieldBets[k]
  BY DEF SettledAll
<1> QED BY <1>2, <1>3 DEF Agrees

\* Settling leaves the bets in their places.
LEMMA SettledPlaced ==
    ASSUME NEW v, BetsPlaced(v), NEW D, SettledAll(v, D)
    PROVE  BetsPlaced(D.view)
<1>1. "fieldBets" \in BetDbs /\ "bets" \in BetDbs
  BY DEF BetDbs
<1>2. \A d \in BetDbs : PlacedIn(D.view, d)
  BY DEF SettledAll, BetsPlaced, PlacedIn
<1>3. \A k \in DOMAIN D.view.bets : IsBetRecord(D.view.bets[k])
  BY <1>1 DEF SettledAll
<1>4. \A k \in DOMAIN D.view.fieldBets : IsBetRecord(D.view.fieldBets[k])
  BY <1>1 DEF SettledAll, BetsPlaced
<1> QED BY <1>2, <1>3, <1>4 DEF BetsPlaced

\* Only the databases of the bets matter.
LEMMA SamePlaced ==
    ASSUME NEW v, BetsPlaced(v), NEW w, \A d \in BetDbs : w[d] = v[d]
    PROVE  BetsPlaced(w) /\ w.fieldBets = v.fieldBets
<1>1. "fieldBets" \in BetDbs /\ "bets" \in BetDbs
  BY DEF BetDbs
<1> QED BY <1>1 DEF BetsPlaced, PlacedIn

\* Every payout of a settlement is for a bet that was placed before.
LEMMA SettledPays ==
    ASSUME Ordinary, TypeOK, mode = "idle", BetsPlaced(cache), BetsOwned(cache), NEW D, SettledAll(cache, D)
    PROVE  PaysPlaced(D.payouts, TipHeight + 1) /\ Agrees(D.payouts, D.view.fieldBets)
<1>1. "fieldBets" \in BetDbs
  BY DEF BetDbs
<1>2. DOMAIN D.view.fieldBets = DOMAIN cache.fieldBets
  BY <1>1 DEF SettledAll
<1>3. \A k \in DOMAIN cache.fieldBets : PlacedAs(k, "fieldBets") /\ k[1] < TipHeight + 1
  <2>1. ASSUME NEW k \in DOMAIN cache.fieldBets PROVE PlacedAs(k, "fieldBets")
    BY <1>1 DEF BetsPlaced, PlacedIn
  <2>2. ASSUME NEW k \in DOMAIN cache.fieldBets PROVE k[1] < TipHeight + 1
    <3>1. PICK tx \in Txs : Handled(tx, k[1])
      BY DEF BetsOwned
    <3>2. k[1] \in Nat /\ k[1] <= BlkHeight
      BY <3>1, HandledHeights
    <3>3. BlkHeight = TipHeight /\ TipHeight \in Nat
      BY ChainSeq DEF BlkHeight
    <3> QED BY <3>2, <3>3
  <2> QED BY <2>1, <2>2
<1>4. ASSUME NEW out, OtherPay(out, cache) PROVE \E d \in BetDbs \ {"fieldBets"} : PlacedAs(out.key, d)
  BY <1>4 DEF OtherPay, BetsPlaced, PlacedIn
<1>5. PaysPlaced(D.payouts, TipHeight + 1)
  BY <1>2, <1>3, <1>4 DEF PaysPlaced, SettledAll, FieldPay
<1>6. ASSUME NEW out, OtherPay(out, cache), out.key \in DOMAIN cache.fieldBets PROVE FALSE
  <2>1. PICK d \in BetDbs \ {"fieldBets"} : PlacedAs(out.key, d)
    BY <1>4, <1>6
  <2> QED BY <1>1, <1>3, <1>6, <2>1, PlacedOnce
<1>7. Agrees(D.payouts, D.view.fieldBets)
  BY <1>2, <1>6 DEF Agrees, SettledAll, FieldPay
<1> QED BY <1>5, <1>7

\* What an output leaves of the block at hand.
LEMMA OutputBlock ==
    ASSUME TypeOK, UInv, SkipOutput \/ PeerlessStep \/ FieldStep \/ GamesStep, mode' # "failed", NEW h, PayOK(blk, h)
    PROVE  PayOK(blk', h) /\ blk'.payouts = blk.payouts
<1>0. IsView(cache)
  BY DEF TypeOK
<1>1. OutputStep
  BY <1>0, SkipSteps, PeerlessSteps, FieldSteps, GamesSteps
<1>2. blk' = blk \/ \E e : blk' = [blk EXCEPT !.vResultIDs = Append(@, e)]
  BY <1>1 DEF OutputStep, Abort, Advance, AdvanceWithResult
<1>3. CASE blk' = blk
  BY <1>3 DEF PayOK
<1>4. ASSUME NEW e, blk' = [blk EXCEPT !.vResultIDs = Append(@, e)]
      PROVE  PayOK(blk', h) /\ blk'.payouts = blk.payouts
  <2>1. /\ blk'.proof = blk.proof /\ blk'.payouts = blk.payouts
        /\ blk'.vResultIDs = Append(blk.vResultIDs, e)
    BY <1>4 DEF TypeOK
  <2>2. IsSeq(blk'.vResultIDs)
    BY <2>1, AppendSeq DEF PayOK
  <2> QED BY <2>1, <2>2 DEF PayOK
<1> QED BY <1>2, <1>3, <1>4

\* Connecting an output puts a bet in its place.
LEMMA WrittenPlaced ==
    ASSUME Ordinary, TypeOK, AtOutput, BetsPlaced(cache), BetsWritten
    PROVE  BetsPlaced(cache')
<1>1. "fieldBets" \in BetDbs /\ "bets" \in BetDbs
  BY DEF BetDbs
<1>2. Tx \in Txs /\ BetKey = <<BlkHeight, Tx.id, 1>> /\ BlkHeight \in Nat
  BY AtTx, ChainSeq DEF BetKey, BlkHeight
<1>3. ASSUME NEW d \in BetDbs, NEW b, HasType(Tx, Makes[d]), cache'[d] = DbWrite(cache[d], BetKey, b)
      PROVE  PlacedIn(cache', d)
  <2>1. PlacedAs(BetKey, d)
    BY <1>2, <1>3 DEF PlacedAs
  <2>2. DOMAIN cache'[d] \in {DOMAIN cache[d], DOMAIN cache[d] \cup {BetKey}}
    BY <1>3 DEF DbWrite, Put
  <2>3. IsFiniteSet(DOMAIN cache[d]) /\ IsFiniteSet(DOMAIN cache[d] \cup {BetKey})
    BY FS_AddElement DEF BetsPlaced, PlacedIn
  <2> QED BY <2>1, <2>2, <2>3 DEF BetsPlaced, PlacedIn
<1>4. ASSUME NEW d \in BetDbs PROVE PlacedIn(cache', d)
  BY <1>3 DEF BetsWritten, BetsPlaced, PlacedIn
<1>5. ASSUME NEW d \in {"bets", "fieldBets"}, \A k \in DOMAIN cache[d] : IsBetRecord(cache[d][k])
      PROVE  \A k \in DOMAIN cache'[d] : IsBetRecord(cache'[d][k])
  <2>1. cache'[d] = cache[d] \/ \E b : IsBetRecord(b) /\ cache'[d] = DbWrite(cache[d], BetKey, b)
    BY <1>1 DEF BetsWritten
  <2> QED BY <1>5, <2>1 DEF DbWrite, Put
<1> QED BY <1>4, <1>5 DEF BetsPlaced

\* Connecting an output.
LEMMA ConnectKeepsField ==
    ASSUME Ordinary, TypeOK, UInv, FieldInv, mode = "connect", mode' # "failed",
           SkipOutput \/ PeerlessStep \/ FieldStep \/ GamesStep
    PROVE  FieldInv'
<1>1. BetsWritten
  BY PeerlessWrites, FieldWrites, GamesWrite, NothingSkipped
<1>2. ConnectsOutput
  BY Outputs DEF Abort, DisconnectsOutput
<1>3. /\ AtOutput /\ pos' = NextPos /\ mode' = mode /\ chain' = chain /\ blk'.txs = blk.txs /\ view' = view
  BY <1>2 DEF ConnectsOutput, MovesTo
<1>4. Once
  BY DEF UInv
<1>5. \A tx, h : Handled(tx, h)' <=> Handled(tx, h) \/ (tx = Tx /\ h = BlkHeight)
  BY <1>3, <1>4, HandledMore
<1>6. /\ BetsPlaced(cache) /\ BetsOwned(cache) /\ ChainAgrees(cache)
      /\ \A i \in DOMAIN chain : PayOK(chain[i], Height(i))
      /\ BetsPlaced(view) /\ BetsOwned(view) /\ ChainAgrees(view)
      /\ PayOK(blk, BlkHeight) /\ Agrees(blk.payouts, cache.fieldBets)
  BY DEF FieldInv
<1>7. BlkHeight' = BlkHeight /\ BlkHeight = TipHeight + 1 /\ TipHeight \in Nat
  BY <1>3, ChainSeq DEF BlkHeight, TipHeight
<1>8. PayOK(blk', BlkHeight) /\ blk'.payouts = blk.payouts
  BY <1>6, OutputBlock
<1>9. BetsPlaced(cache')
  BY <1>1, <1>3, <1>6, WrittenPlaced
<1>10. Tx \in Txs /\ BetKey = <<BlkHeight, Tx.id, 1>> /\ "fieldBets" \in BetDbs
  BY <1>3, AtTx DEF BetKey, BetDbs
<1>11. cache'.fieldBets = cache.fieldBets \/
       \E b : /\ HasType(Tx, Makes["fieldBets"]) /\ Saves(Tx)
              /\ cache'.fieldBets = DbWrite(cache.fieldBets, BetKey, b)
  BY <1>1, <1>10 DEF BetsWritten
<1>12. ASSUME NEW P, NEW g \in Nat, g <= BlkHeight, PaysPlaced(P, g), Agrees(P, cache.fieldBets)
       PROVE  Agrees(P, cache'.fieldBets)
  <2>1. ASSUME NEW b, HasType(Tx, Makes["fieldBets"]), cache'.fieldBets = DbWrite(cache.fieldBets, BetKey, b)
        PROVE  Agrees(P, cache'.fieldBets)
    BY <1>7, <1>10, <1>12, <2>1, AgreesMore
  <2> QED BY <1>11, <1>12, <2>1
<1>13. \A i \in DOMAIN chain : Agrees(chain[i].payouts, cache'.fieldBets)
  <2> SUFFICES ASSUME NEW i \in DOMAIN chain PROVE Agrees(chain[i].payouts, cache'.fieldBets)
    OBVIOUS
  <2>1. Height(i) \in Nat /\ Height(i) <= BlkHeight
    BY <1>7, ChainSeq, HeightsAssumption DEF Height
  <2>2. PaysPlaced(chain[i].payouts, Height(i)) /\ Agrees(chain[i].payouts, cache.fieldBets)
    BY <1>6 DEF PayOK, ChainAgrees
  <2> QED BY <1>12, <2>1, <2>2
<1>14. Agrees(blk.payouts, cache'.fieldBets)
  <2>1. BlkHeight \in Nat /\ BlkHeight <= BlkHeight
    BY <1>7
  <2> QED BY <1>6, <1>12, <2>1 DEF PayOK
<1>15. \A k \in DOMAIN cache'.fieldBets : k \in DOMAIN cache.fieldBets \/
           (k = BetKey /\ HasType(Tx, Makes["fieldBets"]) /\ Saves(Tx))
  BY <1>11 DEF DbWrite, Put
<1>16. BetKey[1] = BlkHeight /\ (HasType(Tx, Makes["fieldBets"]) /\ Saves(Tx) => BetKey \in Keys("fieldBets", Tx, BlkHeight))
  BY <1>10 DEF Keys, Key
<1>17. \A k \in DOMAIN cache'.fieldBets : \E tx \in Txs : Handled(tx, k[1])' /\ k \in Keys("fieldBets", tx, k[1])
  <2>1. \A k \in DOMAIN cache.fieldBets : \E tx \in Txs : Handled(tx, k[1])' /\ k \in Keys("fieldBets", tx, k[1])
    BY <1>5, <1>6 DEF BetsOwned
  <2>2. ASSUME NEW k, k = BetKey, HasType(Tx, Makes["fieldBets"]), Saves(Tx)
        PROVE \E tx \in Txs : Handled(tx, k[1])' /\ k \in Keys("fieldBets", tx, k[1])
    <3>1. PICK t, g : t = Tx /\ g = BlkHeight
      OBVIOUS
    <3>2. Handled(t, g)'
      BY <1>5, <3>1
    <3>3. t \in Txs /\ k[1] = g /\ k \in Keys("fieldBets", t, g)
      BY <1>10, <1>16, <2>2, <3>1
    <3> QED BY <3>2, <3>3
  <2> QED BY <1>15, <2>1, <2>2
<1>18. BetsOwned(cache)' /\ BetsOwned(view)'
  <2>1. BetsOwned(cache)'
    BY <1>17 DEF BetsOwned
  <2>2. BetsOwned(view)'
    BY <1>3, <1>5, <1>6 DEF BetsOwned
  <2> QED BY <2>1, <2>2
<1>19. ChainAgrees(cache)' /\ ChainAgrees(view)'
  BY <1>3, <1>6, <1>13 DEF ChainAgrees
<1>20. BetsPlaced(view)' /\ \A i \in DOMAIN chain' : PayOK(chain'[i], Height(i))
  BY <1>3, <1>6
<1> QED BY <1>3, <1>7, <1>8, <1>9, <1>14, <1>18, <1>19, <1>20 DEF FieldInv

\* Disconnecting one.
LEMMA DisconnectKeepsField ==
    ASSUME Ordinary, TypeOK, UInv, FieldInv, mode = "disconnect", mode' # "failed",
           SkipOutput \/ PeerlessStep \/ FieldStep \/ GamesStep
    PROVE  FieldInv'
<1>1. BetsErased
  BY Erases, NothingSkipped
<1>2. DisconnectsOutput
  BY Outputs DEF Abort, ConnectsOutput
<1>3. /\ AtOutput /\ pos' = NextPos /\ mode' = mode /\ chain' = chain /\ blk'.txs = blk.txs
  BY <1>2 DEF DisconnectsOutput, MovesTo
<1>4. Once
  BY DEF UInv
<1>5. /\ \A h : Handled(Tx, h) => h = TipHeight
      /\ \A tx, h : Handled(tx, h)' <=> Handled(tx, h) /\ tx # Tx
  BY <1>3, <1>4, HandledLess
<1>6. /\ BetsPlaced(cache) /\ BetsOwned(cache) /\ ChainAgrees(cache)
      /\ \A i \in DOMAIN chain : PayOK(chain[i], Height(i))
  BY DEF FieldInv
<1>7. "fieldBets" \in BetDbs /\ "bets" \in BetDbs
  BY DEF BetDbs
<1>8. \A d \in BetDbs : DOMAIN cache'[d] \subseteq DOMAIN cache[d] /\ \A k \in DOMAIN cache'[d] : cache'[d][k] = cache[d][k]
  BY <1>1 DEF BetsErased
<1>9. BetsPlaced(cache')
  <2>1. ASSUME NEW d \in BetDbs PROVE PlacedIn(cache', d)
    <3>1. PICK S : S = DOMAIN cache[d] /\ IsFiniteSet(S) /\ \A k \in S : PlacedAs(k, d)
      BY <1>6 DEF BetsPlaced, PlacedIn
    <3>2. IsFiniteSet(DOMAIN cache'[d])
      BY <1>8, <3>1, FS_Subset
    <3> QED BY <1>8, <3>1, <3>2 DEF PlacedIn
  <2>2. \A k \in DOMAIN cache'.bets : IsBetRecord(cache'.bets[k])
    BY <1>6, <1>7, <1>8 DEF BetsPlaced
  <2>3. \A k \in DOMAIN cache'.fieldBets : IsBetRecord(cache'.fieldBets[k])
    BY <1>6, <1>7, <1>8 DEF BetsPlaced
  <2> QED BY <2>1, <2>2, <2>3 DEF BetsPlaced
<1>10. ChainAgrees(cache)'
  <2>1. \A i \in DOMAIN chain : Agrees(chain[i].payouts, cache'.fieldBets)
    BY <1>6, <1>7, <1>8, AgreesLess DEF ChainAgrees
  <2> QED BY <1>3, <2>1 DEF ChainAgrees
<1>11. BetsOwned(cache)'
  <2> SUFFICES ASSUME NEW k \in DOMAIN cache'.fieldBets
               PROVE  \E tx \in Txs : Handled(tx, k[1])' /\ k \in Keys("fieldBets", tx, k[1])
    BY DEF BetsOwned
  <2>1. k \in DOMAIN cache.fieldBets
    BY <1>7, <1>8
  <2>2. PICK tx \in Txs : Handled(tx, k[1]) /\ k \in Keys("fieldBets", tx, k[1])
    BY <1>6, <2>1 DEF BetsOwned
  <2>3. tx # Tx
    BY <1>1, <1>5, <2>2 DEF BetsErased
  <2> QED BY <1>5, <2>2, <2>3
<1> QED BY <1>3, <1>6, <1>9, <1>10, <1>11 DEF FieldInv

\* What is settled is a view.
LEMMA PayoutsLeaveView ==
    ASSUME NEW c, IsView(c), NEW last, NEW h
    PROVE  IsView(GetBettingPayouts(c, last, h).view)
<1>1. ASSUME NEW pl, NEW cg, NEW qg, NEW fl PROVE IsView(AllPayouts(c, pl, cg, qg, fl).view)
  BY DEF AllPayouts, IsView, Databases
<1> QED BY <1>1 DEF GetBettingPayouts

\* BeginConnect settles and pays.
LEMMA BeginConnectKeepsField ==
    ASSUME Ordinary, Countable, TypeOK, UInv, FieldInv, NEW time, NEW proof \in Proofs, BeginConnect(time, proof)
    PROVE  FieldInv'
<1>0. CASE mode' = "failed"
  BY <1>0 DEF FieldInv
<1>1. CASE mode' # "failed"
  <2>1. PICK D : D = GetBettingPayouts(view, Last(chain), TipHeight + 1)
    OBVIOUS
  <2>2. mode = "idle" /\ StartBlock(time, proof, D)
    BY <1>1, <2>1 DEF BeginConnect, Abort
  <2>3. /\ mode' = "connect" /\ view' = view /\ chain' = chain
        /\ cache' = SavePayoutsInfo(D.view, D.payouts, TipHeight + 1)
        /\ blk' = Block(time, proof, D.payouts)
    BY <2>2 DEF StartBlock
  <2>4. /\ cache = view /\ BetsPlaced(cache) /\ BetsOwned(cache) /\ ChainAgrees(cache)
        /\ \A i \in DOMAIN chain : PayOK(chain[i], Height(i))
    BY <2>2 DEF UInv, FieldInv
  <2>5. PICK last : last = Last(chain) /\ last = chain[Len(chain)] /\ Len(chain) \in DOMAIN chain /\ last.txs \in Seq(Txs)
    BY ChainSeq DEF Last, TypeOK
  <2>6. last.proof \in Nat /\ IsSeq(last.vResultIDs)
    BY <2>4, <2>5 DEF PayOK
  <2>7. IsView(view) /\ IsView(D.view)
    BY <2>1, PayoutsLeaveView DEF TypeOK
  <2>8. PICK h : h = TipHeight + 1
    OBVIOUS
  <2>9. SettledAll(view, D)
    <3>1. D = GetBettingPayouts(view, last, h)
      BY <2>1, <2>5, <2>8
    <3>2. PICK v : v = view
      OBVIOUS
    <3>3. SettledAll(v, D)
      BY <2>4, <2>5, <2>6, <2>7, <3>1, <3>2, PayoutsSettleAll
    <3> QED BY <3>2, <3>3
  <2>10. PaysPlaced(D.payouts, TipHeight + 1) /\ Agrees(D.payouts, D.view.fieldBets)
    BY <2>2, <2>4, <2>9, SettledPays
  <2>11. BetsPlaced(D.view)
    BY <2>4, <2>9, SettledPlaced
  <2>12. \A d \in BetDbs : cache'[d] = D.view[d]
    BY <2>3, <2>7 DEF SavePayoutsInfo, IsView, BetDbs, Databases
  <2>13. BetsPlaced(cache') /\ cache'.fieldBets = D.view.fieldBets
    BY <2>11, <2>12, SamePlaced
  <2>14. \A i \in DOMAIN chain : Agrees(chain[i].payouts, cache'.fieldBets)
    <3>1. \A i \in DOMAIN chain : Agrees(chain[i].payouts, view.fieldBets)
      BY <2>4 DEF ChainAgrees
    <3> QED BY <2>9, <2>13, <3>1, AgreesSettled
  <2>15. \A tx, g : Handled(tx, g)' <=> Handled(tx, g)
    BY <1>1, BeginConnectUndos DEF Abort
  <2>16. DOMAIN cache'.fieldBets = DOMAIN cache.fieldBets
    <3>1. "fieldBets" \in BetDbs
      BY DEF BetDbs
    <3> QED BY <2>4, <2>9, <2>13, <3>1 DEF SettledAll
  <2>17. BetsOwned(cache)' /\ BetsOwned(view)'
    BY <2>3, <2>4, <2>15, <2>16 DEF BetsOwned
  <2>18. ChainAgrees(cache)' /\ ChainAgrees(view)'
    BY <2>3, <2>4, <2>14 DEF ChainAgrees
  <2>19. BlkHeight' = TipHeight + 1
    BY <2>3 DEF BlkHeight, TipHeight
  <2>20. PayOK(blk', TipHeight + 1) /\ blk'.payouts = D.payouts
    <3>1. blk'.proof = proof /\ blk'.vResultIDs = <<>> /\ blk'.payouts = D.payouts
      BY <2>3 DEF Block
    <3>2. proof \in Nat /\ IsSeq(<<>>)
      BY DEF Countable, IsSeq
    <3> QED BY <2>10, <3>1, <3>2 DEF PayOK
  <2>21. PayOK(blk', BlkHeight') /\ Agrees(blk'.payouts, cache'.fieldBets)
    BY <2>10, <2>13, <2>19, <2>20
  <2>22. BetsPlaced(view') /\ \A i \in DOMAIN chain' : PayOK(chain'[i], Height(i))
    BY <2>3, <2>4
  <2> QED BY <2>13, <2>17, <2>18, <2>21, <2>22 DEF FieldInv
<1> QED BY <1>0, <1>1

\* A rejected block leaves bettingsView.
LEMMA RejectBlockKeepsField ==
    ASSUME TypeOK, UInv, FieldInv, RejectBlock
    PROVE  FieldInv'
<1>1. mode = "connect" /\ mode' = "idle" /\ cache' = view /\ chain' = chain
  BY DEF RejectBlock
<1>2. \A tx, h : Handled(tx, h)' <=> Handled(tx, h)
  BY RejectBlockUndos
<1>3. /\ BetsPlaced(view) /\ BetsOwned(view) /\ ChainAgrees(view)
      /\ \A i \in DOMAIN chain : PayOK(chain[i], Height(i))
  BY <1>1 DEF FieldInv
<1>4. BetsOwned(cache)'
  BY <1>1, <1>2, <1>3 DEF BetsOwned
<1>5. ChainAgrees(cache)'
  BY <1>1, <1>3 DEF ChainAgrees
<1> QED BY <1>1, <1>3, <1>4, <1>5 DEF FieldInv

\* The next transaction of the block.
LEMMA TakeTxKeepsField ==
    ASSUME Ordinary, TypeOK, UInv, FieldInv, NEW tx \in Txs, TakeTx(tx)
    PROVE  FieldInv'
<1>1. /\ mode = "connect" /\ mode' = mode /\ view' = view /\ cache' = cache /\ chain' = chain
      /\ blk' = [blk EXCEPT !.txs = Append(@, tx)]
  BY DEF TakeTx
<1>2. \A t, h : Handled(t, h)' <=> Handled(t, h)
  BY TakeTxUndos
<1>3. /\ BetsPlaced(cache) /\ BetsOwned(cache) /\ ChainAgrees(cache)
      /\ \A i \in DOMAIN chain : PayOK(chain[i], Height(i))
      /\ BetsPlaced(view) /\ BetsOwned(view) /\ ChainAgrees(view)
      /\ PayOK(blk, BlkHeight) /\ Agrees(blk.payouts, cache.fieldBets)
  BY <1>1 DEF FieldInv
<1>4. blk'.proof = blk.proof /\ blk'.vResultIDs = blk.vResultIDs /\ blk'.payouts = blk.payouts
  BY <1>1 DEF TypeOK
<1>5. BlkHeight' = BlkHeight
  BY <1>1 DEF BlkHeight, TipHeight
<1>6. BetsOwned(cache)' /\ BetsOwned(view)'
  BY <1>1, <1>2, <1>3 DEF BetsOwned
<1>7. ChainAgrees(cache)' /\ ChainAgrees(view)'
  BY <1>1, <1>3 DEF ChainAgrees
<1>8. PayOK(blk', BlkHeight)
  BY <1>3, <1>4 DEF PayOK
<1>9. PayOK(blk', BlkHeight') /\ Agrees(blk'.payouts, cache'.fieldBets)
  BY <1>1, <1>3, <1>4, <1>5, <1>8
<1>10. BetsPlaced(cache') /\ BetsPlaced(view') /\ \A i \in DOMAIN chain' : PayOK(chain'[i], Height(i))
  BY <1>1, <1>3
<1> QED BY <1>6, <1>7, <1>9, <1>10 DEF FieldInv

\* EndConnect makes the payouts part of the chain.
LEMMA EndConnectKeepsField ==
    ASSUME Ordinary, IInv, UInv, FieldInv, EndConnect
    PROVE  FieldInv'
<1> DEFINE pruned == IF BlkHeight % (MaxUndoDepth - 1) = 0
                     THEN PruneOlderUndos(cache, BlkHeight - MaxUndoDepth) ELSE cache
           done   == [pruned EXCEPT !.lastHeight = BlkHeight]
           last   == Connected(blk, done)
<1>1. /\ mode = "connect" /\ mode' = "idle"
      /\ cache' = done /\ chain' = Append(chain, last)
  BY DEF EndConnect
<1>2. TypeOK
  BY DEF IInv
<1>3. \A d \in BetDbs : done[d] = cache[d]
  <2>1. IsView(cache) /\ IsView(pruned)
    BY <1>2, ExceptView DEF PruneOlderUndos, TypeOK
  <2>2. \A d \in BetDbs : pruned[d] = cache[d]
    BY <2>1 DEF PruneOlderUndos, IsView, BetDbs, Databases
  <2> HIDE DEF pruned
  <2> QED BY <2>1, <2>2 DEF IsView, BetDbs, Databases
<1>4. last.proof = blk.proof /\ last.vResultIDs = blk.vResultIDs /\ last.payouts = blk.payouts
  BY DEF Connected
<1> HIDE DEF done, last
<1>5. PICK c, l : /\ cache' = c /\ chain' = Append(chain, l)
                  /\ \A d \in BetDbs : c[d] = cache[d]
                  /\ l.proof = blk.proof /\ l.vResultIDs = blk.vResultIDs /\ l.payouts = blk.payouts
  BY <1>1, <1>3, <1>4
<1>6. /\ Len(chain) \in Nat \ {0} /\ DOMAIN chain = 1 .. Len(chain) /\ DOMAIN chain' = 1 .. Len(chain) + 1
      /\ \A i \in 1 .. Len(chain) : chain'[i] = chain[i]
      /\ chain'[Len(chain) + 1] = l
  <2>1. /\ IsSeq(chain') /\ Len(chain') = Len(chain) + 1
        /\ \A i \in DOMAIN chain' : chain'[i] = IF i <= Len(chain) THEN chain[i] ELSE l
    BY <1>2, <1>5, AppendSeq DEF TypeOK
  <2>2. DOMAIN chain' = 1 .. Len(chain) + 1
    BY <2>1, <1>2, ChainSeq, LenProperties DEF IsSeq
  <2> QED BY <1>2, <2>1, <2>2, ChainSeq
<1>7. /\ BetsPlaced(cache) /\ BetsOwned(cache) /\ ChainAgrees(cache)
      /\ \A i \in DOMAIN chain : PayOK(chain[i], Height(i))
      /\ PayOK(blk, BlkHeight) /\ Agrees(blk.payouts, cache.fieldBets)
  BY <1>1 DEF FieldInv
<1>8. \A tx, h : Handled(tx, h)' <=> Handled(tx, h)
  BY EndConnectUndos
<1>9. BetsPlaced(c) /\ c.fieldBets = cache.fieldBets
  BY <1>5, <1>7, SamePlaced
<1>10. BetsOwned(cache)'
  BY <1>5, <1>7, <1>8, <1>9 DEF BetsOwned
<1>11. \A i \in DOMAIN chain' : i \in DOMAIN chain \/ i = Len(chain) + 1
  BY <1>6
<1>12. ChainAgrees(cache)'
  <2>1. \A i \in DOMAIN chain' : Agrees(chain'[i].payouts, cache.fieldBets)
    BY <1>5, <1>6, <1>7, <1>11 DEF ChainAgrees
  <2> QED BY <1>5, <1>9, <2>1 DEF ChainAgrees
<1>13. \A i \in DOMAIN chain' : PayOK(chain'[i], Height(i))
  <2>1. BlkHeight = Height(Len(chain) + 1)
    BY <1>1, <1>2, <1>6, HeightsAssumption DEF BlkHeight, TipHeight, Height
  <2>2. PayOK(l, BlkHeight)
    BY <1>5, <1>7 DEF PayOK
  <2> QED BY <1>6, <1>7, <1>11, <2>1, <2>2
<1> QED BY <1>1, <1>5, <1>9, <1>10, <1>12, <1>13 DEF FieldInv

\* Taking back a settlement of peerless bets and quick games.
LEMMA UndonePlaced ==
    ASSUME NEW v, IsView(v), BetsPlaced(v), NEW ids, NEW h, NEW w,
           w = UndoPayoutsInfo(UndoQGBetPayouts(UndoPLBetPayouts(v, ids, h), h), h)
    PROVE  BetsPlaced(w) /\ w.fieldBets = v.fieldBets
<1>1. PICK a : a = UndoPLBetPayouts(v, ids, h)
  OBVIOUS
<1>2. PICK b : b = UndoQGBetPayouts(a, h)
  OBVIOUS
<1>3. w = UndoPayoutsInfo(b, h)
  BY <1>1, <1>2
<1>4. IsView(a) /\ IsView(b) /\ IsView(w)
  <2>1. IsView(a)
    BY <1>1, ExceptView DEF UndoPLBetPayouts
  <2>2. IsView(b)
    BY <1>2, <2>1, ExceptView DEF UndoQGBetPayouts
  <2>3. IsView(w)
    BY <1>3, <2>2 DEF UndoPayoutsInfo, IsView
  <2> QED BY <2>1, <2>2, <2>3
<1>5. PICK r : r = {e \in ToSet(ids) : Posted(v.results, e)}
  OBVIOUS
<1>6. PICK M : M = {k \in DOMAIN v.bets : /\ k[1] >= SearchStart(h) /\ v.bets[k].completed
                                          /\ \E e \in r : Names(v.bets[k], e)
                                          /\ AllResulted(v.bets[k], v.results)}
  OBVIOUS
<1>7. a = [v EXCEPT !.bets = [k \in DOMAIN v.bets |-> IF k \in M THEN SetUncompleted(v.bets[k]) ELSE v.bets[k]]]
  BY <1>1, <1>5, <1>6 DEF UndoPLBetPayouts
<1>8. /\ DOMAIN a.bets = DOMAIN v.bets
      /\ \A k \in DOMAIN v.bets : a.bets[k] = v.bets[k] \/ a.bets[k] = SetUncompleted(v.bets[k])
      /\ \A d \in BetDbs \ {"bets"} : a[d] = v[d]
  BY <1>7 DEF IsView, BetDbs, Databases
<1>9. ASSUME NEW x, IsBetRecord(x) PROVE IsBetRecord(SetUncompleted(x))
  BY <1>9 DEF IsBetRecord, SetUncompleted, BetFields
<1>10. \A k \in DOMAIN a.bets : IsBetRecord(a.bets[k])
  BY <1>8, <1>9 DEF BetsPlaced
<1>11. /\ DOMAIN b.quickGamesBets = DOMAIN a.quickGamesBets
       /\ \A d \in BetDbs \ {"quickGamesBets"} : b[d] = a[d]
  BY <1>2, <1>4 DEF UndoQGBetPayouts, IsView, BetDbs, Databases
<1>12. \A d \in BetDbs : w[d] = b[d]
  BY <1>3, <1>4 DEF UndoPayoutsInfo, IsView, BetDbs, Databases
<1>13. BetDbs = {"bets", "fieldBets", "chainGamesLottoBets", "quickGamesBets"}
  BY DEF BetDbs
<1>14. w.fieldBets = v.fieldBets /\ w.bets = a.bets
  BY <1>8, <1>11, <1>12, <1>13
<1>15. ASSUME NEW d \in BetDbs PROVE DOMAIN w[d] = DOMAIN v[d]
  BY <1>8, <1>11, <1>12, <1>13
<1>16. \A d \in BetDbs : PlacedIn(w, d)
  BY <1>15 DEF BetsPlaced, PlacedIn
<1> QED BY <1>10, <1>14, <1>16 DEF BetsPlaced

\* BeginDisconnect leaves the field bets: they stay settled.
LEMMA BeginDisconnectKeepsField ==
    ASSUME IInv, UInv, FieldInv, BeginDisconnect
    PROVE  FieldInv'
<1>1. CASE Abort
  BY <1>1 DEF Abort, FieldInv
<1>2. CASE mode' = "disconnect"
  <2>1. mode = "idle" /\ TypeOK /\ chain' = chain
    BY <1>2 DEF BeginDisconnect, IInv, Abort
  <2>2. cache' = UndoPayoutsInfo(UndoQGBetPayouts(UndoPLBetPayouts(view, chain[Len(chain) - 1].vResultIDs, TipHeight),
                                                  TipHeight), TipHeight)
    BY <1>2 DEF BeginDisconnect, Abort
  <2>3. /\ cache = view /\ BetsPlaced(cache) /\ BetsOwned(cache) /\ ChainAgrees(cache)
        /\ \A i \in DOMAIN chain : PayOK(chain[i], Height(i))
    BY <2>1 DEF UInv, FieldInv
  <2>4. PICK v, w, ids, h : v = view /\ w = cache' /\ ids = chain[Len(chain) - 1].vResultIDs /\ h = TipHeight
    OBVIOUS
  <2>5. IsView(v) /\ BetsPlaced(v)
    BY <2>1, <2>3, <2>4 DEF TypeOK
  <2>6. w = UndoPayoutsInfo(UndoQGBetPayouts(UndoPLBetPayouts(v, ids, h), h), h)
    BY <2>2, <2>4
  <2>7. BetsPlaced(w) /\ w.fieldBets = v.fieldBets
    BY <2>5, <2>6, UndonePlaced
  <2>8. BetsPlaced(cache') /\ cache'.fieldBets = cache.fieldBets
    BY <2>3, <2>4, <2>7
  <2>9. \A tx, g : Handled(tx, g)' <=> Handled(tx, g)
    BY <1>2, BeginDisconnectUndos
  <2>10. BetsOwned(cache)'
    BY <2>3, <2>8, <2>9 DEF BetsOwned
  <2>11. ChainAgrees(cache)'
    BY <2>1, <2>3, <2>8 DEF ChainAgrees
  <2> QED BY <1>2, <2>1, <2>3, <2>8, <2>10, <2>11 DEF FieldInv
<1> QED BY <1>1, <1>2 DEF BeginDisconnect

\* EndDisconnect takes the payouts off the chain.
LEMMA EndDisconnectKeepsField ==
    ASSUME IInv, UInv, FieldInv, EndDisconnect
    PROVE  FieldInv'
<1>1. /\ mode = "disconnect" /\ mode' = "idle" /\ TypeOK /\ Len(chain) > 1 /\ chain' = Front(chain)
      /\ cache' = [cache EXCEPT !.lastHeight = TipHeight - 1]
  BY DEF EndDisconnect, IInv
<1>2. \A d \in BetDbs : cache'[d] = cache[d]
  BY <1>1 DEF TypeOK, IsView, BetDbs, Databases
<1>3. \A i \in DOMAIN chain' : i \in DOMAIN chain /\ chain'[i] = chain[i]
  BY <1>1, FrontSeq DEF TypeOK
<1>4. /\ BetsPlaced(cache) /\ BetsOwned(cache) /\ ChainAgrees(cache)
      /\ \A i \in DOMAIN chain : PayOK(chain[i], Height(i))
  BY <1>1 DEF FieldInv
<1>5. BetsPlaced(cache') /\ cache'.fieldBets = cache.fieldBets
  BY <1>2, <1>4, SamePlaced
<1>6. \A tx, h : Handled(tx, h)' <=> Handled(tx, h)
  BY EndDisconnectUndos
<1>7. BetsOwned(cache)'
  BY <1>4, <1>5, <1>6 DEF BetsOwned
<1>8. ChainAgrees(cache)'
  BY <1>3, <1>4, <1>5 DEF ChainAgrees
<1> QED BY <1>1, <1>3, <1>4, <1>5, <1>7, <1>8 DEF FieldInv

\* At first there are neither bets nor payouts.
LEMMA InitFieldInv == Countable /\ Init => FieldInv
<1> SUFFICES ASSUME Countable, Init PROVE FieldInv
  OBVIOUS
<1>1. mode = "idle" /\ cache = BaseView /\ chain = <<Connected(NoBlock, BaseView)>>
  BY DEF Init
<1>2. \A d \in BetDbs : DOMAIN cache[d] = {}
  BY <1>1 DEF Countable
<1>3. "fieldBets" \in BetDbs /\ "bets" \in BetDbs
  BY DEF BetDbs
<1>4. BetsPlaced(cache)
  BY <1>2, <1>3, FS_EmptySet DEF BetsPlaced, PlacedIn
<1>5. BetsOwned(cache) /\ ChainAgrees(cache)
  BY <1>2, <1>3 DEF BetsOwned, ChainAgrees, Agrees
<1>6. \A i \in DOMAIN chain : PayOK(chain[i], Height(i))
  <2>1. \A i \in DOMAIN chain : chain[i].proof = 0 /\ chain[i].vResultIDs = <<>> /\ chain[i].payouts = <<>>
    BY <1>1 DEF Connected, NoBlock, Block
  <2>2. IsSeq(<<>>)
    BY DEF IsSeq
  <2> QED BY <2>1, <2>2 DEF PayOK, PaysPlaced
<1> QED BY <1>1, <1>4, <1>5, <1>6 DEF FieldInv

\* Every step.
LEMMA FieldInvStep ==
    ASSUME Ordinary, Countable, IInv, UInv, FieldInv, [Next]_vars
    PROVE  FieldInv'
<1>0. TypeOK
  BY DEF IInv
<1>1. CASE UNCHANGED vars
  <2>1. /\ view' = view /\ cache' = cache /\ chain' = chain /\ mode' = mode
        /\ blk' = blk /\ pos' = pos
    BY <1>1 DEF vars
  <2>2. /\ TipHeight' = TipHeight /\ BlkHeight' = BlkHeight
        /\ \A tx, h : MinedAt(tx, h)' <=> MinedAt(tx, h)
    BY <2>1 DEF TipHeight, BlkHeight, MinedAt
  <2>3. \A tx, h : Handled(tx, h)' <=> Handled(tx, h)
    BY <2>1, <2>2 DEF Handled
  <2>4. (BetsOwned(cache)' <=> BetsOwned(cache)) /\ (BetsOwned(view)' <=> BetsOwned(view))
    BY <2>1, <2>3 DEF BetsOwned
  <2>5. (ChainAgrees(cache)' <=> ChainAgrees(cache)) /\ (ChainAgrees(view)' <=> ChainAgrees(view))
    BY <2>1 DEF ChainAgrees
  <2> QED BY <2>1, <2>2, <2>4, <2>5 DEF FieldInv
<1>2. CASE Connect
  BY <1>0, <1>2, BeginConnectKeepsField, RejectBlockKeepsField, TakeTxKeepsField, EndConnectKeepsField DEF Connect
<1>3. CASE Disconnect
  BY <1>3, BeginDisconnectKeepsField, EndDisconnectKeepsField DEF Disconnect
<1>4. CASE SkipOutput \/ PeerlessStep \/ FieldStep \/ GamesStep
  <2>1. CASE mode' = "failed"
    BY <2>1 DEF FieldInv
  <2>2. CASE mode' # "failed"
    <3>1. ConnectsOutput \/ DisconnectsOutput
      BY <1>0, <1>4, <2>2, Outputs DEF Abort
    <3>2. mode = "connect" \/ mode = "disconnect"
      BY <3>1 DEF ConnectsOutput, DisconnectsOutput
    <3> QED BY <1>0, <1>4, <2>2, <3>2, ConnectKeepsField, DisconnectKeepsField
  <2> QED BY <2>1, <2>2
<1> QED BY <1>1, <1>2, <1>3, <1>4 DEF Next

(* What the active chain pays for a field bet is what the bet records, and the
   bet is completed, for any results, games and reorganisations: also after
   blocks that settled it were disconnected, which leaves it settled
   (GetFieldBetPayoutsV4, UndoFieldBetPayouts). *)
THEOREM FieldPaidAreMarkedCorrect == Ordinary /\ Countable => (Spec => []FieldPaidAreMarked)
<1> SUFFICES ASSUME Ordinary, Countable PROVE Spec => []FieldPaidAreMarked
  OBVIOUS
<1> DEFINE Inv == IInv /\ UInv /\ FieldInv
<1>1. Init => Inv
  BY InitIInv, InitUInv, InitFieldInv
<1>2. Inv /\ [Next]_vars => Inv'
  BY IInvStep, UInvStep, FieldInvStep
<1>3. Inv => FieldPaidAreMarked
  <2> SUFFICES ASSUME Inv, mode = "idle", NEW k \in DOMAIN view.fieldBets, NEW p \in Payments(k)
               PROVE  /\ view.fieldBets[k].completed
                      /\ chain[p[1]].payouts[p[2]].amount = view.fieldBets[k].payout
    BY DEF FieldPaidAreMarked
  <2>1. cache = view /\ ChainAgrees(view)
    BY DEF UInv, FieldInv
  <2>2. /\ p[1] \in DOMAIN chain /\ p[2] \in DOMAIN chain[p[1]].payouts
        /\ chain[p[1]].payouts[p[2]].to = "player" /\ chain[p[1]].payouts[p[2]].key = k
    BY DEF Payments
  <2> QED BY <2>1, <2>2 DEF ChainAgrees, Agrees
<1> QED BY <1>1, <1>2, <1>3, PTL DEF Spec
=============================================================================
