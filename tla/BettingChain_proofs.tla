------------------------ MODULE BettingChain_proofs ------------------------
(***************************************************************************)
(* Proofs about BettingChain, for any transactions, databases and heights: *)
(* the type invariant, the agreement of the databases and the chain on the *)
(* height they are at, the undo records that are kept, and that no         *)
(* reorganisation finds one missing.                                       *)
(*                                                                         *)
(* The second half is about undoing: what every handler leaves in the      *)
(* databases, and that a step of ConnectBlock lengthens the history of     *)
(* stages of RInv, which a step of DisconnectBlock goes back.  What        *)
(* follows from RInv is in BettingReorg_proofs.  At the end are the odds   *)
(* of the field events.                                                    *)
(***************************************************************************)
EXTENDS BettingChain, SequenceTheorems, TreeRecursion

\* Changing one database of a view leaves a view.
LEMMA ExceptView ==
    ASSUME NEW c, IsView(c), NEW d, NEW x
    PROVE  IsView([c EXCEPT ![d] = x])
BY DEF IsView

\* A transaction has outputs, numbered from 1.
LEMMA OutsOfTx ==
    ASSUME NEW tx \in Txs
    PROVE  /\ Len(tx.outs) \in Nat \ {0}
           /\ DOMAIN tx.outs = 1 .. Len(tx.outs)
<1> DEFINE S == {tx.outs[i] : i \in DOMAIN tx.outs}
<1>1. tx.outs \in Seq(S) /\ tx.outs # <<>>
  BY TxsAssumption
<1> QED BY <1>1, EmptySeq, LenProperties

\* A sequence is one of its own elements.
LEMMA SeqIsSeq ==
    ASSUME NEW S, NEW s \in Seq(S)
    PROVE  IsSeq(s)
<1> DEFINE T == {s[i] : i \in DOMAIN s}
<1>1. s \in [1 .. Len(s) -> S] /\ Len(s) \in Nat /\ DOMAIN s = 1 .. Len(s)
  BY LenProperties
<1>2. s \in [1 .. Len(s) -> T]
  BY <1>1
<1>3. s \in UNION {[1 .. n -> T] : n \in Nat}
  BY <1>1, <1>2
<1> QED BY <1>3, SeqDef DEF IsSeq

\* Sequences of anything: the elements that Append, Front and Last touch.
LEMMA AppendSeq ==
    ASSUME NEW s, IsSeq(s), NEW x
    PROVE  /\ IsSeq(Append(s, x))
           /\ Len(Append(s, x)) = Len(s) + 1
           /\ \A i \in DOMAIN Append(s, x) : Append(s, x)[i] = IF i <= Len(s) THEN s[i] ELSE x
           /\ Append(s, x) # <<>>
<1> DEFINE S == {s[i] : i \in DOMAIN s} \cup {x}
           t == Append(s, x)
<1>1. s \in Seq(S)
  BY DEF IsSeq
<1>2. /\ t \in Seq(S) /\ Len(t) = Len(s) + 1 /\ Len(s) \in Nat /\ DOMAIN t = 1 .. Len(s) + 1
      /\ \A i \in DOMAIN t : t[i] = IF i <= Len(s) THEN s[i] ELSE x
  BY <1>1
<1>3. IsSeq(t)
  BY <1>2, SeqIsSeq
<1>4. t # <<>>
  BY <1>2, EmptySeq
<1> QED BY <1>2, <1>3, <1>4

LEMMA FrontSeq ==
    ASSUME NEW s, IsSeq(s), Len(s) > 1
    PROVE  /\ IsSeq(Front(s))
           /\ Len(Front(s)) = Len(s) - 1
           /\ \A i \in DOMAIN Front(s) : i \in DOMAIN s /\ Front(s)[i] = s[i]
           /\ Front(s) # <<>>
<1> DEFINE S == {s[i] : i \in DOMAIN s}
           t == Front(s)
<1>1. s \in Seq(S) /\ Len(s) \in Nat /\ DOMAIN s = 1 .. Len(s)
  BY DEF IsSeq
<1>2. /\ t \in Seq(S) /\ Len(t) = Len(s) - 1 /\ DOMAIN t = 1 .. Len(s) - 1
      /\ \A i \in DOMAIN t : t[i] = s[i]
  BY <1>1 DEF Front
<1>3. IsSeq(t)
  BY <1>2, SeqIsSeq
<1> QED BY <1>1, <1>2, <1>3 DEF IsSeq

-----------------------------------------------------------------------------
\* The two invariants go together: LastHeight lives in a view and the tip in a
\* sequence.  What they lack to be inductive is that the block at BaseHeight
\* is not the one being disconnected.
IInv == TypeOK /\ HeightsAgree /\ (mode = "disconnect" => Len(chain) > 1)

AtOutput ==
    /\ mode \in {"connect", "disconnect"}
    /\ pos.tx \in DOMAIN blk.txs
    /\ pos.out \in DOMAIN Tx.outs

\* What a handler of one output does to the state.
OutputStep ==
    \/ Abort
    \/ \E c : IsView(c) /\ Advance(c)
    \/ \E c, e : IsView(c) /\ AdvanceWithResult(c, e)

\* Handles is only about an output of the block.
LEMMA HandlesAtOutput ==
    ASSUME NEW type
    PROVE  /\ Processing(type) => AtOutput
           /\ Undoing(type) => AtOutput
BY DEF Processing, Undoing, Handles, AtOutput

\* Saving an undo record is an output step, or stops the node.
LEMMA SaveStep ==
    ASSUME NEW c, IsView(c), NEW vUndos, AdvanceWithUndo(c, vUndos)
    PROVE  OutputStep
<1> DEFINE d == [c EXCEPT !.undos = Put(@, UndoKey, [height |-> BlkHeight, vUndos |-> vUndos])]
<1>1. IsView(d)
  BY ExceptView
<1> QED BY <1>1 DEF AdvanceWithUndo, OutputStep

\* So is reverting an event.
LEMMA RevertStep ==
    ASSUME NEW c, IsView(c), RevertOr(c)
    PROVE  OutputStep
BY DEF RevertOr, OutputStep

LEMMA UndoneView ==
    ASSUME NEW c, IsView(c), NEW key
    PROVE  IsView(UndoEventChanges(c, key))
BY ExceptView DEF UndoEventChanges

\* Every handler of a peerless output is an output step.
LEMMA PeerlessSteps ==
    ASSUME IsView(cache), PeerlessStep
    PROVE  AtOutput /\ OutputStep
<1>1. ASSUME ProcessPlBet PROVE AtOutput /\ OutputStep
  BY <1>1, HandlesAtOutput, ExceptView, SaveStep DEF ProcessPlBet, OutputStep
<1>2. ASSUME ProcessPlParlayBet PROVE AtOutput /\ OutputStep
  BY <1>2, HandlesAtOutput, ExceptView, SaveStep DEF ProcessPlParlayBet, OutputStep
<1>3. ASSUME ProcessMapping PROVE AtOutput /\ OutputStep
  BY <1>3, HandlesAtOutput, ExceptView DEF ProcessMapping, OutputStep
<1>4. ASSUME ProcessPlEvent PROVE AtOutput /\ OutputStep
  BY <1>4, HandlesAtOutput, ExceptView DEF ProcessPlEvent, OutputStep
<1>5. ASSUME ProcessPlResult PROVE AtOutput /\ OutputStep
  BY <1>5, HandlesAtOutput, ExceptView DEF ProcessPlResult, OutputStep
<1>6. ASSUME ProcessPlZeroing PROVE AtOutput /\ OutputStep
  BY <1>6, HandlesAtOutput, ExceptView, SaveStep DEF ProcessPlZeroing, OutputStep
<1>7. ASSUME NEW type, ProcessPlUpdate(type) PROVE AtOutput /\ OutputStep
  BY <1>7, HandlesAtOutput, ExceptView, SaveStep DEF ProcessPlUpdate, OutputStep
<1>8. ASSUME NEW type, UndoPeerlessBet(type) PROVE AtOutput /\ OutputStep
  BY <1>8, HandlesAtOutput, ExceptView, UndoneView, RevertStep DEF UndoPeerlessBet, OutputStep
<1>9. ASSUME UndoMapping \/ UndoPlEvent \/ UndoPlResult PROVE AtOutput /\ OutputStep
  BY <1>9, HandlesAtOutput, ExceptView DEF UndoMapping, UndoPlEvent, UndoPlResult, OutputStep
<1>10. ASSUME NEW type, UndoPlUpdate(type) PROVE AtOutput /\ OutputStep
  BY <1>10, HandlesAtOutput, UndoneView, RevertStep DEF UndoPlUpdate, OutputStep
<1>11. ASSUME UndoPlZeroing PROVE AtOutput /\ OutputStep
  BY <1>11, HandlesAtOutput, UndoneView, RevertStep DEF UndoPlZeroing, OutputStep
<1> QED BY <1>1, <1>2, <1>3, <1>4, <1>5, <1>6, <1>7, <1>8, <1>9, <1>10, <1>11 DEF PeerlessStep

\* And every handler of a field output,
LEMMA FieldSteps ==
    ASSUME IsView(cache), FieldStep
    PROVE  AtOutput /\ OutputStep
<1>1. ASSUME ProcessFBet PROVE AtOutput /\ OutputStep
  BY <1>1, HandlesAtOutput, ExceptView, SaveStep DEF ProcessFBet, OutputStep
<1>2. ASSUME ProcessFParlayBet PROVE AtOutput /\ OutputStep
  BY <1>2, HandlesAtOutput, ExceptView, SaveStep DEF ProcessFParlayBet, OutputStep
<1>3. ASSUME ProcessFEvent PROVE AtOutput /\ OutputStep
  BY <1>3, HandlesAtOutput, ExceptView DEF ProcessFEvent, OutputStep
<1>4. ASSUME ProcessFResult PROVE AtOutput /\ OutputStep
  BY <1>4, HandlesAtOutput, ExceptView DEF ProcessFResult, OutputStep
<1>5. ASSUME NEW type, ProcessFUpdate(type) PROVE AtOutput /\ OutputStep
  BY <1>5, HandlesAtOutput, ExceptView, SaveStep DEF ProcessFUpdate, OutputStep
<1>6. ASSUME NEW type, UndoFieldBet(type) PROVE AtOutput /\ OutputStep
  BY <1>6, HandlesAtOutput, ExceptView, UndoneView, RevertStep DEF UndoFieldBet, OutputStep
<1>7. ASSUME UndoFEvent \/ UndoFResult PROVE AtOutput /\ OutputStep
  BY <1>7, HandlesAtOutput, ExceptView DEF UndoFEvent, UndoFResult, OutputStep
<1>8. ASSUME NEW type, UndoFUpdate(type) PROVE AtOutput /\ OutputStep
  BY <1>8, HandlesAtOutput, UndoneView, RevertStep DEF UndoFUpdate, OutputStep
<1> QED BY <1>1, <1>2, <1>3, <1>4, <1>5, <1>6, <1>7, <1>8 DEF FieldStep

\* a lotto or dice output,
LEMMA GamesSteps ==
    ASSUME IsView(cache), GamesStep
    PROVE  AtOutput /\ OutputStep
<1>1. ASSUME ProcessCgBet \/ ProcessQgBet \/ ProcessCgEvent PROVE AtOutput /\ OutputStep
  BY <1>1, HandlesAtOutput, ExceptView DEF ProcessCgBet, ProcessQgBet, ProcessCgEvent, OutputStep
<1>2. ASSUME ProcessCgResult PROVE AtOutput /\ OutputStep
  BY <1>2, HandlesAtOutput, ExceptView DEF ProcessCgResult, OutputStep
<1>3. ASSUME UndoCgBet \/ UndoQgBet PROVE AtOutput /\ OutputStep
  BY <1>3, HandlesAtOutput, ExceptView DEF UndoCgBet, UndoQgBet, EraseOr, OutputStep
<1>4. ASSUME UndoCgEvent \/ UndoCgResult PROVE AtOutput /\ OutputStep
  BY <1>4, HandlesAtOutput, ExceptView DEF UndoCgEvent, UndoCgResult, EraseOr, OutputStep
<1> QED BY <1>1, <1>2, <1>3, <1>4 DEF GamesStep

\* and of an output that is skipped.
LEMMA SkipSteps ==
    ASSUME IsView(cache), SkipOutput
    PROVE  AtOutput /\ OutputStep
BY DEF SkipOutput, AtOutput, OutputStep

-----------------------------------------------------------------------------
\* The next position is a position again.
LEMMA NextPosOK ==
    ASSUME TypeOK, AtOutput, pos' = NextPos, mode' = mode,
           blk' = [f \in {"txs", "time", "proof", "vResultIDs", "payouts"} |-> blk'[f]],
           blk'.txs = blk.txs
    PROVE  PosOK'
<1> DEFINE n == Len(blk.txs)
<1>1. /\ n \in Nat /\ DOMAIN blk.txs = 1 .. n /\ \A i \in 1 .. n : blk.txs[i] \in Txs
      /\ pos = [tx |-> pos.tx, out |-> pos.out] /\ pos.tx \in 1 .. n
  BY LenProperties, ElementOfSeq DEF TypeOK, PosOK, AtOutput
<1>2. \A i \in 1 .. n : Len(blk.txs[i].outs) \in Nat \ {0}
  BY <1>1, OutsOfTx
<1>3. pos.out \in 1 .. Len(blk.txs[pos.tx].outs)
  BY <1>1, OutsOfTx DEF AtOutput, Tx
<1>4. CASE mode = "connect"
  <2>1. pos' = [tx |-> pos.tx, out |-> pos.out + 1]
    BY <1>1, <1>4 DEF NextPos
  <2>2. pos.tx = n
    BY <1>4 DEF TypeOK, PosOK
  <2> QED BY <1>2, <1>3, <1>4, <2>1, <2>2 DEF PosOK, Tx
<1>5. CASE mode = "disconnect" /\ pos.out > 1
  <2>1. pos' = [tx |-> pos.tx, out |-> pos.out - 1]
    BY <1>1, <1>5 DEF NextPos
  <2> QED BY <1>1, <1>2, <1>3, <1>5, <2>1 DEF PosOK, Tx
<1>6. CASE mode = "disconnect" /\ ~(pos.out > 1)
  <2>1. pos' = [tx |-> pos.tx - 1,
                out |-> IF pos.tx > 1 THEN Len(blk.txs[pos.tx - 1].outs) ELSE 0]
    BY <1>6 DEF NextPos
  <2> QED BY <1>1, <1>2, <1>6, <2>1 DEF PosOK, Tx
<1> QED BY <1>4, <1>5, <1>6 DEF AtOutput

\* An output step keeps the invariant: it changes the cache, the position and
\* the results of the block only.
LEMMA OutputKeeps ==
    ASSUME IInv, AtOutput, OutputStep
    PROVE  IInv'
<1>1. CASE Abort
  BY <1>1 DEF Abort, IInv, TypeOK, PosOK, HeightsAgree, TipHeight, Tx, AtOutput
<1>2. ASSUME NEW c, IsView(c), Advance(c) PROVE IInv'
  <2>1. PosOK'
    BY <1>2, NextPosOK DEF Advance, IInv, TypeOK
  <2> QED BY <1>2, <2>1 DEF Advance, IInv, TypeOK, HeightsAgree, TipHeight
<1>3. ASSUME NEW c, NEW e, IsView(c), AdvanceWithResult(c, e) PROVE IInv'
  <2>1. /\ blk' = [f \in {"txs", "time", "proof", "vResultIDs", "payouts"} |-> blk'[f]]
        /\ blk'.txs = blk.txs
    BY <1>3 DEF AdvanceWithResult, IInv, TypeOK
  <2>2. PosOK'
    BY <1>3, <2>1, NextPosOK DEF AdvanceWithResult, IInv
  <2> QED BY <1>3, <2>1, <2>2 DEF AdvanceWithResult, IInv, TypeOK, HeightsAgree, TipHeight
<1> QED BY <1>1, <1>2, <1>3 DEF OutputStep

-----------------------------------------------------------------------------
\* The other steps: a block is begun, gets its transactions, and is done.
BlockFields == {"txs", "time", "proof", "vResultIDs", "payouts"}

LEMMA NoBlockOK ==
    ASSUME NEW time, NEW proof, NEW payouts
    PROVE  LET b == Block(time, proof, payouts)
           IN  /\ b = [f \in BlockFields |-> b[f]]
               /\ b.txs = <<>> /\ b.txs \in Seq(Txs) /\ Len(b.txs) = 0
BY DEF Block, BlockFields

LEMMA InitIInv == Init => IInv
<1> SUFFICES ASSUME Init PROVE IInv
  OBVIOUS
<1> DEFINE first == Connected(NoBlock, BaseView)
<1>1. chain \in Seq({first}) /\ Len(chain) = 1 /\ chain[1] = first /\ DOMAIN chain = {1}
  BY DEF Init
<1> HIDE DEF first
<1>2. IsSeq(chain) /\ chain # <<>>
  <2>1. IsSeq(chain)
    BY <1>1, SeqIsSeq
  <2> QED BY <1>1, <2>1
<1>3. first.txs \in Seq(Txs)
  BY NoBlockOK DEF first, Connected, NoBlock
<1>4. TypeOK
  <2>1. blk = [f \in BlockFields |-> blk[f]] /\ blk.txs \in Seq(Txs)
    BY NoBlockOK DEF Init, NoBlock
  <2>2. PosOK
    BY DEF Init, PosOK
  <2> QED BY <1>1, <1>2, <1>3, <2>1, <2>2, HeightsAssumption, BaseViewAssumption
          DEF Init, TypeOK, BlockFields
<1>5. HeightsAgree
  BY <1>1, HeightsAssumption, BaseViewAssumption DEF Init, HeightsAgree, TipHeight
<1> QED BY <1>4, <1>5 DEF Init, IInv

LEMMA AbortKeeps ==
    ASSUME IInv, Abort
    PROVE  IInv'
BY DEF Abort, IInv, TypeOK, PosOK, HeightsAgree, TipHeight

LEMMA BeginConnectKeeps ==
    ASSUME IInv, NEW time, NEW proof, BeginConnect(time, proof)
    PROVE  IInv'
<1>1. ASSUME NEW due, IsView(due.view), StartBlock(time, proof, due)
      PROVE  IInv'
  <2>1. IsView(cache')
    BY <1>1, ExceptView DEF StartBlock, SavePayoutsInfo
  <2>2. blk' = [f \in BlockFields |-> blk'[f]] /\ blk'.txs \in Seq(Txs) /\ Len(blk'.txs) = 0
    BY <1>1, NoBlockOK DEF StartBlock
  <2>3. PosOK'
    BY <1>1, <2>2 DEF StartBlock, PosOK
  <2> QED BY <1>1, <2>1, <2>2, <2>3 DEF StartBlock, IInv, TypeOK, HeightsAgree, TipHeight, BlockFields
<1>2. ASSUME NEW pl, NEW cg, NEW qg, NEW fl
      PROVE  IsView(AllPayouts(view, pl, cg, qg, fl).view)
  BY ExceptView DEF AllPayouts, IInv, TypeOK
<1>3. ASSUME NEW last, NEW height
      PROVE  IsView(GetBettingPayouts(view, last, height).view)
  BY <1>2 DEF GetBettingPayouts
<1> QED BY <1>1, <1>3, AbortKeeps DEF BeginConnect

LEMMA RejectBlockKeeps ==
    ASSUME IInv, RejectBlock
    PROVE  IInv'
<1>1. blk' = [f \in BlockFields |-> blk'[f]] /\ blk'.txs \in Seq(Txs)
  BY NoBlockOK DEF RejectBlock, NoBlock
<1>2. PosOK'
  BY DEF RejectBlock, PosOK
<1> QED BY <1>1, <1>2 DEF RejectBlock, IInv, TypeOK, HeightsAgree, TipHeight, BlockFields

LEMMA TakeTxKeeps ==
    ASSUME IInv, NEW tx \in Txs, TakeTx(tx)
    PROVE  IInv'
<1>1. /\ blk' = [f \in BlockFields |-> blk'[f]]
      /\ blk'.txs = Append(blk.txs, tx)
  BY DEF TakeTx, IInv, TypeOK, BlockFields
<1>2. /\ blk'.txs \in Seq(Txs) /\ Len(blk'.txs) = Len(blk.txs) + 1
      /\ Len(blk.txs) \in Nat /\ blk'.txs[Len(blk.txs) + 1] = tx
  BY <1>1 DEF IInv, TypeOK
<1>3. PosOK'
  BY <1>2, OutsOfTx DEF TakeTx, PosOK, Tx
<1> QED BY <1>1, <1>2, <1>3 DEF TakeTx, IInv, TypeOK, HeightsAgree, TipHeight, BlockFields

LEMMA EndConnectKeeps ==
    ASSUME IInv, EndConnect
    PROVE  IInv'
<1> DEFINE pruned == IF BlkHeight % (MaxUndoDepth - 1) = 0
                     THEN PruneOlderUndos(cache, BlkHeight - MaxUndoDepth) ELSE cache
           done   == [pruned EXCEPT !.lastHeight = BlkHeight]
           last   == Connected(blk, done)
<1>1. /\ view' = done /\ cache' = done /\ chain' = Append(chain, last)
      /\ peak' = IF BlkHeight > peak THEN BlkHeight ELSE peak
  BY DEF EndConnect
<1>2. IsView(pruned)
  BY ExceptView DEF PruneOlderUndos, IInv, TypeOK
<1>3. IsView(done) /\ done.lastHeight = BlkHeight
  <2> HIDE DEF pruned
  <2> QED BY <1>2, ExceptView DEF IsView, Databases
<1> HIDE DEF done
<1>4. /\ IsSeq(chain') /\ Len(chain') = Len(chain) + 1 /\ chain' # <<>>
      /\ \A i \in DOMAIN chain' : chain'[i] = IF i <= Len(chain) THEN chain[i] ELSE last
  BY <1>1, AppendSeq DEF IInv, TypeOK
<1>5. Len(chain) \in Nat /\ DOMAIN chain = 1 .. Len(chain) /\ DOMAIN chain' = 1 .. Len(chain) + 1
  BY <1>4, LenProperties DEF IsSeq, IInv, TypeOK
<1>6. last.txs = blk.txs
  BY DEF Connected
<1> HIDE DEF last
<1>7. \A i \in DOMAIN chain' : chain'[i].txs \in Seq(Txs)
  BY <1>4, <1>5, <1>6 DEF IInv, TypeOK
<1>8. blk' = [f \in BlockFields |-> blk'[f]] /\ blk'.txs \in Seq(Txs)
  BY NoBlockOK DEF EndConnect, NoBlock
<1>9. PosOK' /\ mode' = "idle"
  BY DEF EndConnect, PosOK
<1>10. BlkHeight = BaseHeight + Len(chain) /\ BlkHeight \in Nat /\ TipHeight' = BlkHeight
  BY <1>4, <1>5, HeightsAssumption DEF EndConnect, BlkHeight, TipHeight
<1>11. HeightsAgree' /\ peak' \in Nat
  BY <1>1, <1>3, <1>10 DEF IInv, TypeOK, HeightsAgree
<1> QED BY <1>1, <1>3, <1>4, <1>7, <1>8, <1>9, <1>11 DEF IInv, TypeOK, BlockFields

LEMMA BeginDisconnectKeeps ==
    ASSUME IInv, BeginDisconnect, mode' = "disconnect"
    PROVE  IInv'
<1> DEFINE last == Last(chain)
<1>1. Len(chain) \in Nat /\ DOMAIN chain = 1 .. Len(chain) /\ Len(chain) > 1
  BY LenProperties DEF IsSeq, IInv, TypeOK, BeginDisconnect
<1>2. last.txs \in Seq(Txs)
  BY <1>1 DEF Last, IInv, TypeOK
<1>3. IsView(cache')
  <2>1. ASSUME NEW c, IsView(c), NEW ids, NEW height
        PROVE  /\ IsView(UndoPLBetPayouts(c, ids, height))
               /\ IsView(UndoQGBetPayouts(c, height))
               /\ IsView(UndoPayoutsInfo(c, height))
    BY <2>1, ExceptView DEF UndoPLBetPayouts, UndoQGBetPayouts, UndoPayoutsInfo
  <2> DEFINE paid == UndoPLBetPayouts(view, chain[Len(chain) - 1].vResultIDs, TipHeight)
  <2>2. cache' = UndoPayoutsInfo(UndoQGBetPayouts(paid, TipHeight), TipHeight)
    BY DEF BeginDisconnect, Abort
  <2>3. IsView(paid)
    BY <2>1 DEF IInv, TypeOK
  <2> HIDE DEF paid
  <2>4. IsView(UndoQGBetPayouts(paid, TipHeight))
    BY <2>1, <2>3
  <2> QED BY <2>1, <2>2, <2>4
<1>4. /\ blk' = [f \in BlockFields |-> blk'[f]] /\ blk'.txs = last.txs
      /\ pos' = [tx |-> Len(last.txs), out |-> IF last.txs = <<>> THEN 0 ELSE Len(Last(last.txs).outs)]
      /\ UNCHANGED <<view, chain, peak>>
  BY DEF BeginDisconnect, Block, BlockFields, Abort
<1> HIDE DEF last
<1>5. PosOK'
  <2>1. Len(last.txs) \in Nat /\ (Len(last.txs) = 0 <=> last.txs = <<>>)
    BY <1>2, EmptySeq
  <2>2. ASSUME Len(last.txs) > 0
        PROVE  Last(last.txs) = last.txs[Len(last.txs)] /\ last.txs[Len(last.txs)] \in Txs
    BY <1>2, <2>1, <2>2 DEF Last
  <2>3. Len(last.txs) > 0 => Len(last.txs[Len(last.txs)].outs) \in Nat \ {0}
    BY <2>2, OutsOfTx
  <2> QED BY <1>4, <2>1, <2>2, <2>3 DEF PosOK, Tx
<1> QED BY <1>1, <1>2, <1>3, <1>4, <1>5 DEF IInv, TypeOK, HeightsAgree, TipHeight, BlockFields

LEMMA EndDisconnectKeeps ==
    ASSUME IInv, EndDisconnect
    PROVE  IInv'
<1> DEFINE done == [cache EXCEPT !.lastHeight = TipHeight - 1]
<1>1. view' = done /\ cache' = done /\ chain' = Front(chain) /\ peak' = peak
  BY DEF EndDisconnect
<1>2. IsView(done) /\ done.lastHeight = TipHeight - 1
  BY ExceptView DEF IsView, Databases, IInv, TypeOK
<1> HIDE DEF done
<1>3. Len(chain) > 1
  BY DEF EndDisconnect, IInv
<1>4. /\ IsSeq(chain') /\ Len(chain') = Len(chain) - 1 /\ chain' # <<>>
      /\ \A i \in DOMAIN chain' : i \in DOMAIN chain /\ chain'[i] = chain[i]
  BY <1>1, <1>3, FrontSeq DEF IInv, TypeOK
<1>5. Len(chain) \in Nat
  BY LenProperties DEF IsSeq, IInv, TypeOK
<1>6. HeightsAgree'
  BY <1>1, <1>2, <1>4, <1>5, HeightsAssumption DEF IInv, TypeOK, HeightsAgree, TipHeight
<1>7. blk' = [f \in BlockFields |-> blk'[f]] /\ blk'.txs \in Seq(Txs)
  BY NoBlockOK DEF EndDisconnect, NoBlock
<1>8. PosOK' /\ mode' = "idle"
  BY DEF EndDisconnect, PosOK
<1> QED BY <1>1, <1>2, <1>4, <1>6, <1>7, <1>8 DEF IInv, TypeOK, BlockFields

LEMMA IInvStep == IInv /\ [Next]_vars => IInv'
<1> SUFFICES ASSUME IInv, [Next]_vars PROVE IInv'
  OBVIOUS
<1>1. CASE UNCHANGED vars
  BY <1>1 DEF vars, IInv, TypeOK, PosOK, HeightsAgree, TipHeight, Tx
<1>2. CASE Connect
  BY <1>2, BeginConnectKeeps, RejectBlockKeeps, TakeTxKeeps, EndConnectKeeps DEF Connect
<1>3. CASE Disconnect
  <2>1. BeginDisconnect => (Abort \/ mode' = "disconnect")
    BY DEF BeginDisconnect
  <2> QED BY <1>3, <2>1, AbortKeeps, BeginDisconnectKeeps, EndDisconnectKeeps DEF Disconnect
<1>4. CASE SkipOutput \/ PeerlessStep \/ FieldStep \/ GamesStep
  <2>1. IsView(cache)
    BY DEF IInv, TypeOK
  <2> QED BY <1>4, <2>1, SkipSteps, PeerlessSteps, FieldSteps, GamesSteps, OutputKeeps
<1> QED BY <1>1, <1>2, <1>3, <1>4 DEF Next

(* The databases, the chain and the position inside a block keep their shape
   whatever is connected and disconnected: ProcessBettingTx and UndoBettingTx
   never leave the outputs of a block. *)
THEOREM ChainTypeCorrect == Spec => []TypeOK
<1>1. IInv => TypeOK
  BY DEF IInv
<1> QED BY <1>1, InitIInv, IInvStep, PTL DEF Spec

(* LastHeight is the height of the tip in every reachable state, for any
   transactions and heights: the mismatch that aborts the node in
   ConnectBlock never arises. *)
THEOREM HeightsCorrect == Spec => []HeightsAgree
<1>1. IInv => HeightsAgree
  BY DEF IInv
<1> QED BY <1>1, InitIInv, IInvStep, PTL DEF Spec

-----------------------------------------------------------------------------
\* Undo records.

First(tx) == tx.outs[1]
HasType(tx, types) == First(tx).type \in types

\* The transactions that leave an undo record, and what they are about.
RecordTypes == {"plBet", "plParlayBet", "plZeroing", "fBet", "fParlayBet"} \cup PlUpdates \cup FieldUpdates

Saves(tx) ==
    /\ HasType(tx, RecordTypes)
    /\ HasType(tx, {"plParlayBet", "fParlayBet"}) => First(tx).legs # <<>>

OnLegs(tx, e) == \E i \in DOMAIN First(tx).legs : First(tx).legs[i].event = e

NamesEvent(tx, e) ==
    \/ HasType(tx, {"plBet", "plParlayBet"}) /\ OnLegs(tx, e)
    \/ HasType(tx, PlUpdates) /\ First(tx).event = e
    \/ HasType(tx, {"plZeroing"}) /\ \E i \in DOMAIN First(tx).events : First(tx).events[i] = e

NamesFieldEvent(tx, e) ==
    \/ HasType(tx, {"fBet", "fParlayBet"}) /\ OnLegs(tx, e)
    \/ HasType(tx, FieldUpdates) /\ First(tx).event = e

\* mk creates an event that tx is about.
Needs(tx, mk) ==
    \/ HasType(mk, {"plEvent"}) /\ NamesEvent(tx, First(mk).event)
    \/ HasType(mk, {"fEvent"}) /\ NamesFieldEvent(tx, First(mk).event)

(* The preconditions: a transaction has one betting output, which is the one
   CheckBettingTx looks at; ids are hashes; a single bet has a leg, a zeroing
   an event; the chain begins without undo records. *)
Ordinary ==
    /\ \A tx \in Txs : DOMAIN tx.outs = {1}
    /\ \A a, b \in Txs : a.id = b.id => a = b
    /\ \A tx \in Txs : HasType(tx, {"plBet", "fBet"}) => DOMAIN First(tx).legs = {1}
    /\ \A tx \in Txs : HasType(tx, {"plZeroing"}) => DOMAIN First(tx).events # {}
    /\ DOMAIN BaseView.undos = {}

-----------------------------------------------------------------------------
\* The transactions whose outputs are in the databases, and at which height:
\* those of the chain, with the ones of the block that is being connected up
\* to the position, without the ones of a disconnected block behind it.
MinedAt(tx, h) == \E i \in DOMAIN chain : h = BaseHeight + i - 1
          /\ \E j \in DOMAIN chain[i].txs : chain[i].txs[j] = tx

Handled(tx, h) ==
    \/ /\ mode = "connect"
       /\ \/ MinedAt(tx, h)
          \/ h = BlkHeight /\ \E j \in DOMAIN blk.txs : blk.txs[j] = tx /\ (j < pos.tx \/ pos.out > 1)
    \/ /\ mode = "disconnect"
       /\ MinedAt(tx, h)
       /\ h = TipHeight => \E j \in 1 .. pos.tx : blk.txs[j] = tx
    \/ /\ mode = "idle"
       /\ MinedAt(tx, h)

\* A transaction is mined once.
Once ==
    /\ \A i, k \in DOMAIN chain : \A j \in DOMAIN chain[i].txs, l \in DOMAIN chain[k].txs :
           chain[i].txs[j] = chain[k].txs[l] => i = k /\ j = l
    /\ mode = "connect" => \A j \in DOMAIN blk.txs :
           /\ ~InChain(blk.txs[j])
           /\ \A l \in DOMAIN blk.txs : blk.txs[j] = blk.txs[l] => j = l
    /\ mode = "disconnect" => blk.txs = chain[Len(chain)].txs

\* What CheckBettingTx knows of a transaction whatever the databases say.
V4Types == {"plZeroing", "fBet", "fParlayBet", "fEvent", "fResult"} \cup FieldUpdates

Allowed(tx, h) ==
    /\ HasType(tx, OracleTypes) => tx.oracle
    /\ HasType(tx, V4Types) => h > V4Start
    /\ HasType(tx, {"mapping"}) /\ First(tx).key[1] \in V4Mappings => h > V4Start

\* A record belongs to a transaction that saves one and is in the databases.
RecordsOwned ==
    \A u \in DOMAIN cache.undos : \E tx \in Txs :
        u = <<tx.id, 1>> /\ Saves(tx) /\ Handled(tx, cache.undos[u].height)

\* Those that can still be disconnected have theirs.
RecordsKept ==
    \A tx \in Txs, h \in Nat :
        Handled(tx, h) /\ Saves(tx) /\ h + MaxUndoDepth >= peak =>
            <<tx.id, 1>> \in DOMAIN cache.undos /\ cache.undos[<<tx.id, 1>>].height = h

\* The events that transactions are about exist, and since an earlier block.
NamedKnown ==
    \A tx \in Txs, h \in Nat : Handled(tx, h) =>
        /\ Allowed(tx, h)
        /\ \A e : NamesEvent(tx, e) => e \in DOMAIN cache.events
        /\ \A e : NamesFieldEvent(tx, e) => e \in DOMAIN cache.fieldEvents

CreatedBefore ==
    \A tx, mk \in Txs, h, g \in Nat : Handled(tx, h) /\ Handled(mk, g) /\ Needs(tx, mk) => g < h

\* While a block is connected bettingsView still is that of the block before.
BlockChecked ==
    mode = "connect" =>
        /\ \A j \in DOMAIN blk.txs : CheckBettingTx(blk.txs[j])
        /\ blk.txs = <<>> => /\ cache.undos = view.undos
                            /\ cache.events = view.events /\ cache.fieldEvents = view.fieldEvents
        /\ DOMAIN view.events \subseteq DOMAIN cache.events
        /\ DOMAIN view.fieldEvents \subseteq DOMAIN cache.fieldEvents
        /\ \A tx \in Txs, h \in Nat : MinedAt(tx, h) =>
               /\ \A e : NamesEvent(tx, e) => e \in DOMAIN view.events
               /\ \A e : NamesFieldEvent(tx, e) => e \in DOMAIN view.fieldEvents

UInv == mode # "failed" =>
    /\ Once /\ RecordsOwned /\ RecordsKept /\ NamedKnown /\ CreatedBefore /\ BlockChecked
    /\ mode = "idle" => cache = view
    /\ mode = "disconnect" => TipHeight + MaxUndoDepth >= peak

-----------------------------------------------------------------------------
\* Where the handler is: at the one output of a transaction.
LEMMA AtTx ==
    ASSUME Ordinary, TypeOK, AtOutput
    PROVE  /\ pos.tx \in 1 .. Len(blk.txs) /\ Len(blk.txs) \in Nat /\ DOMAIN blk.txs = 1 .. Len(blk.txs)
           /\ Tx = blk.txs[pos.tx] /\ Tx \in Txs
           /\ pos.out = 1 /\ Out = First(Tx) /\ UndoKey = <<Tx.id, 1>>
           /\ \A j \in 1 .. Len(blk.txs) : blk.txs[j] \in Txs /\ Len(blk.txs[j].outs) = 1
<1>1. /\ Len(blk.txs) \in Nat /\ DOMAIN blk.txs = 1 .. Len(blk.txs)
      /\ \A j \in 1 .. Len(blk.txs) : blk.txs[j] \in Txs
  BY LenProperties, ElementOfSeq DEF TypeOK
<1>2. pos.tx \in 1 .. Len(blk.txs) /\ Tx = blk.txs[pos.tx] /\ Tx \in Txs
  BY <1>1 DEF AtOutput, Tx
<1>3. pos.out = 1
  BY <1>2 DEF AtOutput, Ordinary
<1>4. ASSUME NEW tx \in Txs PROVE Len(tx.outs) = 1
  <2>1. Len(tx.outs) \in Nat \ {0} /\ DOMAIN tx.outs = 1 .. Len(tx.outs) /\ DOMAIN tx.outs = {1}
    BY OutsOfTx DEF Ordinary
  <2>2. Len(tx.outs) \in 1 .. Len(tx.outs)
    BY <2>1
  <2> QED BY <2>1, <2>2
<1> QED BY <1>1, <1>2, <1>3, <1>4 DEF Out, First, UndoKey

\* The chain in numbers.
LEMMA ChainSeq ==
    ASSUME TypeOK
    PROVE  /\ Len(chain) \in Nat \ {0} /\ DOMAIN chain = 1 .. Len(chain)
           /\ \A i \in 1 .. Len(chain) : chain[i].txs \in Seq(Txs)
           /\ TipHeight = BaseHeight + Len(chain) - 1 /\ TipHeight \in Nat
<1>1. Len(chain) \in Nat /\ DOMAIN chain = 1 .. Len(chain) /\ Len(chain) # 0
  BY LenProperties, EmptySeq DEF TypeOK, IsSeq
<1> QED BY <1>1, HeightsAssumption DEF TypeOK, TipHeight

\* A mined transaction is below the tip.
LEMMA MinedBelow ==
    ASSUME TypeOK, NEW tx, NEW h, MinedAt(tx, h)
    PROVE  h \in Nat /\ h <= TipHeight /\ tx \in Txs
<1>1. PICK i \in DOMAIN chain : h = BaseHeight + i - 1 /\ \E j \in DOMAIN chain[i].txs : chain[i].txs[j] = tx
  BY DEF MinedAt
<1>2. i \in 1 .. Len(chain) /\ chain[i].txs \in Seq(Txs)
  BY <1>1, ChainSeq
<1>3. tx \in Txs
  BY <1>1, <1>2, LenProperties, ElementOfSeq
<1> QED BY <1>1, <1>2, <1>3, ChainSeq, HeightsAssumption

\* Connecting an output adds its transaction to those that are handled,
LEMMA HandledMore ==
    ASSUME Ordinary, TypeOK, Once, mode = "connect", AtOutput,
           pos' = NextPos, mode' = mode, chain' = chain, blk'.txs = blk.txs
    PROVE  /\ \A h : ~Handled(Tx, h)
           /\ \A tx, h : Handled(tx, h)' <=> Handled(tx, h) \/ (tx = Tx /\ h = BlkHeight)
<1>1. pos.tx = Len(blk.txs)
  BY DEF TypeOK, PosOK
<1>2. pos'.tx = pos.tx /\ pos'.out = 2
  BY AtTx DEF NextPos, TypeOK, PosOK
<1>3. BlkHeight' = BlkHeight
  BY DEF BlkHeight, TipHeight
<1>4. \A tx, h : MinedAt(tx, h)' <=> MinedAt(tx, h)
  BY DEF MinedAt
<1>5. \A h : ~MinedAt(Tx, h)
  <2>1. ~InChain(Tx)
    BY AtTx DEF Once
  <2>2. \A i \in DOMAIN chain : \A j \in DOMAIN chain[i].txs : chain[i].txs[j] \in ToSet(chain[i].txs)
    BY DEF ToSet
  <2> QED BY <2>1, <2>2 DEF MinedAt, InChain
<1>6. \A h : ~Handled(Tx, h)
  <2>1. \A j \in DOMAIN blk.txs : blk.txs[j] = Tx => j = pos.tx
    BY AtTx DEF Once
  <2> QED BY <1>5, <2>1, AtTx DEF Handled
<1>7. ASSUME NEW tx, NEW h PROVE Handled(tx, h)' <=> Handled(tx, h) \/ (tx = Tx /\ h = BlkHeight)
  <2>1. Handled(tx, h) <=> MinedAt(tx, h) \/ (h = BlkHeight
            /\ \E j \in 1 .. Len(blk.txs) : blk.txs[j] = tx /\ j < pos.tx)
    BY AtTx DEF Handled
  <2>2. Handled(tx, h)' <=> MinedAt(tx, h) \/ (h = BlkHeight /\ \E j \in 1 .. Len(blk.txs) : blk.txs[j] = tx)
    BY <1>2, <1>3, <1>4, AtTx DEF Handled
  <2>3. (\E j \in 1 .. Len(blk.txs) : blk.txs[j] = tx) <=> (\E j \in 1 .. Len(blk.txs) : blk.txs[j] = tx
            /\ j < pos.tx) \/ tx = Tx
    BY <1>1, AtTx
  <2> QED BY <2>1, <2>2, <2>3
<1> QED BY <1>6, <1>7

\* and disconnecting it takes it out again.
LEMMA HandledLess ==
    ASSUME Ordinary, TypeOK, Once, mode = "disconnect", AtOutput,
           pos' = NextPos, mode' = mode, chain' = chain, blk'.txs = blk.txs
    PROVE  /\ Handled(Tx, TipHeight) /\ BlkHeight = TipHeight
           /\ \A h : Handled(Tx, h) => h = TipHeight
           /\ \A tx, h : Handled(tx, h)' <=> Handled(tx, h) /\ tx # Tx
<1>1. pos'.tx = pos.tx - 1
  BY AtTx DEF NextPos
<1>2. TipHeight' = TipHeight /\ BlkHeight = TipHeight
  BY DEF BlkHeight, TipHeight
<1>3. \A tx, h : MinedAt(tx, h)' <=> MinedAt(tx, h)
  BY DEF MinedAt
<1>4. /\ blk.txs = chain[Len(chain)].txs /\ Len(chain) \in DOMAIN chain
      /\ pos.tx \in DOMAIN chain[Len(chain)].txs
  BY AtTx, ChainSeq DEF Once
<1>5. \A h : MinedAt(Tx, h) <=> h = TipHeight
  <2>1. MinedAt(Tx, TipHeight)
    BY <1>4, AtTx, ChainSeq DEF MinedAt
  <2>2. ASSUME NEW h, MinedAt(Tx, h) PROVE h = TipHeight
    <3>0. PICK i \in DOMAIN chain : h = BaseHeight + i - 1
              /\ \E j \in DOMAIN chain[i].txs : chain[i].txs[j] = Tx
      BY <2>2 DEF MinedAt
    <3>1. PICK j \in DOMAIN chain[i].txs : chain[i].txs[j] = Tx
      BY <3>0
    <3>2. chain[i].txs[j] = chain[Len(chain)].txs[pos.tx]
      BY <3>1, <1>4, AtTx
    <3>3. i = Len(chain)
      BY <3>2, <1>4 DEF Once
    <3> QED BY <3>0, <3>3, ChainSeq
  <2> QED BY <2>1, <2>2
<1>6. Handled(Tx, TipHeight)
  BY <1>5, AtTx DEF Handled
<1>7. ASSUME NEW tx, NEW h PROVE Handled(tx, h)' <=> Handled(tx, h) /\ tx # Tx
  <2>1. Handled(tx, h) <=> MinedAt(tx, h) /\ (h = TipHeight => \E j \in 1 .. pos.tx : blk.txs[j] = tx)
    BY DEF Handled
  <2>2. Handled(tx, h)' <=> MinedAt(tx, h) /\ (h = TipHeight => \E j \in 1 .. pos.tx - 1 : blk.txs[j] = tx)
    BY <1>1, <1>2, <1>3 DEF Handled
  <2>3. \A j \in 1 .. pos.tx : blk.txs[j] = Tx <=> j = pos.tx
    BY <1>4, AtTx DEF Once
  <2>4. (\E j \in 1 .. pos.tx - 1 : blk.txs[j] = tx) <=> (\E j \in 1 .. pos.tx : blk.txs[j] = tx) /\ tx # Tx
    BY <2>3, AtTx
  <2> QED BY <1>5, <2>1, <2>2, <2>4
<1> QED BY <1>2, <1>5, <1>6, <1>7 DEF Handled

-----------------------------------------------------------------------------
\* What CheckBettingTx has seen, by the type of the output.
LEMMA CheckedOutput ==
    ASSUME NEW tx, CheckBettingTx(tx)
    PROVE  LET out == First(tx) IN
           /\ out.type \in OracleTypes => tx.oracle
           /\ out.type = "plBet" => CheckPlBet(out)
           /\ out.type = "plParlayBet" => CheckPlParlayBet(out)
           /\ out.type = "mapping" => CheckMapping(out)
           /\ out.type = "plEvent" => CheckPlEvent(out)
           /\ out.type \in PlUpdates => CheckPlUpdate(out)
           /\ out.type = "plZeroing" => CheckPlZeroing(out)
           /\ out.type = "fBet" => CheckFBet(out)
           /\ out.type = "fParlayBet" => CheckFParlayBet(out)
           /\ out.type = "fEvent" => CheckFEvent(out)
           /\ out.type \in FieldUpdates => CheckFUpdate(out)
           /\ out.type = "fResult" => CheckFResult(out)
           /\ out.type = "cgBet" => CheckCgBet(out)
           /\ out.type = "qgBet" => CheckQgBet(out)
           /\ out.type = "cgEvent" => CheckCgEvent(out)
           /\ out.type = "cgResult" => CheckCgResult(out)
BY DEF CheckBettingTx, First, PlUpdates, FieldUpdates

\* A checked transaction is allowed at the next height, the events it is
\* about are those of the block before, and the one it creates is not.
LEMMA CheckedKnown ==
    ASSUME Ordinary, TypeOK, NEW tx \in Txs, CheckBettingTx(tx)
    PROVE  /\ Allowed(tx, TipHeight + 1)
           /\ \A e : NamesEvent(tx, e) => e \in DOMAIN view.events
           /\ \A e : NamesFieldEvent(tx, e) => e \in DOMAIN view.fieldEvents
           /\ HasType(tx, {"plEvent"}) => First(tx).event \notin DOMAIN view.events
           /\ HasType(tx, {"fEvent"}) => First(tx).event \notin DOMAIN view.fieldEvents
<1> DEFINE out == First(tx)
<1>0. TipHeight \in Nat /\ V4Start \in Nat
  BY ChainSeq, HeightsAssumption
<1>1. Allowed(tx, TipHeight + 1)
  <2>1. HasType(tx, V4Types) => TipHeight >= V4Start
    BY CheckedOutput DEF HasType, V4Types, CheckPlZeroing, CheckFBet, CheckFParlayBet, CheckFEvent,
       CheckFUpdate, CheckFResult
  <2>2. HasType(tx, {"mapping"}) /\ out.key[1] \in V4Mappings => ~(TipHeight < V4Start)
    BY CheckedOutput DEF HasType, CheckMapping
  <2> QED BY <1>0, <2>1, <2>2, CheckedOutput DEF Allowed, HasType
<1>2. ASSUME NEW e, NamesEvent(tx, e) PROVE e \in DOMAIN view.events
  <2>1. CASE HasType(tx, {"plBet"}) /\ OnLegs(tx, e)
    BY <2>1, CheckedOutput DEF HasType, OnLegs, CheckPlBet, LegOpen, Ordinary
  <2>2. CASE HasType(tx, {"plParlayBet"}) /\ OnLegs(tx, e)
    BY <2>2, CheckedOutput DEF HasType, OnLegs, CheckPlParlayBet, LegOpen
  <2>3. CASE HasType(tx, PlUpdates) /\ First(tx).event = e
    BY <2>3, CheckedOutput DEF HasType, CheckPlUpdate
  <2>4. CASE HasType(tx, {"plZeroing"}) /\ \E i \in DOMAIN First(tx).events : First(tx).events[i] = e
    BY <2>4, CheckedOutput DEF HasType, CheckPlZeroing
  <2> QED BY <1>2, <2>1, <2>2, <2>3, <2>4 DEF NamesEvent, HasType
<1>3. ASSUME NEW e, NamesFieldEvent(tx, e) PROVE e \in DOMAIN view.fieldEvents
  <2>1. CASE HasType(tx, {"fBet"}) /\ OnLegs(tx, e)
    BY <2>1, CheckedOutput DEF HasType, OnLegs, CheckFBet, FieldLegOpen, Ordinary
  <2>2. CASE HasType(tx, {"fParlayBet"}) /\ OnLegs(tx, e)
    BY <2>2, CheckedOutput DEF HasType, OnLegs, CheckFParlayBet, FieldLegOpen
  <2>3. CASE HasType(tx, FieldUpdates) /\ First(tx).event = e
    BY <2>3, CheckedOutput DEF HasType, CheckFUpdate
  <2> QED BY <1>3, <2>1, <2>2, <2>3 DEF NamesFieldEvent, HasType
<1>4. HasType(tx, {"plEvent"}) => First(tx).event \notin DOMAIN view.events
  BY CheckedOutput DEF HasType, CheckPlEvent
<1>5. HasType(tx, {"fEvent"}) => First(tx).event \notin DOMAIN view.fieldEvents
  BY CheckedOutput DEF HasType, CheckFEvent
<1> QED BY <1>1, <1>2, <1>3, <1>4, <1>5

-----------------------------------------------------------------------------
\* Moving on past an output, to databases c.
MovesTo(c) ==
    /\ cache' = c /\ pos' = NextPos /\ blk'.txs = blk.txs
    /\ UNCHANGED <<view, chain, peak, mode>>

\* What connecting the output of Tx does to records and events.
Processed(c) ==
    /\ IF Saves(Tx)
       THEN \E r : r.height = BlkHeight /\ c.undos = Put(cache.undos, <<Tx.id, 1>>, r)
       ELSE c.undos = cache.undos
    /\ DOMAIN cache.events \subseteq DOMAIN c.events
    /\ DOMAIN cache.fieldEvents \subseteq DOMAIN c.fieldEvents

\* And disconnecting it.
Undone(c) ==
    /\ c.undos = IF Saves(Tx) THEN DbErase(cache.undos, <<Tx.id, 1>>) ELSE cache.undos
    /\ \A e \in DOMAIN cache.events :
           e \in DOMAIN c.events \/ (HasType(Tx, {"plEvent"}) /\ First(Tx).event = e)
    /\ \A e \in DOMAIN cache.fieldEvents :
           e \in DOMAIN c.fieldEvents \/ (HasType(Tx, {"fEvent"}) /\ First(Tx).event = e)

ConnectsOutput == mode = "connect" /\ AtOutput /\ \E c : Processed(c) /\ MovesTo(c)
DisconnectsOutput == mode = "disconnect" /\ AtOutput /\ \E c : Undone(c) /\ MovesTo(c)

\* A handler that saves a record writes it under a new key.
LEMMA SavedRecord ==
    ASSUME Ordinary, TypeOK, UInv, mode = "connect", AtOutput,
           NEW c, IsView(c), c.undos = cache.undos, NEW vUndos, AdvanceWithUndo(c, vUndos)
    PROVE  \E d : /\ d.events = c.events /\ d.fieldEvents = c.fieldEvents
                  /\ \E r : r.height = BlkHeight /\ d.undos = Put(cache.undos, <<Tx.id, 1>>, r)
                  /\ MovesTo(d)
<1> DEFINE r == [height |-> BlkHeight, vUndos |-> vUndos]
           d == [c EXCEPT !.undos = Put(@, UndoKey, r)]
<1>1. /\ d.events = c.events /\ d.fieldEvents = c.fieldEvents
      /\ d.undos = Put(cache.undos, <<Tx.id, 1>>, r)
  BY AtTx DEF IsView, Databases
<1>2. UndoKey \notin DOMAIN c.undos
  <2>1. Once /\ RecordsOwned
    BY DEF UInv
  <2>2. ASSUME NEW tx \in Txs, NEW h, <<Tx.id, 1>> = <<tx.id, 1>>, Handled(tx, h) PROVE FALSE
    <3>1. tx = Tx
      BY <2>2, AtTx DEF Ordinary
    <3>2. ~MinedAt(Tx, h)
      BY <2>1, AtTx DEF Once, MinedAt, InChain, ToSet
    <3>3. \A j \in DOMAIN blk.txs : blk.txs[j] = Tx => j = pos.tx
      BY <2>1, AtTx DEF Once
    <3> QED BY <2>2, <3>1, <3>2, <3>3, AtTx DEF Handled
  <2> QED BY <2>1, <2>2, AtTx DEF RecordsOwned
<1>3. Advance(d)
  BY <1>2 DEF AdvanceWithUndo
<1>4. MovesTo(d)
  BY <1>3 DEF Advance, MovesTo
<1>5. r.height = BlkHeight
  OBVIOUS
<1> HIDE DEF d, r
<1> QED BY <1>1, <1>4, <1>5

\* The transaction at hand has passed the check, so its events are there.
LEMMA AtChecked ==
    ASSUME Ordinary, TypeOK, UInv, mode = "connect", AtOutput
    PROVE  /\ CheckBettingTx(Tx) /\ Allowed(Tx, BlkHeight)
           /\ \A e : NamesEvent(Tx, e) => e \in DOMAIN view.events /\ e \in DOMAIN cache.events
           /\ \A e : NamesFieldEvent(Tx, e) => e \in DOMAIN view.fieldEvents /\ e \in DOMAIN cache.fieldEvents
           /\ BlkHeight = TipHeight + 1 /\ TipHeight \in Nat
<1>1. CheckBettingTx(Tx)
  BY AtTx DEF UInv, BlockChecked
<1>2. BlkHeight = TipHeight + 1 /\ TipHeight \in Nat
  BY ChainSeq DEF BlkHeight
<1> QED BY <1>1, <1>2, CheckedKnown, AtTx DEF UInv, BlockChecked

\* Handlers that touch neither records nor the events of others.
LEMMA PlainOutput ==
    ASSUME Ordinary, TypeOK, UInv, mode = "connect", AtOutput, ~Saves(Tx),
           NEW c, c.undos = cache.undos,
           DOMAIN cache.events \subseteq DOMAIN c.events,
           DOMAIN cache.fieldEvents \subseteq DOMAIN c.fieldEvents,
           Advance(c) \/ \E e : AdvanceWithResult(c, e)
    PROVE  ConnectsOutput
<1>1. MovesTo(c)
  BY DEF Advance, AdvanceWithResult, MovesTo, TypeOK
<1> QED BY <1>1 DEF ConnectsOutput, Processed

LEMMA SavingOutput ==
    ASSUME Ordinary, TypeOK, UInv, mode = "connect", AtOutput, Saves(Tx),
           NEW c, IsView(c), c.undos = cache.undos,
           DOMAIN cache.events \subseteq DOMAIN c.events,
           DOMAIN cache.fieldEvents \subseteq DOMAIN c.fieldEvents,
           NEW vUndos, AdvanceWithUndo(c, vUndos)
    PROVE  ConnectsOutput
BY SavedRecord DEF ConnectsOutput, Processed

LEMMA AtProcessing ==
    ASSUME Ordinary, TypeOK, NEW type, Processing(type)
    PROVE  /\ mode = "connect" /\ AtOutput /\ First(Tx).type = type /\ Out = First(Tx)
           /\ Tx \in Txs
<1>1. mode = "connect" /\ AtOutput /\ Out.type = type
  BY HandlesAtOutput DEF Processing, Handles
<1> QED BY <1>1, AtTx

LEMMA PeerlessConnects ==
    ASSUME Ordinary, TypeOK, UInv
    PROVE  /\ ProcessPlBet => ConnectsOutput
           /\ ProcessPlParlayBet => ConnectsOutput
           /\ ProcessMapping => ConnectsOutput
           /\ ProcessPlEvent => ConnectsOutput
           /\ ProcessPlResult => ConnectsOutput
           /\ ProcessPlZeroing => ConnectsOutput
           /\ \A type \in PlUpdates : ProcessPlUpdate(type) => ConnectsOutput
<1>0. IsView(cache)
  BY DEF TypeOK
<1>1. ASSUME ProcessPlBet PROVE ConnectsOutput
  <2>1. Processing("plBet")
    BY <1>1 DEF ProcessPlBet
  <2>2. Saves(Tx) /\ NamesEvent(Tx, Out.legs[1].event)
    BY AtProcessing, <2>1 DEF Saves, HasType, RecordTypes, NamesEvent, OnLegs, Ordinary
  <2>3. Out.legs[1].event \in DOMAIN view.events \cap DOMAIN cache.events
    BY AtProcessing, <2>1, <2>2, AtChecked
  <2>4. PICK event, bet, vUndos :
           AdvanceWithUndo([cache EXCEPT !.events = DbUpdate(@, Out.legs[1].event, event),
                                         !.bets = DbWrite(@, BetKey, bet)], vUndos)
    BY <1>1, <2>3 DEF ProcessPlBet
  <2> DEFINE c == [cache EXCEPT !.events = DbUpdate(@, Out.legs[1].event, event),
                                !.bets = DbWrite(@, BetKey, bet)]
  <2>5. /\ IsView(c) /\ c.undos = cache.undos /\ c.fieldEvents = cache.fieldEvents
        /\ c.events = DbUpdate(cache.events, Out.legs[1].event, event)
    BY <1>0, ExceptView DEF IsView, Databases
  <2>6. AdvanceWithUndo(c, vUndos)
    BY <2>4
  <2> HIDE DEF c
  <2>7. DOMAIN c.events = DOMAIN cache.events
    BY <2>5 DEF DbUpdate, Put
  <2> QED BY AtProcessing, <2>1, <2>2, <2>5, <2>6, <2>7, SavingOutput
<1>2. ASSUME ProcessPlParlayBet PROVE ConnectsOutput
  <2>1. Processing("plParlayBet")
    BY <1>2 DEF ProcessPlParlayBet
  <2>2. CASE Out.legs = <<>>
    <3>1. Advance(cache)
      BY <1>2, <2>2 DEF ProcessPlParlayBet
    <3>2. ~Saves(Tx)
      BY AtProcessing, <2>1, <2>2 DEF Saves, HasType
    <3> QED BY AtProcessing, <2>1, <3>1, <3>2, PlainOutput
  <2>3. CASE Out.legs # <<>>
    <3> DEFINE done == CountLegs(Out.legs)
    <3>1. Saves(Tx)
      BY AtProcessing, <2>1, <2>3 DEF Saves, HasType, RecordTypes
    <3>2. PICK bet : AdvanceWithUndo([cache EXCEPT !.events = done.events,
                                                   !.bets = DbWrite(@, BetKey, bet)], done.undos)
      BY <1>2, <2>3 DEF ProcessPlParlayBet
    <3>3. DOMAIN done.events = DOMAIN cache.events
      BY DEF CountLegs
    <3> DEFINE c == [cache EXCEPT !.events = done.events, !.bets = DbWrite(@, BetKey, bet)]
    <3> HIDE DEF done
    <3>4. /\ IsView(c) /\ c.undos = cache.undos /\ c.fieldEvents = cache.fieldEvents
          /\ c.events = done.events
      BY <1>0, ExceptView DEF IsView, Databases
    <3> HIDE DEF c
    <3> QED BY AtProcessing, <2>1, <3>1, <3>2, <3>3, <3>4, SavingOutput DEF c
  <2> QED BY <2>2, <2>3
<1>3. ASSUME ProcessMapping PROVE ConnectsOutput
  <2>1. Processing("mapping")
    BY <1>3 DEF ProcessMapping
  <2>2. ~Saves(Tx)
    BY AtProcessing, <2>1 DEF Saves, HasType, RecordTypes, PlUpdates, FieldUpdates
  <2>3. PICK c : Advance(c) /\ (c = cache \/ c = [cache EXCEPT !.mappings = @ \cup {Out.key}])
    BY <1>3 DEF ProcessMapping
  <2>4. c.undos = cache.undos /\ c.fieldEvents = cache.fieldEvents /\ c.events = cache.events
    BY <1>0, <2>3 DEF IsView, Databases
  <2> QED BY AtProcessing, <2>1, <2>2, <2>3, <2>4, PlainOutput
<1>4. ASSUME ProcessPlEvent PROVE ConnectsOutput
  <2>1. Processing("plEvent")
    BY <1>4 DEF ProcessPlEvent
  <2>2. ~Saves(Tx)
    BY AtProcessing, <2>1 DEF Saves, HasType, RecordTypes, PlUpdates, FieldUpdates
  <2>3. PICK event : Advance([cache EXCEPT !.events = DbWrite(@, Out.event, event)])
    BY <1>4 DEF ProcessPlEvent
  <2> DEFINE c == [cache EXCEPT !.events = DbWrite(@, Out.event, event)]
  <2>4. /\ c.undos = cache.undos /\ c.fieldEvents = cache.fieldEvents
        /\ c.events = DbWrite(cache.events, Out.event, event)
    BY <1>0 DEF IsView, Databases
  <2>5. Advance(c)
    BY <2>3
  <2> HIDE DEF c
  <2>6. DOMAIN cache.events \subseteq DOMAIN c.events
    BY <2>4 DEF DbWrite, Put
  <2> QED BY AtProcessing, <2>1, <2>2, <2>4, <2>5, <2>6, PlainOutput
<1>5. ASSUME ProcessPlResult PROVE ConnectsOutput
  <2>1. Processing("plResult")
    BY <1>5 DEF ProcessPlResult
  <2>2. ~Saves(Tx)
    BY AtProcessing, <2>1 DEF Saves, HasType, RecordTypes, PlUpdates, FieldUpdates
  <2>3. PICK c : /\ Advance(c) \/ \E e : AdvanceWithResult(c, e)
                 /\ \/ c = cache
                    \/ c = [cache EXCEPT !.results = DbWrite(@, Out.event, Out.result)]
    BY <1>5 DEF ProcessPlResult
  <2>4. c.undos = cache.undos /\ c.fieldEvents = cache.fieldEvents /\ c.events = cache.events
    BY <1>0, <2>3 DEF IsView, Databases
  <2> QED BY AtProcessing, <2>1, <2>2, <2>3, <2>4, PlainOutput
<1>6. ASSUME ProcessPlZeroing PROVE ConnectsOutput
  <2>1. Processing("plZeroing")
    BY <1>6 DEF ProcessPlZeroing
  <2> DEFINE done == ZeroEvents(Out.events)
  <2>2. Saves(Tx)
    BY AtProcessing, <2>1 DEF Saves, HasType, RecordTypes
  <2>3. \E i \in DOMAIN Out.events : Out.events[i] \in DOMAIN cache.events
    <3>1. PICK i \in DOMAIN Out.events : TRUE
      BY AtProcessing, <2>1 DEF Ordinary, HasType
    <3>2. NamesEvent(Tx, Out.events[i])
      BY AtProcessing, <2>1, <3>1 DEF NamesEvent, HasType
    <3> QED BY AtProcessing, <2>1, <3>2, AtChecked
  <2>4. ~(TipHeight < V4Start)
    <3>1. TipHeight >= V4Start
      BY AtProcessing, <2>1, AtChecked, CheckedOutput DEF CheckPlZeroing
    <3> QED BY <3>1, ChainSeq, HeightsAssumption
  <2>5. AdvanceWithUndo([cache EXCEPT !.events = done.events], done.undos)
    BY <1>6, <2>3, <2>4 DEF ProcessPlZeroing
  <2>6. DOMAIN done.events = DOMAIN cache.events
    BY DEF ZeroEvents
  <2> HIDE DEF done
  <2> DEFINE c == [cache EXCEPT !.events = done.events]
  <2>7. /\ IsView(c) /\ c.undos = cache.undos /\ c.fieldEvents = cache.fieldEvents
        /\ c.events = done.events
    BY <1>0, ExceptView DEF IsView, Databases
  <2> HIDE DEF c
  <2> QED BY AtProcessing, <2>1, <2>2, <2>5, <2>6, <2>7, SavingOutput DEF c
<1>7. ASSUME NEW type \in PlUpdates, ProcessPlUpdate(type) PROVE ConnectsOutput
  <2>1. Processing(type)
    BY <1>7 DEF ProcessPlUpdate
  <2>2. Saves(Tx) /\ NamesEvent(Tx, Out.event)
    BY AtProcessing, <2>1 DEF Saves, HasType, RecordTypes, NamesEvent, PlUpdates
  <2>3. Out.event \in DOMAIN cache.events
    BY AtProcessing, <2>1, <2>2, AtChecked
  <2> DEFINE c == [cache EXCEPT !.events[Out.event].info = ExtractDataFromTx(@, Out)]
  <2>4. PICK vUndos : AdvanceWithUndo(c, vUndos)
    BY <1>7, <2>3 DEF ProcessPlUpdate
  <2>5. /\ IsView(c) /\ c.undos = cache.undos /\ c.fieldEvents = cache.fieldEvents
        /\ DOMAIN c.events = DOMAIN cache.events
    BY <1>0 DEF IsView, Databases
  <2> HIDE DEF c
  <2> QED BY AtProcessing, <2>1, <2>2, <2>4, <2>5, SavingOutput
<1> QED BY <1>1, <1>2, <1>3, <1>4, <1>5, <1>6, <1>7

LEMMA FieldConnects ==
    ASSUME Ordinary, TypeOK, UInv
    PROVE  /\ ProcessFBet => ConnectsOutput
           /\ ProcessFParlayBet => ConnectsOutput
           /\ ProcessFEvent => ConnectsOutput
           /\ ProcessFResult => ConnectsOutput
           /\ \A type \in FieldUpdates : ProcessFUpdate(type) => ConnectsOutput
<1>0. IsView(cache)
  BY DEF TypeOK
<1>a. ASSUME NEW type \in V4Types, Processing(type) PROVE ~(TipHeight < V4Start)
  <2>1. HasType(Tx, V4Types) /\ Allowed(Tx, BlkHeight) /\ BlkHeight = TipHeight + 1 /\ TipHeight \in Nat
    BY <1>a, AtProcessing, AtChecked DEF HasType
  <2> QED BY <2>1, HeightsAssumption DEF Allowed
<1>1. ASSUME ProcessFBet PROVE ConnectsOutput
  <2>1. Processing("fBet")
    BY <1>1 DEF ProcessFBet
  <2>2. Saves(Tx) /\ NamesFieldEvent(Tx, Out.legs[1].event)
    BY AtProcessing, <2>1 DEF Saves, HasType, RecordTypes, NamesFieldEvent, OnLegs, Ordinary
  <2>3. Out.legs[1].event \in DOMAIN view.fieldEvents \cap DOMAIN cache.fieldEvents
    BY AtProcessing, <2>1, <2>2, AtChecked
  <2>4. ~(TipHeight < V4Start)
    BY <1>a, <2>1 DEF V4Types
  <2>5. PICK event, bet, vUndos :
           AdvanceWithUndo([cache EXCEPT !.fieldEvents = DbUpdate(@, Out.legs[1].event, event),
                                         !.fieldBets = DbWrite(@, BetKey, bet)], vUndos)
    BY <1>1, <2>3, <2>4 DEF ProcessFBet
  <2> DEFINE c == [cache EXCEPT !.fieldEvents = DbUpdate(@, Out.legs[1].event, event),
                                !.fieldBets = DbWrite(@, BetKey, bet)]
  <2>6. /\ IsView(c) /\ c.undos = cache.undos /\ c.events = cache.events
        /\ c.fieldEvents = DbUpdate(cache.fieldEvents, Out.legs[1].event, event)
    BY <1>0, ExceptView DEF IsView, Databases
  <2>7. AdvanceWithUndo(c, vUndos)
    BY <2>5
  <2> HIDE DEF c
  <2>8. DOMAIN c.fieldEvents = DOMAIN cache.fieldEvents
    BY <2>6 DEF DbUpdate, Put
  <2> QED BY AtProcessing, <2>1, <2>2, <2>6, <2>7, <2>8, SavingOutput
<1>2. ASSUME ProcessFParlayBet PROVE ConnectsOutput
  <2>1. Processing("fParlayBet")
    BY <1>2 DEF ProcessFParlayBet
  <2>2. CASE Out.legs = <<>>
    <3>1. Advance(cache)
      BY <1>2, <2>2 DEF ProcessFParlayBet
    <3>2. ~Saves(Tx)
      BY AtProcessing, <2>1, <2>2 DEF Saves, HasType
    <3> QED BY AtProcessing, <2>1, <3>1, <3>2, PlainOutput
  <2>3. CASE Out.legs # <<>>
    <3> DEFINE done == CountFieldLegs(Out.legs)
    <3>1. Saves(Tx)
      BY AtProcessing, <2>1, <2>3 DEF Saves, HasType, RecordTypes
    <3>2. ~(TipHeight < V4Start)
      BY <1>a, <2>1 DEF V4Types
    <3>3. PICK bet : AdvanceWithUndo([cache EXCEPT !.fieldEvents = done.fieldEvents,
                                                   !.fieldBets = DbWrite(@, BetKey, bet)], done.undos)
      BY <1>2, <2>3, <3>2 DEF ProcessFParlayBet
    <3>4. DOMAIN done.fieldEvents = DOMAIN cache.fieldEvents
      BY DEF CountFieldLegs
    <3> DEFINE c == [cache EXCEPT !.fieldEvents = done.fieldEvents, !.fieldBets = DbWrite(@, BetKey, bet)]
    <3> HIDE DEF done
    <3>5. /\ IsView(c) /\ c.undos = cache.undos /\ c.events = cache.events
          /\ c.fieldEvents = done.fieldEvents
      BY <1>0, ExceptView DEF IsView, Databases
    <3> HIDE DEF c
    <3> QED BY AtProcessing, <2>1, <3>1, <3>3, <3>4, <3>5, SavingOutput DEF c
  <2> QED BY <2>2, <2>3
<1>3. ASSUME ProcessFEvent PROVE ConnectsOutput
  <2>1. Processing("fEvent")
    BY <1>3 DEF ProcessFEvent
  <2>2. ~Saves(Tx)
    BY AtProcessing, <2>1 DEF Saves, HasType, RecordTypes, PlUpdates, FieldUpdates
  <2>3. CASE Advance(cache)
    BY AtProcessing, <2>1, <2>2, <2>3, PlainOutput
  <2>4. ASSUME NEW event, Advance([cache EXCEPT !.fieldEvents = DbWrite(@, Out.event, event)])
        PROVE  ConnectsOutput
    <3> DEFINE c == [cache EXCEPT !.fieldEvents = DbWrite(@, Out.event, event)]
    <3>1. /\ c.undos = cache.undos /\ c.events = cache.events
          /\ c.fieldEvents = DbWrite(cache.fieldEvents, Out.event, event)
      BY <1>0 DEF IsView, Databases
    <3>2. Advance(c)
      BY <2>4
    <3> HIDE DEF c
    <3>3. DOMAIN cache.fieldEvents \subseteq DOMAIN c.fieldEvents
      BY <3>1 DEF DbWrite, Put
    <3> QED BY AtProcessing, <2>1, <2>2, <3>1, <3>2, <3>3, PlainOutput
  <2> QED BY <1>3, <2>3, <2>4 DEF ProcessFEvent
<1>4. ASSUME ProcessFResult PROVE ConnectsOutput
  <2>1. Processing("fResult")
    BY <1>4 DEF ProcessFResult
  <2>2. ~Saves(Tx)
    BY AtProcessing, <2>1 DEF Saves, HasType, RecordTypes, PlUpdates, FieldUpdates
  <2>3. PICK c : /\ Advance(c) \/ \E e : AdvanceWithResult(c, e)
                 /\ \/ c = cache
                    \/ \E result : c = [cache EXCEPT !.fieldResults = DbWrite(@, Out.event, result)]
    BY <1>4 DEF ProcessFResult
  <2>4. c.undos = cache.undos /\ c.fieldEvents = cache.fieldEvents /\ c.events = cache.events
    BY <1>0, <2>3 DEF IsView, Databases
  <2> QED BY AtProcessing, <2>1, <2>2, <2>3, <2>4, PlainOutput
<1>5. ASSUME NEW type \in FieldUpdates, ProcessFUpdate(type) PROVE ConnectsOutput
  <2>1. Processing(type)
    BY <1>5 DEF ProcessFUpdate
  <2>2. Saves(Tx) /\ NamesFieldEvent(Tx, Out.event)
    BY AtProcessing, <2>1 DEF Saves, HasType, RecordTypes, NamesFieldEvent, FieldUpdates
  <2>3. Out.event \in DOMAIN cache.fieldEvents
    BY AtProcessing, <2>1, <2>2, AtChecked
  <2>4. TipHeight >= V4Start
    <3>1. ~(TipHeight < V4Start)
      BY <1>a, <2>1 DEF V4Types
    <3> QED BY <3>1, ChainSeq, HeightsAssumption
  <2> DEFINE c == [cache EXCEPT !.fieldEvents[Out.event] = UpdatedField(@, Out)]
  <2>5. PICK vUndos : AdvanceWithUndo(c, vUndos)
    BY <1>5, <2>3, <2>4 DEF ProcessFUpdate
  <2>6. /\ IsView(c) /\ c.undos = cache.undos /\ c.events = cache.events
        /\ DOMAIN c.fieldEvents = DOMAIN cache.fieldEvents
    BY <1>0 DEF IsView, Databases
  <2> HIDE DEF c
  <2> QED BY AtProcessing, <2>1, <2>2, <2>5, <2>6, SavingOutput
<1> QED BY <1>1, <1>2, <1>3, <1>4, <1>5

LEMMA GamesConnect ==
    ASSUME Ordinary, TypeOK, UInv
    PROVE  ProcessCgBet \/ ProcessQgBet \/ ProcessCgEvent \/ ProcessCgResult => ConnectsOutput
<1> SUFFICES ASSUME ProcessCgBet \/ ProcessQgBet \/ ProcessCgEvent \/ ProcessCgResult PROVE ConnectsOutput
  OBVIOUS
<1>0. IsView(cache)
  BY DEF TypeOK
<1>1. PICK type \in {"cgBet", "qgBet", "cgEvent", "cgResult"} : Processing(type)
  BY DEF ProcessCgBet, ProcessQgBet, ProcessCgEvent, ProcessCgResult
<1>2. ~Saves(Tx)
  BY <1>1, AtProcessing DEF Saves, HasType, RecordTypes, PlUpdates, FieldUpdates
<1>3. PICK c : /\ Advance(c) \/ \E e : AdvanceWithResult(c, e)
               /\ \/ c = cache
                  \/ \E db : c = [cache EXCEPT !.chainGamesLottoBets = db]
                  \/ \E db : c = [cache EXCEPT !.quickGamesBets = db]
                  \/ \E db : c = [cache EXCEPT !.chainGamesLottoEvents = db]
                  \/ \E db : c = [cache EXCEPT !.chainGamesLottoResults = db]
  <2>1. CASE ProcessCgBet
    BY <2>1 DEF ProcessCgBet
  <2>2. CASE ProcessQgBet
    BY <2>2 DEF ProcessQgBet
  <2>3. CASE ProcessCgEvent
    BY <2>3 DEF ProcessCgEvent
  <2>4. CASE ProcessCgResult
    BY <2>4 DEF ProcessCgResult
  <2> QED BY <2>1, <2>2, <2>3, <2>4
<1>4. c.undos = cache.undos /\ c.fieldEvents = cache.fieldEvents /\ c.events = cache.events
  BY <1>0, <1>3 DEF IsView, Databases
<1> QED BY <1>1, <1>2, <1>3, <1>4, AtProcessing, PlainOutput

-----------------------------------------------------------------------------
\* The other direction.  What the transaction at hand needs to be undone is
\* there: it is handled, at the height of the tip.
LEMMA AtUndoing ==
    ASSUME Ordinary, TypeOK, UInv, NEW type, Undoing(type)
    PROVE  /\ mode = "disconnect" /\ AtOutput /\ First(Tx).type = type /\ Out = First(Tx)
           /\ Tx \in Txs /\ UndoKey = <<Tx.id, 1>>
           /\ BlkHeight = TipHeight /\ Allowed(Tx, TipHeight)
           /\ \A e : NamesEvent(Tx, e) => e \in DOMAIN cache.events
           /\ \A e : NamesFieldEvent(Tx, e) => e \in DOMAIN cache.fieldEvents
           /\ Saves(Tx) => UndoKey \in DOMAIN cache.undos
<1>1. mode = "disconnect" /\ AtOutput /\ Out.type = type
  BY HandlesAtOutput DEF Undoing, Handles
<1>2. BlkHeight = TipHeight /\ TipHeight \in Nat
  BY <1>1, ChainSeq DEF BlkHeight
<1>3. MinedAt(Tx, TipHeight)
  <2>1. Len(chain) \in DOMAIN chain /\ pos.tx \in DOMAIN chain[Len(chain)].txs
            /\ Tx = chain[Len(chain)].txs[pos.tx]
    BY <1>1, AtTx, ChainSeq DEF UInv, Once
  <2> QED BY <2>1, ChainSeq DEF MinedAt
<1>4. Handled(Tx, TipHeight)
  BY <1>1, <1>3, AtTx DEF Handled
<1>5. NamedKnown /\ RecordsKept /\ TipHeight + MaxUndoDepth >= peak
  BY <1>1 DEF UInv
<1> QED BY <1>1, <1>2, <1>4, <1>5, AtTx DEF NamedKnown, RecordsKept

\* What writing the saved events back leaves alone.
LEMMA Reverted ==
    ASSUME NEW c, IsView(c), NEW key
    PROVE  LET d == UndoEventChanges(c, key)
           IN  /\ IsView(d)
               /\ DOMAIN d.events = DOMAIN c.events
               /\ DOMAIN d.fieldEvents = DOMAIN c.fieldEvents
               /\ d.undos = DbErase(c.undos, key)
<1> DEFINE v == GetBettingUndo(c, key)
           d == UndoEventChanges(c, key)
<1>1. /\ IsView(d) /\ d.events = RestoreEvents(c.events, v, "peerless")
      /\ d.fieldEvents = RestoreEvents(c.fieldEvents, v, "field")
      /\ d.undos = DbErase(c.undos, key)
  BY DEF UndoEventChanges, IsView, Databases
<1>2. \A db, kind : DOMAIN RestoreEvents(db, v, kind) = DOMAIN db
  BY DEF RestoreEvents
<1> HIDE DEF d, v
<1> QED BY <1>1, <1>2 DEF d

\* A handler that reverts an event does so.
LEMMA RevertingOutput ==
    ASSUME Ordinary, TypeOK, UInv, NEW type, Undoing(type), Saves(Tx),
           NEW c, c.undos = DbErase(cache.undos, UndoKey),
           DOMAIN c.events = DOMAIN cache.events, DOMAIN c.fieldEvents = DOMAIN cache.fieldEvents,
           RevertOr(c)
    PROVE  DisconnectsOutput
<1>1. Advance(c)
  BY AtUndoing DEF RevertOr
<1>2. MovesTo(c)
  BY <1>1 DEF Advance, MovesTo
<1>3. Undone(c)
  BY AtUndoing DEF Undone
<1> QED BY <1>2, <1>3, AtUndoing DEF DisconnectsOutput

LEMMA PlainUndo ==
    ASSUME Ordinary, TypeOK, UInv, NEW type, Undoing(type), ~Saves(Tx),
           NEW c, c.undos = cache.undos,
           \A e \in DOMAIN cache.events :
               e \in DOMAIN c.events \/ (HasType(Tx, {"plEvent"}) /\ First(Tx).event = e),
           \A e \in DOMAIN cache.fieldEvents :
               e \in DOMAIN c.fieldEvents \/ (HasType(Tx, {"fEvent"}) /\ First(Tx).event = e),
           Advance(c)
    PROVE  DisconnectsOutput
<1>1. MovesTo(c)
  BY DEF Advance, MovesTo
<1>2. Undone(c)
  BY DEF Undone
<1> QED BY <1>1, <1>2, AtUndoing DEF DisconnectsOutput

LEMMA PeerlessDisconnects ==
    ASSUME Ordinary, TypeOK, UInv
    PROVE  /\ \A type \in {"plBet", "plParlayBet"} : UndoPeerlessBet(type) => DisconnectsOutput
           /\ UndoMapping => DisconnectsOutput
           /\ UndoPlEvent => DisconnectsOutput
           /\ UndoPlResult => DisconnectsOutput
           /\ UndoPlZeroing => DisconnectsOutput
           /\ \A type \in PlUpdates : UndoPlUpdate(type) => DisconnectsOutput
<1>0. IsView(cache)
  BY DEF TypeOK
<1> DEFINE d == UndoEventChanges(cache, UndoKey)
<1>d. /\ IsView(d) /\ d.undos = DbErase(cache.undos, UndoKey)
      /\ DOMAIN d.events = DOMAIN cache.events /\ DOMAIN d.fieldEvents = DOMAIN cache.fieldEvents
  BY <1>0, Reverted
<1> HIDE DEF d
<1>1. ASSUME NEW type \in {"plBet", "plParlayBet"}, UndoPeerlessBet(type) PROVE DisconnectsOutput
  <2>1. Undoing(type)
    BY <1>1 DEF UndoPeerlessBet
  <2>2. First(Tx).type \in {"plBet", "plParlayBet"} /\ Out = First(Tx)
    BY <2>1, AtUndoing
  <2>3. CASE Out.legs = <<>>
    <3>1. First(Tx).type = "plParlayBet"
      <4>1. First(Tx).type = "plBet" => DOMAIN Out.legs = {1}
        BY <2>1, <2>2, AtUndoing DEF Ordinary, HasType
      <4>2. DOMAIN Out.legs = {}
        BY <2>3
      <4> QED BY <2>2, <4>1, <4>2
    <3>2. ~Saves(Tx) /\ Advance(cache)
      BY <1>1, <2>2, <2>3, <3>1 DEF Saves, HasType, UndoPeerlessBet
    <3> QED BY <2>1, <3>2, PlainUndo
  <2>4. CASE Out.legs # <<>>
    <3>1. Saves(Tx)
      BY <2>2, <2>4 DEF Saves, HasType, RecordTypes
    <3>2. \A i \in DOMAIN Out.legs : NamesEvent(Tx, Out.legs[i].event)
      BY <2>2 DEF NamesEvent, HasType, OnLegs
    <3>3. RevertOr([d EXCEPT !.bets = DbErase(@, BetKey)])
      BY <1>1, <2>1, <2>4, <3>2, AtUndoing DEF UndoPeerlessBet, d
    <3> DEFINE c == [d EXCEPT !.bets = DbErase(@, BetKey)]
    <3>4. c.undos = d.undos /\ c.events = d.events /\ c.fieldEvents = d.fieldEvents
      BY <1>d DEF IsView, Databases
    <3>5. RevertOr(c)
      BY <3>3
    <3> HIDE DEF c
    <3> QED BY <1>d, <2>1, <3>1, <3>4, <3>5, RevertingOutput
  <2> QED BY <2>3, <2>4
<1>2. ASSUME UndoMapping PROVE DisconnectsOutput
  <2>1. Undoing("mapping")
    BY <1>2 DEF UndoMapping
  <2>2. ~Saves(Tx) /\ Out = First(Tx) /\ HasType(Tx, {"mapping"})
    BY <2>1, AtUndoing DEF Saves, HasType, RecordTypes, PlUpdates, FieldUpdates
  <2>3. ~(Out.key[1] \in V4Mappings /\ BlkHeight < V4Start)
    <3>1. Allowed(Tx, TipHeight) /\ BlkHeight = TipHeight /\ TipHeight \in Nat /\ V4Start \in Nat
      BY <2>1, AtUndoing, ChainSeq, HeightsAssumption
    <3> QED BY <2>2, <3>1 DEF Allowed
  <2> DEFINE c == [cache EXCEPT !.mappings = @ \ {Out.key}]
  <2>4. Advance(c)
    BY <1>2, <2>3 DEF UndoMapping
  <2>5. c.undos = cache.undos /\ c.fieldEvents = cache.fieldEvents /\ c.events = cache.events
    BY <1>0 DEF IsView, Databases
  <2> HIDE DEF c
  <2> QED BY <2>1, <2>2, <2>4, <2>5, PlainUndo
<1>3. ASSUME UndoPlEvent PROVE DisconnectsOutput
  <2>1. Undoing("plEvent")
    BY <1>3 DEF UndoPlEvent
  <2>2. ~Saves(Tx) /\ Out = First(Tx) /\ HasType(Tx, {"plEvent"})
    BY <2>1, AtUndoing DEF Saves, HasType, RecordTypes, PlUpdates, FieldUpdates
  <2> DEFINE c == [cache EXCEPT !.events = DbErase(@, Out.event)]
  <2>3. Advance(c)
    BY <1>3 DEF UndoPlEvent
  <2>4. c.undos = cache.undos /\ c.fieldEvents = cache.fieldEvents
            /\ c.events = DbErase(cache.events, Out.event)
    BY <1>0 DEF IsView, Databases
  <2> HIDE DEF c
  <2>5. \A e \in DOMAIN cache.events : e \in DOMAIN c.events \/ First(Tx).event = e
    BY <2>2, <2>4 DEF DbErase, Restrict
  <2> QED BY <2>1, <2>2, <2>3, <2>4, <2>5, PlainUndo
<1>4. ASSUME UndoPlResult PROVE DisconnectsOutput
  <2>1. Undoing("plResult")
    BY <1>4 DEF UndoPlResult
  <2>2. ~Saves(Tx)
    BY <2>1, AtUndoing DEF Saves, HasType, RecordTypes, PlUpdates, FieldUpdates
  <2> DEFINE c == [cache EXCEPT !.results = DbErase(@, Out.event)]
  <2>3. Advance(c)
    BY <1>4 DEF UndoPlResult
  <2>4. c.undos = cache.undos /\ c.fieldEvents = cache.fieldEvents /\ c.events = cache.events
    BY <1>0 DEF IsView, Databases
  <2> HIDE DEF c
  <2> QED BY <2>1, <2>2, <2>3, <2>4, PlainUndo
<1>5. ASSUME UndoPlZeroing PROVE DisconnectsOutput
  <2>1. Undoing("plZeroing")
    BY <1>5 DEF UndoPlZeroing
  <2>2. Saves(Tx) /\ HasType(Tx, V4Types) /\ Out = First(Tx) /\ HasType(Tx, {"plZeroing"})
    BY <2>1, AtUndoing DEF Saves, HasType, RecordTypes, V4Types
  <2>3. \A i \in DOMAIN Out.events : NamesEvent(Tx, Out.events[i])
    BY <2>2 DEF NamesEvent
  <2>4. BlkHeight >= V4Start
    BY <2>1, <2>2, AtUndoing, ChainSeq, HeightsAssumption DEF Allowed
  <2>5. RevertOr(d)
    BY <1>5, <2>1, <2>3, <2>4, AtUndoing DEF UndoPlZeroing, d
  <2> QED BY <1>d, <2>1, <2>2, <2>5, RevertingOutput
<1>6. ASSUME NEW type \in PlUpdates, UndoPlUpdate(type) PROVE DisconnectsOutput
  <2>1. Undoing(type)
    BY <1>6 DEF UndoPlUpdate
  <2>2. Saves(Tx) /\ NamesEvent(Tx, Out.event)
    BY <2>1, AtUndoing DEF Saves, HasType, RecordTypes, NamesEvent, PlUpdates
  <2>3. RevertOr(d)
    BY <1>6, <2>1, <2>2, AtUndoing DEF UndoPlUpdate, d
  <2> QED BY <1>d, <2>1, <2>2, <2>3, RevertingOutput
<1> QED BY <1>1, <1>2, <1>3, <1>4, <1>5, <1>6

LEMMA FieldDisconnects ==
    ASSUME Ordinary, TypeOK, UInv
    PROVE  /\ \A type \in {"fBet", "fParlayBet"} : UndoFieldBet(type) => DisconnectsOutput
           /\ UndoFEvent => DisconnectsOutput
           /\ UndoFResult => DisconnectsOutput
           /\ \A type \in FieldUpdates : UndoFUpdate(type) => DisconnectsOutput
<1>0. IsView(cache)
  BY DEF TypeOK
<1> DEFINE d == UndoEventChanges(cache, UndoKey)
<1>d. /\ IsView(d) /\ d.undos = DbErase(cache.undos, UndoKey)
      /\ DOMAIN d.events = DOMAIN cache.events /\ DOMAIN d.fieldEvents = DOMAIN cache.fieldEvents
  BY <1>0, Reverted
<1> HIDE DEF d
<1>v. ASSUME NEW type \in V4Types, Undoing(type) PROVE BlkHeight >= V4Start
  <2>1. HasType(Tx, V4Types) /\ Allowed(Tx, TipHeight) /\ BlkHeight = TipHeight
    BY <1>v, AtUndoing DEF HasType
  <2> QED BY <2>1, ChainSeq, HeightsAssumption DEF Allowed
<1>1. ASSUME NEW type \in {"fBet", "fParlayBet"}, UndoFieldBet(type) PROVE DisconnectsOutput
  <2>1. Undoing(type)
    BY <1>1 DEF UndoFieldBet
  <2>2. First(Tx).type \in {"fBet", "fParlayBet"} /\ Out = First(Tx)
    BY <2>1, AtUndoing
  <2>3. CASE Out.legs = <<>>
    <3>1. First(Tx).type = "fParlayBet"
      <4>1. First(Tx).type = "fBet" => DOMAIN Out.legs = {1}
        BY <2>1, <2>2, AtUndoing DEF Ordinary, HasType
      <4>2. DOMAIN Out.legs = {}
        BY <2>3
      <4> QED BY <2>2, <4>1, <4>2
    <3>2. ~Saves(Tx) /\ Advance(cache)
      BY <1>1, <2>2, <2>3, <3>1 DEF Saves, HasType, UndoFieldBet
    <3> QED BY <2>1, <3>2, PlainUndo
  <2>4. CASE Out.legs # <<>>
    <3>1. Saves(Tx)
      BY <2>2, <2>4 DEF Saves, HasType, RecordTypes
    <3>2. \A i \in DOMAIN Out.legs : NamesFieldEvent(Tx, Out.legs[i].event)
      BY <2>2 DEF NamesFieldEvent, HasType, OnLegs
    <3> DEFINE c == [d EXCEPT !.fieldBets = DbErase(@, BetKey)]
    <3>3. BlkHeight >= V4Start
      BY <1>v, <2>1 DEF V4Types
    <3>4. RevertOr(c)
      BY <1>1, <2>1, <2>4, <3>2, <3>3, AtUndoing DEF UndoFieldBet, d
    <3>5. c.undos = d.undos /\ c.events = d.events /\ c.fieldEvents = d.fieldEvents
      BY <1>d DEF IsView, Databases
    <3> HIDE DEF c
    <3> QED BY <1>d, <2>1, <3>1, <3>4, <3>5, RevertingOutput
  <2> QED BY <2>3, <2>4
<1>2. ASSUME UndoFEvent PROVE DisconnectsOutput
  <2>1. Undoing("fEvent")
    BY <1>2 DEF UndoFEvent
  <2>2. ~Saves(Tx) /\ Out = First(Tx) /\ HasType(Tx, {"fEvent"})
    BY <2>1, AtUndoing DEF Saves, HasType, RecordTypes, PlUpdates, FieldUpdates
  <2> DEFINE c == [cache EXCEPT !.fieldEvents = DbErase(@, Out.event)]
  <2>3. Advance(c)
    BY <1>2, <1>v, <2>1 DEF UndoFEvent, V4Types
  <2>4. c.undos = cache.undos /\ c.events = cache.events
            /\ c.fieldEvents = DbErase(cache.fieldEvents, Out.event)
    BY <1>0 DEF IsView, Databases
  <2> HIDE DEF c
  <2>5. \A e \in DOMAIN cache.fieldEvents : e \in DOMAIN c.fieldEvents \/ First(Tx).event = e
    BY <2>2, <2>4 DEF DbErase, Restrict
  <2> QED BY <2>1, <2>2, <2>3, <2>4, <2>5, PlainUndo
<1>3. ASSUME UndoFResult PROVE DisconnectsOutput
  <2>1. Undoing("fResult")
    BY <1>3 DEF UndoFResult
  <2>2. ~Saves(Tx)
    BY <2>1, AtUndoing DEF Saves, HasType, RecordTypes, PlUpdates, FieldUpdates
  <2>3. PICK c : Advance(c) /\ (c = cache \/ c = [cache EXCEPT !.fieldResults = DbErase(@, Out.event)])
    BY <1>3 DEF UndoFResult
  <2>4. c.undos = cache.undos /\ c.fieldEvents = cache.fieldEvents /\ c.events = cache.events
    BY <1>0, <2>3 DEF IsView, Databases
  <2> QED BY <2>1, <2>2, <2>3, <2>4, PlainUndo
<1>4. ASSUME NEW type \in FieldUpdates, UndoFUpdate(type) PROVE DisconnectsOutput
  <2>1. Undoing(type)
    BY <1>4 DEF UndoFUpdate
  <2>2. Saves(Tx) /\ NamesFieldEvent(Tx, Out.event)
    BY <2>1, AtUndoing DEF Saves, HasType, RecordTypes, NamesFieldEvent, FieldUpdates
  <2>3. BlkHeight >= V4Start
    BY <1>v, <2>1 DEF V4Types
  <2>4. RevertOr(d)
    BY <1>4, <2>1, <2>2, <2>3, AtUndoing DEF UndoFUpdate, d
  <2> QED BY <1>d, <2>1, <2>2, <2>4, RevertingOutput
<1> QED BY <1>1, <1>2, <1>3, <1>4

\* A game may be missing an entry to erase.
LEMMA GamesDisconnect ==
    ASSUME Ordinary, TypeOK, UInv, UndoCgBet \/ UndoQgBet \/ UndoCgEvent \/ UndoCgResult
    PROVE  Abort \/ DisconnectsOutput
<1>0. IsView(cache)
  BY DEF TypeOK
<1>1. PICK type \in {"cgBet", "qgBet", "cgEvent", "cgResult"} : Undoing(type)
  BY DEF UndoCgBet, UndoQgBet, UndoCgEvent, UndoCgResult
<1>2. ~Saves(Tx)
  BY <1>1, AtUndoing DEF Saves, HasType, RecordTypes, PlUpdates, FieldUpdates
<1>3. \/ Abort
      \/ \E c : /\ Advance(c)
                /\ \/ c = cache
                   \/ \E db : c = [cache EXCEPT !.chainGamesLottoBets = db]
                   \/ \E db : c = [cache EXCEPT !.quickGamesBets = db]
                   \/ \E db : c = [cache EXCEPT !.chainGamesLottoEvents = db]
                   \/ \E db : c = [cache EXCEPT !.chainGamesLottoResults = db]
  <2>1. CASE UndoCgBet
    BY <2>1 DEF UndoCgBet, EraseOr
  <2>2. CASE UndoQgBet
    BY <2>2 DEF UndoQgBet, EraseOr
  <2>3. CASE UndoCgEvent
    BY <2>3 DEF UndoCgEvent, EraseOr
  <2>4. CASE UndoCgResult
    BY <2>4 DEF UndoCgResult, EraseOr
  <2> QED BY <2>1, <2>2, <2>3, <2>4
<1>4. ASSUME NEW c, Advance(c),
             \/ c = cache
             \/ \E db : c = [cache EXCEPT !.chainGamesLottoBets = db]
             \/ \E db : c = [cache EXCEPT !.quickGamesBets = db]
             \/ \E db : c = [cache EXCEPT !.chainGamesLottoEvents = db]
             \/ \E db : c = [cache EXCEPT !.chainGamesLottoResults = db]
      PROVE  DisconnectsOutput
  <2>1. c.undos = cache.undos /\ c.fieldEvents = cache.fieldEvents /\ c.events = cache.events
    BY <1>0, <1>4 DEF IsView, Databases
  <2> QED BY <1>1, <1>2, <1>4, <2>1, PlainUndo
<1> QED BY <1>3, <1>4

\* No output is skipped: an oracle's is from an oracle.
LEMMA NothingSkipped ==
    ASSUME Ordinary, TypeOK, UInv
    PROVE  ~SkipOutput
<1> SUFFICES ASSUME SkipOutput PROVE FALSE
  OBVIOUS
<1>1. AtOutput /\ Out.type \in OracleTypes /\ ~Tx.oracle
  BY DEF SkipOutput, AtOutput
<1>2. Out = First(Tx) /\ HasType(Tx, OracleTypes)
  BY <1>1, AtTx DEF HasType
<1>3. CASE mode = "connect"
  BY <1>1, <1>2, <1>3, AtChecked DEF Allowed
<1>4. CASE mode = "disconnect"
  <2>1. Len(chain) \in DOMAIN chain /\ pos.tx \in DOMAIN chain[Len(chain)].txs
            /\ Tx = chain[Len(chain)].txs[pos.tx]
    BY <1>1, <1>4, AtTx, ChainSeq DEF UInv, Once
  <2>2. MinedAt(Tx, TipHeight) /\ TipHeight \in Nat
    BY <2>1, ChainSeq DEF MinedAt
  <2>3. Handled(Tx, TipHeight)
    BY <1>1, <1>4, <2>2, AtTx DEF Handled
  <2> QED BY <1>1, <1>2, <1>4, <2>2, <2>3, AtTx DEF UInv, NamedKnown, Allowed
<1> QED BY <1>3, <1>4 DEF SkipOutput

\* All handlers together.
LEMMA Outputs ==
    ASSUME Ordinary, TypeOK, UInv, SkipOutput \/ PeerlessStep \/ FieldStep \/ GamesStep
    PROVE  ConnectsOutput \/ DisconnectsOutput \/ Abort
<1>1. CASE PeerlessStep
  BY <1>1, PeerlessConnects, PeerlessDisconnects DEF PeerlessStep
<1>2. CASE FieldStep
  BY <1>2, FieldConnects, FieldDisconnects DEF FieldStep
<1>3. CASE GamesStep
  BY <1>3, GamesConnect, GamesDisconnect DEF GamesStep
<1> QED BY <1>1, <1>2, <1>3, NothingSkipped

-----------------------------------------------------------------------------
\* A handled transaction is one of Txs, up to the height at hand.
LEMMA HandledHeights ==
    ASSUME TypeOK, NEW tx, NEW h, Handled(tx, h)
    PROVE  /\ tx \in Txs /\ h \in Nat
           /\ h <= BlkHeight
           /\ mode = "connect" => MinedAt(tx, h) \/ (h = BlkHeight /\ \E j \in DOMAIN blk.txs : blk.txs[j] = tx)
<1>1. TipHeight \in Nat /\ BlkHeight \in Nat /\ TipHeight <= BlkHeight
  BY ChainSeq DEF BlkHeight
<1>2. CASE MinedAt(tx, h)
  BY <1>1, <1>2, MinedBelow
<1>3. CASE h = BlkHeight /\ \E j \in DOMAIN blk.txs : blk.txs[j] = tx
  <2>1. tx \in Txs
    BY <1>3, LenProperties, ElementOfSeq DEF TypeOK
  <2> QED BY <1>1, <1>3, <2>1
<1> QED BY <1>2, <1>3 DEF Handled

\* The check reads bettingsView and the height of the tip.
LEMMA CheckStays ==
    ASSUME view' = view, chain' = chain, NEW tx
    PROVE  CheckBettingTx(tx)' = CheckBettingTx(tx)
<1>1. TipHeight' = TipHeight
  BY DEF TipHeight
<1>2. ASSUME NEW out
      PROVE  /\ CheckPlBet(out)' = CheckPlBet(out)
             /\ CheckPlParlayBet(out)' = CheckPlParlayBet(out)
             /\ CheckMapping(out)' = CheckMapping(out)
             /\ CheckPlEvent(out)' = CheckPlEvent(out)
             /\ CheckPlResult(out)' = CheckPlResult(out)
             /\ CheckPlUpdate(out)' = CheckPlUpdate(out)
             /\ CheckPlZeroing(out)' = CheckPlZeroing(out)
  <2>1. \A leg : LegOpen(leg)' = LegOpen(leg)
    BY <1>1 DEF LegOpen
  <2>2. CheckPlBet(out)' = CheckPlBet(out)
    BY <2>1 DEF CheckPlBet
  <2>3. CheckPlParlayBet(out)' = CheckPlParlayBet(out)
    BY <1>1, <2>1 DEF CheckPlParlayBet
  <2> QED BY <1>1, <2>2, <2>3 DEF CheckMapping, CheckPlEvent, CheckPlResult, CheckPlUpdate, CheckPlZeroing
<1>3. ASSUME NEW out
      PROVE  /\ CheckFBet(out)' = CheckFBet(out)
             /\ CheckFParlayBet(out)' = CheckFParlayBet(out)
             /\ CheckFEvent(out)' = CheckFEvent(out)
             /\ CheckFUpdate(out)' = CheckFUpdate(out)
             /\ CheckFResult(out)' = CheckFResult(out)
  <2>1. \A leg : FieldLegOpen(leg)' = FieldLegOpen(leg)
    BY DEF FieldLegOpen
  <2>2. \A ids : KnownContenders(ids)' = KnownContenders(ids)
    BY DEF KnownContenders
  <2>3. CheckFBet(out)' = CheckFBet(out)
    BY <1>1, <2>1 DEF CheckFBet
  <2>4. CheckFParlayBet(out)' = CheckFParlayBet(out)
    BY <1>1, <2>1 DEF CheckFParlayBet
  <2>5. CheckFEvent(out)' = CheckFEvent(out) /\ CheckFUpdate(out)' = CheckFUpdate(out)
    BY <1>1, <2>2 DEF CheckFEvent, CheckFUpdate
  <2>6. CheckFResult(out)' = CheckFResult(out)
    BY <1>1, <2>2 DEF CheckFResult
  <2> QED BY <2>3, <2>4, <2>5, <2>6
<1>4. ASSUME NEW out
      PROVE  /\ CheckCgBet(out)' = CheckCgBet(out)
             /\ CheckQgBet(out)' = CheckQgBet(out)
             /\ CheckCgEvent(out)' = CheckCgEvent(out)
             /\ CheckCgResult(out)' = CheckCgResult(out)
  BY <1>1 DEF CheckCgBet, CheckQgBet, CheckCgEvent, CheckCgResult, GamesOpen
<1> DEFINE out == tx.outs[1]
<1> HIDE DEF out
<1>5. /\ CheckPlBet(out)' = CheckPlBet(out)
      /\ CheckPlParlayBet(out)' = CheckPlParlayBet(out)
      /\ CheckMapping(out)' = CheckMapping(out)
      /\ CheckPlEvent(out)' = CheckPlEvent(out)
      /\ CheckPlResult(out)' = CheckPlResult(out)
      /\ CheckPlUpdate(out)' = CheckPlUpdate(out)
      /\ CheckPlZeroing(out)' = CheckPlZeroing(out)
      /\ CheckFBet(out)' = CheckFBet(out)
      /\ CheckFParlayBet(out)' = CheckFParlayBet(out)
      /\ CheckFEvent(out)' = CheckFEvent(out)
      /\ CheckFUpdate(out)' = CheckFUpdate(out)
      /\ CheckFResult(out)' = CheckFResult(out)
      /\ CheckCgBet(out)' = CheckCgBet(out)
      /\ CheckQgBet(out)' = CheckQgBet(out)
      /\ CheckCgEvent(out)' = CheckCgEvent(out)
      /\ CheckCgResult(out)' = CheckCgResult(out)
  BY <1>2, <1>3, <1>4
<1> QED BY <1>1, <1>5, Zenon DEF CheckBettingTx, out

\* Connecting an output keeps the invariant.
LEMMA ConnectsKeeps ==
    ASSUME Ordinary, TypeOK, UInv, ConnectsOutput
    PROVE  UInv'
<1>1. mode = "connect" /\ AtOutput
  BY DEF ConnectsOutput
<1>2. PICK c : Processed(c) /\ MovesTo(c)
  BY DEF ConnectsOutput
<1>3. /\ cache' = c /\ pos' = NextPos /\ blk'.txs = blk.txs
      /\ view' = view /\ chain' = chain /\ peak' = peak /\ mode' = mode
  BY <1>2 DEF MovesTo
<1>4. Once /\ RecordsOwned /\ RecordsKept /\ NamedKnown /\ CreatedBefore /\ BlockChecked
  BY <1>1 DEF UInv
<1>5. /\ \A h : ~Handled(Tx, h)
      /\ \A tx, h : Handled(tx, h)' <=> Handled(tx, h) \/ (tx = Tx /\ h = BlkHeight)
  BY <1>1, <1>3, <1>4, HandledMore
<1>6. Tx \in Txs /\ BlkHeight = TipHeight + 1 /\ TipHeight \in Nat
  BY <1>1, AtTx, AtChecked
<1>7. Once'
  BY <1>1, <1>3, <1>4 DEF Once, InChain
<1>8. \A u \in DOMAIN c.undos : \/ u \in DOMAIN cache.undos /\ c.undos[u] = cache.undos[u]
                                \/ u = <<Tx.id, 1>> /\ Saves(Tx) /\ c.undos[u].height = BlkHeight
  BY <1>2 DEF Processed, Put
<1>9. RecordsOwned'
  <2> SUFFICES ASSUME NEW u \in DOMAIN c.undos
               PROVE  \E tx \in Txs : u = <<tx.id, 1>> /\ Saves(tx) /\ Handled(tx, c.undos[u].height)'
    BY <1>3 DEF RecordsOwned
  <2> QED BY <1>4, <1>5, <1>6, <1>8 DEF RecordsOwned
<1>10. RecordsKept'
  <2> SUFFICES ASSUME NEW tx \in Txs, NEW h \in Nat, Handled(tx, h)', Saves(tx), h + MaxUndoDepth >= peak
               PROVE  <<tx.id, 1>> \in DOMAIN c.undos /\ c.undos[<<tx.id, 1>>].height = h
    BY <1>3 DEF RecordsKept
  <2>1. CASE tx = Tx /\ h = BlkHeight
    BY <1>2, <2>1 DEF Processed, Put
  <2>2. CASE tx # Tx /\ Handled(tx, h)
    <3>1. <<tx.id, 1>> \in DOMAIN cache.undos /\ cache.undos[<<tx.id, 1>>].height = h
      BY <1>4, <2>2 DEF RecordsKept
    <3>2. <<tx.id, 1>> # <<Tx.id, 1>>
      BY <1>6, <2>2 DEF Ordinary
    <3>3. <<tx.id, 1>> \in DOMAIN c.undos /\ c.undos[<<tx.id, 1>>] = cache.undos[<<tx.id, 1>>]
      BY <1>2, <3>1, <3>2 DEF Processed, Put
    <3> QED BY <3>1, <3>3
  <2> QED BY <1>5, <2>1, <2>2
<1>11. NamedKnown'
  <2>1. DOMAIN cache.events \subseteq DOMAIN c.events /\ DOMAIN cache.fieldEvents \subseteq DOMAIN c.fieldEvents
    BY <1>2 DEF Processed
  <2>2. /\ Allowed(Tx, BlkHeight)
        /\ \A e : NamesEvent(Tx, e) => e \in DOMAIN cache.events
        /\ \A e : NamesFieldEvent(Tx, e) => e \in DOMAIN cache.fieldEvents
    BY <1>1, AtChecked
  <2> SUFFICES ASSUME NEW tx \in Txs, NEW h \in Nat, Handled(tx, h)'
               PROVE  /\ Allowed(tx, h)
                      /\ \A e : NamesEvent(tx, e) => e \in DOMAIN c.events
                      /\ \A e : NamesFieldEvent(tx, e) => e \in DOMAIN c.fieldEvents
    BY <1>3 DEF NamedKnown
  <2> QED BY <1>4, <1>5, <2>1, <2>2 DEF NamedKnown
<1>12. CreatedBefore'
  <2> SUFFICES ASSUME NEW tx \in Txs, NEW mk \in Txs, NEW h \in Nat, NEW g \in Nat,
                      Handled(tx, h)', Handled(mk, g)', Needs(tx, mk)
               PROVE  g < h
    BY DEF CreatedBefore
  <2>1. \A t \in Txs, k \in Nat : Handled(t, k)' =>
            MinedAt(t, k) \/ (k = BlkHeight /\ CheckBettingTx(t))
    <3> SUFFICES ASSUME NEW t \in Txs, NEW k \in Nat, Handled(t, k)'
                 PROVE  MinedAt(t, k) \/ (k = BlkHeight /\ CheckBettingTx(t))
      OBVIOUS
    <3>1. CASE t = Tx /\ k = BlkHeight
      BY <1>1, <3>1, AtChecked
    <3>2. CASE Handled(t, k)
      BY <1>1, <1>4, <3>2, HandledHeights DEF BlockChecked
    <3> QED BY <1>5, <3>1, <3>2
  <2>2. ASSUME NEW t \in Txs, NEW k \in Nat, Handled(t, k)'
        PROVE  /\ \A e : NamesEvent(t, e) => e \in DOMAIN view.events
               /\ \A e : NamesFieldEvent(t, e) => e \in DOMAIN view.fieldEvents
    <3>1. CASE MinedAt(t, k)
      BY <1>1, <1>4, <3>1 DEF BlockChecked
    <3>2. CASE CheckBettingTx(t)
      BY <3>2, CheckedKnown
    <3> QED BY <2>1, <2>2, <3>1, <3>2
  <2>3. MinedAt(mk, g)
    <3>1. CASE CheckBettingTx(mk)
      <4>1. /\ HasType(mk, {"plEvent"}) => First(mk).event \notin DOMAIN view.events
            /\ HasType(mk, {"fEvent"}) => First(mk).event \notin DOMAIN view.fieldEvents
        BY <3>1, CheckedKnown
      <4> QED BY <2>2, <4>1 DEF Needs
    <3> QED BY <2>1, <3>1
  <2>4. g <= TipHeight
    BY <2>3, MinedBelow
  <2>5. CASE MinedAt(tx, h)
    <3>1. Handled(tx, h) /\ Handled(mk, g)
      BY <1>1, <2>3, <2>5 DEF Handled
    <3> QED BY <1>4, <3>1 DEF CreatedBefore
  <2>6. CASE h = BlkHeight
    BY <1>6, <2>4, <2>6
  <2> QED BY <2>1, <2>5, <2>6
<1>13. BlockChecked'
  <2>1. \A tx : CheckBettingTx(tx)' = CheckBettingTx(tx)
    BY <1>3, CheckStays
  <2>2. \A j \in DOMAIN blk.txs : blk.txs[j] \in Txs
    BY <1>1, AtTx
  <2>3. \A tx, h : MinedAt(tx, h)' <=> MinedAt(tx, h)
    BY <1>3 DEF MinedAt
  <2>4. blk.txs # <<>>
    BY <1>1, AtTx
  <2> QED BY <1>1, <1>2, <1>3, <1>4, <2>1, <2>2, <2>3, <2>4 DEF BlockChecked, Processed
<1> QED BY <1>1, <1>3, <1>7, <1>9, <1>10, <1>11, <1>12, <1>13 DEF UInv

\* So does disconnecting one: the records of the others stay, and no handled
\* transaction is about an event that goes.
LEMMA DisconnectsKeeps ==
    ASSUME Ordinary, TypeOK, UInv, DisconnectsOutput
    PROVE  UInv'
<1>1. mode = "disconnect" /\ AtOutput
  BY DEF DisconnectsOutput
<1>2. PICK c : Undone(c) /\ MovesTo(c)
  BY DEF DisconnectsOutput
<1>3. /\ cache' = c /\ pos' = NextPos /\ blk'.txs = blk.txs
      /\ view' = view /\ chain' = chain /\ peak' = peak /\ mode' = mode
  BY <1>2 DEF MovesTo
<1>4. /\ Once /\ RecordsOwned /\ RecordsKept /\ NamedKnown /\ CreatedBefore /\ BlockChecked
      /\ TipHeight + MaxUndoDepth >= peak
  BY <1>1 DEF UInv
<1>5. /\ Handled(Tx, TipHeight) /\ BlkHeight = TipHeight
      /\ \A tx, h : Handled(tx, h)' <=> Handled(tx, h) /\ tx # Tx
  BY <1>1, <1>3, <1>4, HandledLess
<1>6. Tx \in Txs /\ TipHeight \in Nat
  BY <1>1, AtTx, ChainSeq
<1>7. Once'
  BY <1>1, <1>3, <1>4 DEF Once, InChain
<1>8. /\ \A u \in DOMAIN c.undos : u \in DOMAIN cache.undos /\ c.undos[u] = cache.undos[u]
      /\ Saves(Tx) => <<Tx.id, 1>> \notin DOMAIN c.undos
      /\ \A u \in DOMAIN cache.undos : u # <<Tx.id, 1>> => u \in DOMAIN c.undos
  BY <1>2 DEF Undone, DbErase, Restrict
<1>9. RecordsOwned'
  <2> SUFFICES ASSUME NEW u \in DOMAIN c.undos
               PROVE  \E tx \in Txs : u = <<tx.id, 1>> /\ Saves(tx) /\ Handled(tx, c.undos[u].height)'
    BY <1>3 DEF RecordsOwned
  <2>1. PICK tx \in Txs : u = <<tx.id, 1>> /\ Saves(tx) /\ Handled(tx, cache.undos[u].height)
    BY <1>4, <1>8 DEF RecordsOwned
  <2>2. tx # Tx
    BY <1>8, <2>1
  <2> QED BY <1>5, <1>8, <2>1, <2>2
<1>10. RecordsKept'
  <2> SUFFICES ASSUME NEW tx \in Txs, NEW h \in Nat, Handled(tx, h)', Saves(tx), h + MaxUndoDepth >= peak
               PROVE  <<tx.id, 1>> \in DOMAIN c.undos /\ c.undos[<<tx.id, 1>>].height = h
    BY <1>3 DEF RecordsKept
  <2>1. tx # Tx /\ <<tx.id, 1>> \in DOMAIN cache.undos /\ cache.undos[<<tx.id, 1>>].height = h
    BY <1>4, <1>5 DEF RecordsKept
  <2>2. <<tx.id, 1>> # <<Tx.id, 1>>
    BY <1>6, <2>1 DEF Ordinary
  <2> QED BY <1>8, <2>1, <2>2
<1>11. NamedKnown'
  <2> SUFFICES ASSUME NEW tx \in Txs, NEW h \in Nat, Handled(tx, h)'
               PROVE  /\ Allowed(tx, h)
                      /\ \A e : NamesEvent(tx, e) => e \in DOMAIN c.events
                      /\ \A e : NamesFieldEvent(tx, e) => e \in DOMAIN c.fieldEvents
    BY <1>3 DEF NamedKnown
  <2>1. Handled(tx, h) /\ h <= TipHeight
    BY <1>5, HandledHeights
  <2>2. ~Needs(tx, Tx)
    BY <1>4, <1>5, <1>6, <2>1 DEF CreatedBefore
  <2>3. /\ Allowed(tx, h)
        /\ \A e : NamesEvent(tx, e) => e \in DOMAIN cache.events
        /\ \A e : NamesFieldEvent(tx, e) => e \in DOMAIN cache.fieldEvents
    BY <1>4, <2>1 DEF NamedKnown
  <2> QED BY <1>2, <2>2, <2>3 DEF Undone, Needs
<1>12. CreatedBefore'
  BY <1>4, <1>5 DEF CreatedBefore
<1>13. BlockChecked'
  BY <1>1, <1>3 DEF BlockChecked
<1>14. (TipHeight + MaxUndoDepth >= peak)'
  BY <1>3, <1>4 DEF TipHeight
<1> QED BY <1>1, <1>3, <1>7, <1>9, <1>10, <1>11, <1>12, <1>13, <1>14 DEF UInv

\* Steps between blocks: the same transactions are handled, and records and
\* events are the same.
LEMMA SameHandled ==
    ASSUME \A tx, h : Handled(tx, h)' <=> Handled(tx, h),
           cache'.undos = cache.undos,
           DOMAIN cache'.events = DOMAIN cache.events,
           DOMAIN cache'.fieldEvents = DOMAIN cache.fieldEvents,
           peak' = peak,
           RecordsOwned, RecordsKept, NamedKnown, CreatedBefore
    PROVE  RecordsOwned' /\ RecordsKept' /\ NamedKnown' /\ CreatedBefore'
<1>1. RecordsOwned'
  BY DEF RecordsOwned
<1>2. RecordsKept'
  BY DEF RecordsKept
<1>3. NamedKnown'
  BY DEF NamedKnown
<1>4. CreatedBefore'
  BY DEF CreatedBefore
<1> QED BY <1>1, <1>2, <1>3, <1>4

LEMMA InitUInv == Ordinary /\ Init => UInv
<1> SUFFICES ASSUME Ordinary, Init PROVE UInv
  OBVIOUS
<1>1. mode = "idle" /\ cache = BaseView /\ view = BaseView
  BY DEF Init
<1>2. \A i \in DOMAIN chain : DOMAIN chain[i].txs = {}
  BY DEF Init, Connected, NoBlock, Block
<1>3. \A tx, h : ~Handled(tx, h)
  BY <1>1, <1>2 DEF Handled, MinedAt
<1>4. Once
  BY <1>1, <1>2 DEF Once
<1>5. RecordsOwned
  BY <1>1 DEF RecordsOwned, Ordinary
<1>6. RecordsKept /\ NamedKnown /\ CreatedBefore
  BY <1>3 DEF RecordsKept, NamedKnown, CreatedBefore
<1> QED BY <1>1, <1>4, <1>5, <1>6 DEF UInv, BlockChecked

LEMMA BeginConnectUndos ==
    ASSUME TypeOK, UInv, NEW time, NEW proof, BeginConnect(time, proof)
    PROVE  UInv' /\ (Abort \/ \A tx, h : Handled(tx, h)' <=> Handled(tx, h))
<1>1. CASE Abort
  BY <1>1 DEF Abort, UInv
<1>2. ASSUME NEW due, due.view.undos = view.undos, due.view.events = view.events,
             due.view.fieldEvents = view.fieldEvents, IsView(due.view), StartBlock(time, proof, due)
      PROVE  UInv' /\ \A tx, h : Handled(tx, h)' <=> Handled(tx, h)
  <2>1. /\ mode = "idle" /\ mode' = "connect" /\ view' = view /\ chain' = chain /\ peak' = peak
        /\ cache' = SavePayoutsInfo(due.view, due.payouts, TipHeight + 1)
        /\ blk'.txs = <<>>
    BY <1>2 DEF BeginConnect, StartBlock, Block
  <2>2. cache'.undos = view.undos /\ cache'.events = view.events /\ cache'.fieldEvents = view.fieldEvents
    BY <1>2, <2>1 DEF SavePayoutsInfo, IsView, Databases
  <2>3. cache = view /\ Once /\ RecordsOwned /\ RecordsKept /\ NamedKnown /\ CreatedBefore
    BY <2>1 DEF UInv
  <2>4. \A tx, h : Handled(tx, h) <=> MinedAt(tx, h)
    BY <2>1 DEF Handled
  <2>5. \A tx, h : MinedAt(tx, h)' <=> MinedAt(tx, h)
    BY <2>1 DEF MinedAt
  <2>6. \A tx, h : Handled(tx, h)' <=> Handled(tx, h)
    <3>1. DOMAIN blk'.txs = {}
      BY <2>1
    <3> QED BY <2>1, <2>4, <2>5, <3>1 DEF Handled
  <2>7. RecordsOwned' /\ RecordsKept' /\ NamedKnown' /\ CreatedBefore'
    BY <2>1, <2>2, <2>3, <2>6, SameHandled
  <2>8. Once'
    BY <2>1, <2>3 DEF Once
  <2>9. BlockChecked'
    <3>1. DOMAIN blk'.txs = {}
      BY <2>1
    <3> QED BY <2>1, <2>2, <2>3, <2>4, <2>5, <3>1 DEF BlockChecked, NamedKnown
  <2> QED BY <2>1, <2>6, <2>7, <2>8, <2>9 DEF UInv
<1>3. ASSUME NEW pl, NEW cg, NEW qg, NEW fl
      PROVE  LET v == AllPayouts(view, pl, cg, qg, fl).view
             IN  v.undos = view.undos /\ v.events = view.events /\ v.fieldEvents = view.fieldEvents /\ IsView(v)
  BY DEF AllPayouts, TypeOK, IsView, Databases
<1>4. ASSUME NEW last, NEW height
      PROVE  LET v == GetBettingPayouts(view, last, height).view
             IN  v.undos = view.undos /\ v.events = view.events /\ v.fieldEvents = view.fieldEvents /\ IsView(v)
  BY <1>3 DEF GetBettingPayouts
<1> QED BY <1>1, <1>2, <1>4 DEF BeginConnect

\* A block that is rejected has handled nothing.
LEMMA RejectBlockUndos ==
    ASSUME TypeOK, UInv, RejectBlock
    PROVE  UInv' /\ \A tx, h : Handled(tx, h)' <=> Handled(tx, h)
<1>1. /\ mode = "connect" /\ mode' = "idle" /\ cache' = view /\ view' = view
      /\ chain' = chain /\ peak' = peak /\ blk.txs = <<>>
  BY DEF RejectBlock
<1>2. Once /\ RecordsOwned /\ RecordsKept /\ NamedKnown /\ CreatedBefore /\ BlockChecked
  BY <1>1 DEF UInv
<1>3. cache'.undos = cache.undos /\ cache'.events = cache.events /\ cache'.fieldEvents = cache.fieldEvents
  BY <1>1, <1>2 DEF BlockChecked
<1>4. \A tx, h : MinedAt(tx, h)' <=> MinedAt(tx, h)
  BY <1>1 DEF MinedAt
<1>5. \A tx, h : Handled(tx, h)' <=> Handled(tx, h)
  <2>1. DOMAIN blk.txs = {}
    BY <1>1
  <2> QED BY <1>1, <1>4, <2>1 DEF Handled
<1>6. RecordsOwned' /\ RecordsKept' /\ NamedKnown' /\ CreatedBefore'
  BY <1>1, <1>2, <1>3, <1>5, SameHandled
<1>7. Once'
  BY <1>1, <1>2 DEF Once
<1> QED BY <1>1, <1>5, <1>6, <1>7 DEF UInv, BlockChecked

\* When the outputs are done the whole block is handled.
LEMMA BlockHandled ==
    ASSUME Ordinary, TypeOK, mode = "connect", OutputsDone
    PROVE  /\ Len(blk.txs) \in Nat /\ DOMAIN blk.txs = 1 .. Len(blk.txs) /\ pos.tx = Len(blk.txs)
           /\ \A tx, h : Handled(tx, h) <=>
                  MinedAt(tx, h) \/ (h = BlkHeight /\ \E j \in DOMAIN blk.txs : blk.txs[j] = tx)
<1>1. Len(blk.txs) \in Nat /\ DOMAIN blk.txs = 1 .. Len(blk.txs) /\ pos.tx = Len(blk.txs)
  BY LenProperties DEF TypeOK, PosOK
<1>2. DOMAIN blk.txs # {} => pos.out > 1
  <2> SUFFICES ASSUME DOMAIN blk.txs # {} PROVE pos.out > 1
    OBVIOUS
  <2>1. blk.txs # <<>> /\ pos.tx \in DOMAIN blk.txs /\ Tx \in Txs
    BY <1>1, ElementOfSeq DEF Tx, TypeOK
  <2>2. Len(Tx.outs) \in Nat \ {0}
    BY <2>1, OutsOfTx
  <2>3. pos.out \in 1 .. Len(Tx.outs) + 1 /\ pos.out > Len(Tx.outs)
    BY <1>1, <2>1 DEF OutputsDone, TypeOK, PosOK
  <2> QED BY <2>2, <2>3
<1> QED BY <1>1, <1>2 DEF Handled

\* A transaction that is taken up passed the check, and was not mined.
LEMMA TakeTxUndos ==
    ASSUME Ordinary, TypeOK, UInv, NEW tx \in Txs, TakeTx(tx)
    PROVE  UInv' /\ \A t, h : Handled(t, h)' <=> Handled(t, h)
<1>1. /\ mode = "connect" /\ mode' = mode /\ view' = view /\ cache' = cache /\ chain' = chain /\ peak' = peak
      /\ OutputsDone /\ ~InChain(tx) /\ tx \notin ToSet(blk.txs) /\ CheckBettingTx(tx)
      /\ blk'.txs = Append(blk.txs, tx)
      /\ pos'.tx = Len(blk.txs) + 1 /\ pos'.out = 1
  BY DEF TakeTx, TypeOK
<1>2. Once /\ RecordsOwned /\ RecordsKept /\ NamedKnown /\ CreatedBefore /\ BlockChecked
  BY <1>1 DEF UInv
<1>3. /\ Len(blk.txs) \in Nat /\ DOMAIN blk.txs = 1 .. Len(blk.txs)
      /\ \A t, h : Handled(t, h) <=>
             MinedAt(t, h) \/ (h = BlkHeight /\ \E j \in DOMAIN blk.txs : blk.txs[j] = t)
  BY <1>1, BlockHandled
<1>4. /\ DOMAIN blk'.txs = 1 .. Len(blk.txs) + 1
      /\ blk'.txs[Len(blk.txs) + 1] = tx
      /\ \A j \in 1 .. Len(blk.txs) : blk'.txs[j] = blk.txs[j]
  BY <1>1, AppendProperties, LenProperties DEF TypeOK
<1>5. \A t, h : MinedAt(t, h)' <=> MinedAt(t, h)
  BY <1>1 DEF MinedAt
<1>6. BlkHeight' = BlkHeight
  BY <1>1 DEF BlkHeight, TipHeight
<1>7. ASSUME NEW t, NEW h PROVE Handled(t, h)' <=> Handled(t, h)
  <2>1. Handled(t, h)' <=> MinedAt(t, h) \/ (h = BlkHeight /\ \E j \in DOMAIN blk'.txs : blk'.txs[j] = t
            /\ j < Len(blk.txs) + 1)
    BY <1>1, <1>5, <1>6 DEF Handled
  <2>2. (\E j \in DOMAIN blk'.txs : blk'.txs[j] = t /\ j < Len(blk.txs) + 1)
            <=> \E j \in DOMAIN blk.txs : blk.txs[j] = t
    BY <1>3, <1>4
  <2> QED BY <1>3, <2>1, <2>2
<1>8. RecordsOwned' /\ RecordsKept' /\ NamedKnown' /\ CreatedBefore'
  BY <1>1, <1>2, <1>7, SameHandled
<1>9. Once'
  <2>1. \A j \in DOMAIN blk.txs : blk.txs[j] # tx
    BY <1>1 DEF ToSet
  <2>2. \A t : InChain(t)' <=> InChain(t)
    BY <1>1 DEF InChain
  <2>3. ASSUME NEW j \in DOMAIN blk'.txs
        PROVE  /\ ~InChain(blk'.txs[j])
               /\ \A l \in DOMAIN blk'.txs : blk'.txs[j] = blk'.txs[l] => j = l
    BY <1>1, <1>2, <1>3, <1>4, <2>1 DEF Once
  <2> QED BY <1>1, <1>2, <2>2, <2>3 DEF Once
<1>10. BlockChecked'
  <2>1. \A t : CheckBettingTx(t)' = CheckBettingTx(t)
    BY <1>1, CheckStays
  <2>2. \A j \in DOMAIN blk'.txs : CheckBettingTx(blk'.txs[j])
    BY <1>1, <1>2, <1>3, <1>4 DEF BlockChecked
  <2>3. blk'.txs # <<>>
    BY <1>3, <1>4
  <2> QED BY <1>1, <1>2, <1>5, <2>1, <2>2, <2>3 DEF BlockChecked
<1> QED BY <1>1, <1>7, <1>8, <1>9, <1>10 DEF UInv

\* Connecting ends: the block joins the chain, and only records that no
\* disconnecting will need are pruned.
LEMMA EndConnectUndos ==
    ASSUME Ordinary, IInv, UInv, EndConnect
    PROVE  UInv' /\ \A tx, h : Handled(tx, h)' <=> Handled(tx, h)
<1> DEFINE pruned == IF BlkHeight % (MaxUndoDepth - 1) = 0
                     THEN PruneOlderUndos(cache, BlkHeight - MaxUndoDepth) ELSE cache
           done   == [pruned EXCEPT !.lastHeight = BlkHeight]
           last   == Connected(blk, done)
<1>1. /\ mode = "connect" /\ mode' = "idle" /\ OutputsDone
      /\ view' = done /\ cache' = done /\ chain' = Append(chain, last)
      /\ peak' = IF BlkHeight > peak THEN BlkHeight ELSE peak
  BY DEF EndConnect
<1>2. TypeOK /\ Once /\ RecordsOwned /\ RecordsKept /\ NamedKnown /\ CreatedBefore /\ BlockChecked
  BY <1>1 DEF UInv, IInv
<1>3. /\ done.events = cache.events /\ done.fieldEvents = cache.fieldEvents
      /\ \A u \in DOMAIN done.undos : u \in DOMAIN cache.undos /\ done.undos[u] = cache.undos[u]
      /\ \A u \in DOMAIN cache.undos : cache.undos[u].height >= BlkHeight - MaxUndoDepth => u \in DOMAIN done.undos
  <2>1. IsView(cache) /\ IsView(pruned)
    BY <1>2, ExceptView DEF PruneOlderUndos, TypeOK
  <2>2. /\ pruned.events = cache.events /\ pruned.fieldEvents = cache.fieldEvents
        /\ \A u \in DOMAIN pruned.undos : u \in DOMAIN cache.undos /\ pruned.undos[u] = cache.undos[u]
        /\ \A u \in DOMAIN cache.undos : cache.undos[u].height >= BlkHeight - MaxUndoDepth => u \in DOMAIN pruned.undos
    BY <2>1 DEF PruneOlderUndos, Restrict, IsView, Databases
  <2> HIDE DEF pruned
  <2>3. done.events = pruned.events /\ done.fieldEvents = pruned.fieldEvents /\ done.undos = pruned.undos
    BY <2>1 DEF IsView, Databases
  <2> QED BY <2>2, <2>3
<1>4. last.txs = blk.txs
  BY DEF Connected
<1> HIDE DEF done, last
<1>c. PICK c : /\ view' = c /\ cache' = c /\ c.events = cache.events /\ c.fieldEvents = cache.fieldEvents
               /\ \A u \in DOMAIN c.undos : u \in DOMAIN cache.undos /\ c.undos[u] = cache.undos[u]
               /\ \A u \in DOMAIN cache.undos : cache.undos[u].height >= BlkHeight - MaxUndoDepth => u \in DOMAIN c.undos
  BY <1>1, <1>3
<1>5. /\ Len(chain) \in Nat \ {0} /\ DOMAIN chain = 1 .. Len(chain) /\ DOMAIN chain' = 1 .. Len(chain) + 1
      /\ \A i \in 1 .. Len(chain) : chain'[i] = chain[i]
      /\ chain'[Len(chain) + 1] = last
  <2>1. /\ IsSeq(chain') /\ Len(chain') = Len(chain) + 1
        /\ \A i \in DOMAIN chain' : chain'[i] = IF i <= Len(chain) THEN chain[i] ELSE last
    BY <1>1, <1>2, AppendSeq DEF TypeOK
  <2>2. DOMAIN chain' = 1 .. Len(chain) + 1
    BY <2>1, <1>2, ChainSeq, LenProperties DEF IsSeq
  <2> QED BY <1>2, <2>1, <2>2, ChainSeq
<1>6. BlkHeight = BaseHeight + (Len(chain) + 1) - 1 /\ BlkHeight \in Nat /\ peak \in Nat
  BY <1>1, <1>2, <1>5, HeightsAssumption DEF BlkHeight, TipHeight, TypeOK
<1>7. ASSUME NEW tx, NEW h PROVE Handled(tx, h)' <=> Handled(tx, h)
  <2>1. Handled(tx, h) <=> MinedAt(tx, h) \/ (h = BlkHeight /\ \E j \in DOMAIN blk.txs : blk.txs[j] = tx)
    BY <1>1, <1>2, BlockHandled
  <2>2. Handled(tx, h)' <=> MinedAt(tx, h)'
    BY <1>1 DEF Handled
  <2>3. MinedAt(tx, h)' <=> \E i \in 1 .. Len(chain) + 1 : h = BaseHeight + i - 1
            /\ \E j \in DOMAIN chain'[i].txs : chain'[i].txs[j] = tx
    BY <1>5 DEF MinedAt
  <2>4. MinedAt(tx, h) <=> \E i \in 1 .. Len(chain) : h = BaseHeight + i - 1
            /\ \E j \in DOMAIN chain[i].txs : chain[i].txs[j] = tx
    BY <1>5 DEF MinedAt
  <2>5. MinedAt(tx, h)' => MinedAt(tx, h) \/ (h = BlkHeight /\ \E j \in DOMAIN blk.txs : blk.txs[j] = tx)
    BY <2>3, <2>4, <1>4, <1>5, <1>6
  <2>6. MinedAt(tx, h) => MinedAt(tx, h)'
    <3> SUFFICES ASSUME NEW i \in 1 .. Len(chain), h = BaseHeight + i - 1, NEW j \in DOMAIN chain[i].txs, chain[i].txs[j] = tx
                 PROVE  MinedAt(tx, h)'
      BY <2>4
    <3>1. i \in 1 .. Len(chain) + 1 /\ chain'[i].txs = chain[i].txs
      BY <1>5
    <3> QED BY <2>3, <3>1
  <2>7. (h = BlkHeight /\ \E j \in DOMAIN blk.txs : blk.txs[j] = tx) => MinedAt(tx, h)'
    <3>1. Len(chain) + 1 \in 1 .. Len(chain) + 1
      BY <1>5
    <3> QED BY <2>3, <3>1, <1>4, <1>5, <1>6
  <2> QED BY <2>1, <2>2, <2>5, <2>6, <2>7
<1>8. RecordsOwned'
  <2> SUFFICES ASSUME NEW u \in DOMAIN c.undos
               PROVE  \E tx \in Txs : u = <<tx.id, 1>> /\ Saves(tx) /\ Handled(tx, c.undos[u].height)'
    BY <1>c DEF RecordsOwned
  <2> QED BY <1>2, <1>c, <1>7 DEF RecordsOwned
<1>9. RecordsKept'
  <2>0. peak' >= peak /\ peak' >= BlkHeight /\ peak' \in Nat
    BY <1>1, <1>6
  <2> SUFFICES ASSUME NEW tx \in Txs, NEW h \in Nat, Handled(tx, h)', Saves(tx), h + MaxUndoDepth >= peak'
               PROVE  <<tx.id, 1>> \in DOMAIN c.undos /\ c.undos[<<tx.id, 1>>].height = h
    BY <1>c DEF RecordsKept
  <2>1. h + MaxUndoDepth >= peak /\ h >= BlkHeight - MaxUndoDepth
    BY <2>0, <1>6, HeightsAssumption
  <2>2. <<tx.id, 1>> \in DOMAIN cache.undos /\ cache.undos[<<tx.id, 1>>].height = h
    BY <1>2, <1>7, <2>1 DEF RecordsKept
  <2> QED BY <1>c, <2>1, <2>2
<1>10. NamedKnown' /\ CreatedBefore'
  BY <1>1, <1>2, <1>c, <1>7 DEF NamedKnown, CreatedBefore
<1>11. Once'
  <2>1. \A j \in DOMAIN blk.txs : \A i \in 1 .. Len(chain) : \A l \in DOMAIN chain[i].txs : chain[i].txs[l] # blk.txs[j]
    BY <1>1, <1>2, <1>5 DEF Once, InChain, ToSet
  <2> SUFFICES ASSUME NEW i \in 1 .. Len(chain) + 1, NEW k \in 1 .. Len(chain) + 1,
                      NEW j \in DOMAIN chain'[i].txs, NEW l \in DOMAIN chain'[k].txs,
                      chain'[i].txs[j] = chain'[k].txs[l]
               PROVE  i = k /\ j = l
    BY <1>1, <1>5 DEF Once
  <2>2. CASE i <= Len(chain) /\ k <= Len(chain)
    BY <1>2, <1>5, <2>2 DEF Once
  <2>3. CASE i = Len(chain) + 1 /\ k <= Len(chain)
    BY <1>4, <1>5, <2>1, <2>3
  <2>4. CASE i <= Len(chain) /\ k = Len(chain) + 1
    BY <1>4, <1>5, <2>1, <2>4
  <2>5. CASE i = Len(chain) + 1 /\ k = Len(chain) + 1
    BY <1>1, <1>2, <1>4, <1>5, <2>5 DEF Once
  <2> QED BY <1>5, <2>2, <2>3, <2>4, <2>5
<1> QED BY <1>1, <1>c, <1>7, <1>8, <1>9, <1>10, <1>11 DEF UInv, BlockChecked

\* Disconnecting starts with everything of the block still handled.
LEMMA BeginDisconnectUndos ==
    ASSUME IInv, UInv, BeginDisconnect, mode' = "disconnect"
    PROVE  UInv' /\ \A tx, h : Handled(tx, h)' <=> Handled(tx, h)
<1> DEFINE last == Last(chain)
           paid == UndoPLBetPayouts(view, chain[Len(chain) - 1].vResultIDs, TipHeight)
<1>1. /\ mode = "idle" /\ TypeOK /\ WithinUndoDepth
      /\ cache' = UndoPayoutsInfo(UndoQGBetPayouts(paid, TipHeight), TipHeight)
      /\ blk'.txs = last.txs /\ pos'.tx = Len(last.txs)
      /\ view' = view /\ chain' = chain /\ peak' = peak
  <2>1. mode = "idle" /\ TypeOK /\ WithinUndoDepth
    BY DEF BeginDisconnect, IInv
  <2>2. cache' = UndoPayoutsInfo(UndoQGBetPayouts(paid, TipHeight), TipHeight)
    BY DEF BeginDisconnect, Abort
  <2>3. /\ blk'.txs = last.txs
        /\ pos' = [tx |-> Len(last.txs), out |-> IF last.txs = <<>> THEN 0 ELSE Len(Last(last.txs).outs)]
        /\ UNCHANGED <<view, chain, peak>>
    BY DEF BeginDisconnect, Block, Abort
  <2> HIDE DEF last, paid
  <2> QED BY <2>1, <2>2, <2>3
<1>2. Once /\ RecordsOwned /\ RecordsKept /\ NamedKnown /\ CreatedBefore /\ cache = view
  BY <1>1 DEF UInv
<1>3. cache'.undos = cache.undos /\ cache'.events = cache.events /\ cache'.fieldEvents = cache.fieldEvents
  <2>1. ASSUME NEW c, IsView(c), NEW ids, NEW height
        PROVE  /\ \A v \in {UndoPLBetPayouts(c, ids, height), UndoQGBetPayouts(c, height), UndoPayoutsInfo(c, height)} :
                      IsView(v) /\ v.undos = c.undos /\ v.events = c.events /\ v.fieldEvents = c.fieldEvents
    <3>1. IsView(UndoPLBetPayouts(c, ids, height)) /\ IsView(UndoQGBetPayouts(c, height))
              /\ IsView(UndoPayoutsInfo(c, height))
      BY <2>1, ExceptView DEF UndoPLBetPayouts, UndoQGBetPayouts, UndoPayoutsInfo
    <3> QED BY <2>1, <3>1 DEF UndoPLBetPayouts, UndoQGBetPayouts, UndoPayoutsInfo, IsView, Databases
  <2>2. /\ IsView(paid) /\ paid.undos = view.undos /\ paid.events = view.events
            /\ paid.fieldEvents = view.fieldEvents
    BY <1>1, <2>1 DEF TypeOK
  <2> HIDE DEF paid
  <2> DEFINE both == UndoQGBetPayouts(paid, TipHeight)
  <2>3. /\ IsView(both) /\ both.undos = view.undos /\ both.events = view.events
            /\ both.fieldEvents = view.fieldEvents
    BY <2>1, <2>2
  <2>4. cache' = UndoPayoutsInfo(both, TipHeight)
    BY <1>1
  <2> HIDE DEF both
  <2> QED BY <1>2, <2>1, <2>3, <2>4
<1>4. last = chain[Len(chain)] /\ last.txs \in Seq(Txs)
  BY <1>1, ChainSeq DEF Last
<1> HIDE DEF last
<1>5. ASSUME NEW tx, NEW h PROVE Handled(tx, h)' <=> Handled(tx, h)
  <2>1. (MinedAt(tx, h)' <=> MinedAt(tx, h)) /\ TipHeight' = TipHeight
    BY <1>1 DEF MinedAt, TipHeight
  <2>2. ASSUME MinedAt(tx, h), h = TipHeight PROVE \E j \in 1 .. Len(last.txs) : last.txs[j] = tx
    <3>1. PICK i \in DOMAIN chain : h = BaseHeight + i - 1
              /\ \E j \in DOMAIN chain[i].txs : chain[i].txs[j] = tx
      BY <2>2 DEF MinedAt
    <3>2. i = Len(chain)
      BY <1>1, <2>2, <3>1, ChainSeq, HeightsAssumption
    <3> QED BY <1>4, <3>1, <3>2, LenProperties
  <2> QED BY <1>1, <2>1, <2>2 DEF Handled
<1>6. RecordsOwned' /\ RecordsKept' /\ NamedKnown' /\ CreatedBefore'
  BY <1>1, <1>2, <1>3, <1>5, SameHandled
<1>7. Once'
  BY <1>1, <1>2, <1>4 DEF Once
<1>8. (TipHeight + MaxUndoDepth >= peak)'
  <2>1. TipHeight \in Nat /\ peak \in Nat /\ TipHeight' = TipHeight
    BY <1>1, ChainSeq DEF TypeOK, TipHeight
  <2> QED BY <1>1, <2>1, HeightsAssumption DEF WithinUndoDepth
<1> QED BY <1>5, <1>6, <1>7, <1>8 DEF UInv, BlockChecked

\* Disconnecting ends with nothing of the block handled.
LEMMA EndDisconnectUndos ==
    ASSUME IInv, UInv, EndDisconnect
    PROVE  UInv' /\ \A tx, h : Handled(tx, h)' <=> Handled(tx, h)
<1> DEFINE done == [cache EXCEPT !.lastHeight = TipHeight - 1]
<1>1. /\ mode = "disconnect" /\ mode' = "idle" /\ TypeOK /\ Len(chain) > 1 /\ pos.tx = 0
      /\ view' = done /\ cache' = done /\ chain' = Front(chain) /\ peak' = peak
  BY DEF EndDisconnect, IInv
<1>2. Once /\ RecordsOwned /\ RecordsKept /\ NamedKnown /\ CreatedBefore
  BY <1>1 DEF UInv
<1>3. cache'.undos = cache.undos /\ cache'.events = cache.events /\ cache'.fieldEvents = cache.fieldEvents
  BY <1>1 DEF TypeOK, IsView, Databases
<1> HIDE DEF done
<1>4. /\ Len(chain) \in Nat /\ DOMAIN chain = 1 .. Len(chain)
      /\ DOMAIN chain' = 1 .. Len(chain) - 1
      /\ \A i \in 1 .. Len(chain) - 1 : chain'[i] = chain[i]
  <2>1. IsSeq(chain') /\ Len(chain') = Len(chain) - 1 /\ \A i \in DOMAIN chain' : chain'[i] = chain[i]
    BY <1>1, FrontSeq DEF TypeOK
  <2> QED BY <1>1, <2>1, ChainSeq, LenProperties DEF IsSeq
<1>5. ASSUME NEW tx, NEW h PROVE Handled(tx, h)' <=> Handled(tx, h)
  <2>1. Handled(tx, h)' <=> \E i \in 1 .. Len(chain) - 1 : h = BaseHeight + i - 1
            /\ \E j \in DOMAIN chain[i].txs : chain[i].txs[j] = tx
    BY <1>1, <1>4 DEF Handled, MinedAt
  <2>2. Handled(tx, h) <=> h # TipHeight /\ \E i \in 1 .. Len(chain) : h = BaseHeight + i - 1
            /\ \E j \in DOMAIN chain[i].txs : chain[i].txs[j] = tx
    BY <1>1, <1>4 DEF Handled, MinedAt
  <2>3. TipHeight = BaseHeight + Len(chain) - 1 /\ BaseHeight \in Nat
    BY HeightsAssumption DEF TipHeight
  <2>4. ASSUME NEW i \in 1 .. Len(chain)
        PROVE  (BaseHeight + i - 1 # TipHeight) <=> (i \in 1 .. Len(chain) - 1)
    <3>1. Len(chain) \in Nat /\ BaseHeight \in Nat /\ TipHeight = BaseHeight + Len(chain) - 1
      BY <1>4, <2>3
    <3>2. (BaseHeight + i - 1 # BaseHeight + Len(chain) - 1) <=> (i \in 1 .. Len(chain) - 1)
      BY <3>1
    <3> QED BY <3>1, <3>2
  <2>5. \A i \in 1 .. Len(chain) - 1 : i \in 1 .. Len(chain)
    BY <1>4
  <2> HIDE DEF done
  <2> QED BY <2>1, <2>2, <2>4, <2>5
<1>6. RecordsOwned' /\ RecordsKept' /\ NamedKnown' /\ CreatedBefore'
  BY <1>1, <1>2, <1>3, <1>5, SameHandled
<1>7. Once'
  <2>1. \A i \in DOMAIN chain' : i \in DOMAIN chain /\ chain'[i] = chain[i]
    BY <1>4
  <2> QED BY <1>1, <1>2, <2>1 DEF Once
<1> QED BY <1>1, <1>5, <1>6, <1>7 DEF UInv, BlockChecked

LEMMA UInvStep ==
    ASSUME Ordinary, IInv, UInv, [Next]_vars
    PROVE  UInv'
<1>0. TypeOK
  BY DEF IInv
<1>1. CASE UNCHANGED vars
  <2>1. /\ view' = view /\ cache' = cache /\ chain' = chain /\ peak' = peak /\ mode' = mode
        /\ blk' = blk /\ pos' = pos
    BY <1>1 DEF vars
  <2>2. /\ TipHeight' = TipHeight /\ BlkHeight' = BlkHeight
        /\ \A tx, h : MinedAt(tx, h)' <=> MinedAt(tx, h)
        /\ \A tx : InChain(tx)' <=> InChain(tx)
    BY <2>1 DEF TipHeight, BlkHeight, MinedAt, InChain
  <2>3. \A tx, h : Handled(tx, h)' <=> Handled(tx, h)
    BY <2>1, <2>2 DEF Handled
  <2>4. \A tx : CheckBettingTx(tx)' = CheckBettingTx(tx)
    BY <2>1, CheckStays
  <2> SUFFICES ASSUME mode # "failed"
               PROVE  UInv'
    BY <2>1 DEF UInv
  <2>5. RecordsOwned' /\ RecordsKept' /\ NamedKnown' /\ CreatedBefore'
    BY <2>1, <2>3, SameHandled DEF UInv
  <2>6. Once'
    BY <2>1, <2>2 DEF UInv, Once
  <2>7. BlockChecked'
    BY <2>1, <2>2, <2>4 DEF UInv, BlockChecked
  <2> QED BY <2>1, <2>2, <2>5, <2>6, <2>7 DEF UInv
<1>2. ASSUME Abort PROVE UInv'
  BY <1>2 DEF Abort, UInv
<1>3. CASE Connect
  BY <1>0, <1>3, BeginConnectUndos, RejectBlockUndos, TakeTxUndos, EndConnectUndos DEF Connect
<1>4. CASE Disconnect
  <2>1. BeginDisconnect => (Abort \/ mode' = "disconnect")
    BY DEF BeginDisconnect
  <2> QED BY <1>2, <1>4, <2>1, BeginDisconnectUndos, EndDisconnectUndos DEF Disconnect
<1>5. CASE SkipOutput \/ PeerlessStep \/ FieldStep \/ GamesStep
  BY <1>0, <1>2, <1>5, Outputs, ConnectsKeeps, DisconnectsKeeps
<1> QED BY <1>1, <1>3, <1>4, <1>5 DEF Next

(* Every undo record belongs to an output of the active chain, for any
   transactions, chains and reorganisations: SaveBettingUndo writes a record
   where the handler of the same output erases it, and pruning only takes
   records away.  The handlers of the two directions are far apart in
   betting.cpp and the condition under which each saves or erases is its own. *)
THEOREM UndosCorrect == Ordinary => (Spec => []UndosOfTheChain)
<1> SUFFICES ASSUME Ordinary PROVE Spec => []UndosOfTheChain
  OBVIOUS
<1>1. Init => IInv /\ UInv
  BY InitIInv, InitUInv
<1>2. IInv /\ UInv /\ [Next]_vars => (IInv /\ UInv)'
  BY IInvStep, UInvStep
<1>3. IInv /\ UInv => UndosOfTheChain
  <2> SUFFICES ASSUME IInv, UInv, mode = "idle", NEW u \in DOMAIN view.undos
               PROVE  \E i \in DOMAIN chain :
                          /\ BaseHeight + i - 1 = view.undos[u].height
                          /\ \E tx \in ToSet(chain[i].txs) : tx.id = u[1] /\ u[2] \in DOMAIN tx.outs
    BY DEF UndosOfTheChain
  <2>1. PICK tx \in Txs : u = <<tx.id, 1>> /\ MinedAt(tx, view.undos[u].height)
    BY DEF UInv, RecordsOwned, Handled
  <2>2. PICK i \in DOMAIN chain : view.undos[u].height = BaseHeight + i - 1
            /\ \E j \in DOMAIN chain[i].txs : chain[i].txs[j] = tx
    BY <2>1 DEF MinedAt
  <2>3. tx \in ToSet(chain[i].txs) /\ tx.id = u[1] /\ u[2] \in DOMAIN tx.outs
    BY <2>1, <2>2 DEF ToSet, Ordinary
  <2> QED BY <2>2, <2>3
<1> QED BY <1>1, <1>2, <1>3, PTL DEF Spec

-----------------------------------------------------------------------------
(* What else a disconnecting needs.  Two hypotheses about the transactions
   are about limits of the code: UndoFieldBetPayouts cannot decode peerless
   bets, so there are no field results here, and a lotto that two outputs
   create or draw is gone for the second when the first is undone. *)
GameTypes == {"cgBet", "qgBet", "cgEvent", "cgResult"}

Undoable ==
    /\ \A tx \in Txs : ~HasType(tx, {"fResult"})
    /\ DOMAIN BaseView.fieldResults = {}
    /\ \A type \in {"cgEvent", "cgResult"} : \A a, b \in Txs :
           HasType(a, {type}) /\ HasType(b, {type}) /\ First(a).event = First(b).event => a = b

\* What a handled transaction of a game has left in the databases.
Entered(tx, h, v) ==
    /\ HasType(tx, {"cgBet"}) => <<h, tx.id, 1>> \in DOMAIN v.chainGamesLottoBets
    /\ HasType(tx, {"qgBet"}) => <<h, tx.id, 1>> \in DOMAIN v.quickGamesBets
    /\ HasType(tx, {"cgEvent"}) => First(tx).event \in DOMAIN v.chainGamesLottoEvents
    /\ HasType(tx, {"cgResult"}) => First(tx).event \in v.chainGamesLottoResults

SameGames(v, w) ==
    /\ DOMAIN v.chainGamesLottoBets = DOMAIN w.chainGamesLottoBets
    /\ DOMAIN v.quickGamesBets = DOMAIN w.quickGamesBets
    /\ DOMAIN v.chainGamesLottoEvents = DOMAIN w.chainGamesLottoEvents
    /\ v.chainGamesLottoResults = w.chainGamesLottoResults
    /\ DOMAIN v.fieldResults = DOMAIN w.fieldResults

GInv == mode # "failed" =>
    /\ \A tx \in Txs, h \in Nat : Handled(tx, h) => Entered(tx, h, cache)
    /\ mode = "connect" => DOMAIN view.chainGamesLottoEvents \subseteq DOMAIN cache.chainGamesLottoEvents
    /\ mode = "connect" /\ blk.txs = <<>> => SameGames(cache, view)
    /\ DOMAIN view.fieldResults = {} /\ DOMAIN cache.fieldResults = {}

LEMMA SavedGames ==
    ASSUME NEW c, IsView(c), SameGames(c, cache), NEW vUndos, AdvanceWithUndo(c, vUndos)
    PROVE  Abort \/ SameGames(cache', cache)
<1> DEFINE d == [c EXCEPT !.undos = Put(@, UndoKey, [height |-> BlkHeight, vUndos |-> vUndos])]
<1>1. Abort \/ cache' = d
  BY DEF AdvanceWithUndo, Advance
<1>2. /\ d.chainGamesLottoBets = c.chainGamesLottoBets /\ d.quickGamesBets = c.quickGamesBets
      /\ d.chainGamesLottoEvents = c.chainGamesLottoEvents
      /\ d.chainGamesLottoResults = c.chainGamesLottoResults /\ d.fieldResults = c.fieldResults
  BY DEF IsView, Databases
<1> HIDE DEF d
<1> QED BY <1>1, <1>2 DEF SameGames

LEMMA UndoneGames ==
    ASSUME IsView(cache), NEW key
    PROVE  IsView(UndoEventChanges(cache, key)) /\ SameGames(UndoEventChanges(cache, key), cache)
<1>1. IsView(UndoEventChanges(cache, key))
  BY UndoneView
<1> QED BY <1>1 DEF UndoEventChanges, SameGames, IsView, Databases

\* Peerless and field bets leave the games alone.
LEMMA PeerlessGames ==
    ASSUME IsView(cache), PeerlessStep
    PROVE  Abort \/ SameGames(cache', cache)
<1>0. SameGames(cache, cache)
  BY DEF SameGames
<1>1. ASSUME NEW c, \/ \E a, b : c = [cache EXCEPT !.events = a, !.bets = b]
                    \/ \E a : c = [cache EXCEPT !.events = a]
                    \/ \E a : c = [cache EXCEPT !.mappings = a]
                    \/ \E a : c = [cache EXCEPT !.results = a]
      PROVE  IsView(c) /\ SameGames(c, cache)
  BY <1>1 DEF SameGames, IsView, Databases
<1>2. ASSUME ProcessPlBet PROVE Abort \/ SameGames(cache', cache)
  BY <1>0, <1>1, <1>2, SavedGames DEF ProcessPlBet, Advance
<1>3. ASSUME ProcessPlParlayBet PROVE Abort \/ SameGames(cache', cache)
  BY <1>0, <1>1, <1>3, SavedGames DEF ProcessPlParlayBet, Advance
<1>4. ASSUME ProcessMapping \/ UndoMapping PROVE Abort \/ SameGames(cache', cache)
  BY <1>0, <1>1, <1>4 DEF ProcessMapping, UndoMapping, Advance
<1>5. ASSUME ProcessPlEvent \/ UndoPlEvent PROVE Abort \/ SameGames(cache', cache)
  BY <1>0, <1>1, <1>5 DEF ProcessPlEvent, UndoPlEvent, Advance
<1>6. ASSUME ProcessPlResult \/ UndoPlResult PROVE Abort \/ SameGames(cache', cache)
  BY <1>0, <1>1, <1>6 DEF ProcessPlResult, UndoPlResult, Advance, AdvanceWithResult
<1>7. ASSUME ProcessPlZeroing PROVE Abort \/ SameGames(cache', cache)
  BY <1>0, <1>1, <1>7, SavedGames DEF ProcessPlZeroing, Advance
<1>8. ASSUME NEW type \in PlUpdates, ProcessPlUpdate(type) PROVE Abort \/ SameGames(cache', cache)
  BY <1>0, <1>1, <1>8, SavedGames DEF ProcessPlUpdate, Advance
<1> DEFINE d == UndoEventChanges(cache, UndoKey)
<1>9. IsView(d) /\ SameGames(d, cache)
  BY UndoneGames
<1>10. ASSUME UndoPlZeroing \/ \E type \in PlUpdates : UndoPlUpdate(type) PROVE Abort
          \/ SameGames(cache', cache)
  BY <1>0, <1>9, <1>10 DEF UndoPlZeroing, UndoPlUpdate, RevertOr, Advance
<1>11. ASSUME NEW type, UndoPeerlessBet(type) PROVE Abort \/ SameGames(cache', cache)
  <2>1. Abort \/ cache' = cache \/ cache' = [d EXCEPT !.bets = DbErase(@, BetKey)]
    BY <1>11 DEF UndoPeerlessBet, RevertOr, Advance
  <2> HIDE DEF d
  <2>2. SameGames([d EXCEPT !.bets = DbErase(@, BetKey)], cache)
    BY <1>9 DEF SameGames, IsView, Databases
  <2> QED BY <1>0, <2>1, <2>2
<1> HIDE DEF d
<1> QED BY <1>2, <1>3, <1>4, <1>5, <1>6, <1>7, <1>8, <1>10, <1>11 DEF PeerlessStep

LEMMA FieldGames ==
    ASSUME IsView(cache), FieldStep
    PROVE  Abort \/ SameGames(cache', cache) \/ Processing("fResult") \/ Undoing("fResult")
<1>0. SameGames(cache, cache)
  BY DEF SameGames
<1>1. ASSUME NEW c, \/ \E a, b : c = [cache EXCEPT !.fieldEvents = a, !.fieldBets = b]
                    \/ \E a : c = [cache EXCEPT !.fieldEvents = a]
      PROVE  IsView(c) /\ SameGames(c, cache)
  BY <1>1 DEF SameGames, IsView, Databases
<1>2. ASSUME ProcessFBet PROVE Abort \/ SameGames(cache', cache)
  BY <1>0, <1>1, <1>2, SavedGames DEF ProcessFBet, Advance
<1>3. ASSUME ProcessFParlayBet PROVE Abort \/ SameGames(cache', cache)
  BY <1>0, <1>1, <1>3, SavedGames DEF ProcessFParlayBet, Advance
<1>4. ASSUME ProcessFEvent \/ UndoFEvent PROVE Abort \/ SameGames(cache', cache)
  BY <1>0, <1>1, <1>4 DEF ProcessFEvent, UndoFEvent, Advance
<1>5. ASSUME ProcessFResult \/ UndoFResult PROVE Processing("fResult") \/ Undoing("fResult")
  BY <1>5 DEF ProcessFResult, UndoFResult
<1>6. ASSUME NEW type \in FieldUpdates, ProcessFUpdate(type) PROVE Abort \/ SameGames(cache', cache)
  BY <1>0, <1>1, <1>6, SavedGames DEF ProcessFUpdate, Advance
<1> DEFINE d == UndoEventChanges(cache, UndoKey)
<1>7. IsView(d) /\ SameGames(d, cache)
  BY UndoneGames
<1>8. ASSUME NEW type, UndoFUpdate(type) PROVE Abort \/ SameGames(cache', cache)
  BY <1>0, <1>7, <1>8 DEF UndoFUpdate, RevertOr, Advance
<1>9. ASSUME NEW type, UndoFieldBet(type) PROVE Abort \/ SameGames(cache', cache)
  <2>1. Abort \/ cache' = cache \/ cache' = [d EXCEPT !.fieldBets = DbErase(@, BetKey)]
    BY <1>9 DEF UndoFieldBet, RevertOr, Advance
  <2> HIDE DEF d
  <2>2. SameGames([d EXCEPT !.fieldBets = DbErase(@, BetKey)], cache)
    BY <1>7 DEF SameGames, IsView, Databases
  <2> QED BY <1>0, <2>1, <2>2
<1> HIDE DEF d
<1> QED BY <1>2, <1>3, <1>4, <1>5, <1>6, <1>8, <1>9 DEF FieldStep

\* What a transaction has left stays where the games do.
LEMMA EnteredSame ==
    ASSUME NEW v, NEW w, SameGames(v, w), NEW tx, NEW h
    PROVE  Entered(tx, h, v) <=> Entered(tx, h, w)
BY DEF Entered, SameGames

\* Only a handler of a game enters one.
LEMMA NotAGame ==
    ASSUME Ordinary, TypeOK, UInv, PeerlessStep \/ FieldStep
    PROVE  ~HasType(Tx, GameTypes)
<1>1. ASSUME NEW type, type \notin GameTypes, Processing(type) \/ Undoing(type) PROVE ~HasType(Tx, GameTypes)
  BY <1>1, AtProcessing, AtUndoing DEF HasType
<1>2. CASE PeerlessStep
  <2>1. PICK type \in {"plBet", "plParlayBet", "mapping", "plEvent", "plResult", "plZeroing"} \cup PlUpdates :
            Processing(type) \/ Undoing(type)
    BY <1>2 DEF PeerlessStep, ProcessPlBet, ProcessPlParlayBet, ProcessMapping, ProcessPlEvent, ProcessPlResult,
                ProcessPlZeroing, ProcessPlUpdate, UndoPeerlessBet, UndoMapping, UndoPlEvent, UndoPlResult,
                UndoPlZeroing, UndoPlUpdate
  <2>2. type \notin GameTypes
    BY <2>1 DEF GameTypes, PlUpdates
  <2> QED BY <1>1, <2>1, <2>2
<1>3. CASE FieldStep
  <2>1. PICK type \in {"fBet", "fParlayBet", "fEvent", "fResult"} \cup FieldUpdates :
            Processing(type) \/ Undoing(type)
    BY <1>3 DEF FieldStep, ProcessFBet, ProcessFParlayBet, ProcessFEvent, ProcessFResult, ProcessFUpdate,
                UndoFieldBet, UndoFEvent, UndoFResult, UndoFUpdate
  <2>2. type \notin GameTypes
    BY <2>1 DEF GameTypes, FieldUpdates
  <2> QED BY <1>1, <2>1, <2>2
<1> QED BY <1>2, <1>3

\* Connecting an output of a game enters it and takes nothing away.
GameEntered ==
    /\ Entered(Tx, BlkHeight, cache')
    /\ DOMAIN cache.chainGamesLottoBets \subseteq DOMAIN cache'.chainGamesLottoBets
    /\ DOMAIN cache.quickGamesBets \subseteq DOMAIN cache'.quickGamesBets
    /\ DOMAIN cache.chainGamesLottoEvents \subseteq DOMAIN cache'.chainGamesLottoEvents
    /\ cache.chainGamesLottoResults \subseteq cache'.chainGamesLottoResults
    /\ DOMAIN cache'.fieldResults = DOMAIN cache.fieldResults

LEMMA GamesEnter ==
    ASSUME Ordinary, TypeOK, UInv, GInv, ProcessCgBet \/ ProcessQgBet \/ ProcessCgEvent \/ ProcessCgResult
    PROVE  GameEntered
<1>0. IsView(cache)
  BY DEF TypeOK
<1>1. PICK type \in GameTypes : Processing(type)
  BY DEF ProcessCgBet, ProcessQgBet, ProcessCgEvent, ProcessCgResult, GameTypes
<1>2. /\ mode = "connect" /\ AtOutput /\ First(Tx).type = type /\ Out = First(Tx) /\ CheckBettingTx(Tx)
      /\ BetKey = <<BlkHeight, Tx.id, 1>>
  <2>1. mode = "connect" /\ AtOutput /\ First(Tx).type = type /\ Out = First(Tx)
    BY <1>1, AtProcessing
  <2> QED BY <2>1, AtTx, AtChecked DEF BetKey
<1>4. CASE ProcessCgBet
  <2>1. type = "cgBet" /\ CheckCgBet(Out)
    BY <1>1, <1>2, <1>4, CheckedOutput DEF ProcessCgBet, Processing, Handles, HasType
  <2>2. PICK v : cache' = [cache EXCEPT !.chainGamesLottoBets = DbWrite(@, BetKey, v)]
    BY <1>4, <2>1 DEF ProcessCgBet, CheckCgBet, Advance
  <2>3. /\ cache'.chainGamesLottoBets = DbWrite(cache.chainGamesLottoBets, BetKey, v)
        /\ cache'.quickGamesBets = cache.quickGamesBets
        /\ cache'.chainGamesLottoEvents = cache.chainGamesLottoEvents
        /\ cache'.chainGamesLottoResults = cache.chainGamesLottoResults
        /\ cache'.fieldResults = cache.fieldResults
    BY <1>0, <2>2 DEF IsView, Databases
  <2>4. DOMAIN cache'.chainGamesLottoBets = DOMAIN cache.chainGamesLottoBets \cup {BetKey}
    BY <2>3 DEF DbWrite, Put
  <2>5. Entered(Tx, BlkHeight, cache')
    BY <1>2, <2>1, <2>4 DEF Entered, HasType
  <2> QED BY <2>3, <2>4, <2>5 DEF GameEntered
<1>5. CASE ProcessQgBet
  <2>1. type = "qgBet" /\ CheckQgBet(Out)
    BY <1>1, <1>2, <1>5, CheckedOutput DEF ProcessQgBet, Processing, Handles, HasType
  <2>2. PICK v : cache' = [cache EXCEPT !.quickGamesBets = DbWrite(@, BetKey, v)]
    BY <1>5, <2>1 DEF ProcessQgBet, CheckQgBet, Advance
  <2>3. /\ cache'.quickGamesBets = DbWrite(cache.quickGamesBets, BetKey, v)
        /\ cache'.chainGamesLottoBets = cache.chainGamesLottoBets
        /\ cache'.chainGamesLottoEvents = cache.chainGamesLottoEvents
        /\ cache'.chainGamesLottoResults = cache.chainGamesLottoResults
        /\ cache'.fieldResults = cache.fieldResults
    BY <1>0, <2>2 DEF IsView, Databases
  <2>4. DOMAIN cache'.quickGamesBets = DOMAIN cache.quickGamesBets \cup {BetKey}
    BY <2>3 DEF DbWrite, Put
  <2>5. Entered(Tx, BlkHeight, cache')
    BY <1>2, <2>1, <2>4 DEF Entered, HasType
  <2> QED BY <2>3, <2>4, <2>5 DEF GameEntered
<1>6. CASE ProcessCgEvent
  <2>1. type = "cgEvent" /\ CheckCgEvent(Out)
    BY <1>1, <1>2, <1>6, CheckedOutput DEF ProcessCgEvent, Processing, Handles, HasType
  <2>2. PICK v : cache' = [cache EXCEPT !.chainGamesLottoEvents = DbWrite(@, Out.event, v)]
    BY <1>6, <2>1 DEF ProcessCgEvent, CheckCgEvent, Advance
  <2>3. /\ cache'.chainGamesLottoEvents = DbWrite(cache.chainGamesLottoEvents, Out.event, v)
        /\ cache'.chainGamesLottoBets = cache.chainGamesLottoBets
        /\ cache'.quickGamesBets = cache.quickGamesBets
        /\ cache'.chainGamesLottoResults = cache.chainGamesLottoResults
        /\ cache'.fieldResults = cache.fieldResults
    BY <1>0, <2>2 DEF IsView, Databases
  <2>4. DOMAIN cache'.chainGamesLottoEvents = DOMAIN cache.chainGamesLottoEvents \cup {Out.event}
    BY <2>3 DEF DbWrite, Put
  <2>5. Entered(Tx, BlkHeight, cache')
    BY <1>2, <2>1, <2>4 DEF Entered, HasType
  <2> QED BY <2>3, <2>4, <2>5 DEF GameEntered
<1>7. CASE ProcessCgResult
  <2>1. type = "cgResult" /\ CheckCgResult(Out)
    BY <1>1, <1>2, <1>7, CheckedOutput DEF ProcessCgResult, Processing, Handles, HasType
  <2>2. Out.event \in DOMAIN cache.chainGamesLottoEvents
    BY <1>2, <2>1 DEF CheckCgResult, GInv
  <2>3. \/ cache' = [cache EXCEPT !.chainGamesLottoResults = @ \cup {Out.event}]
        \/ cache' = cache /\ Out.event \in cache.chainGamesLottoResults
    BY <1>7, <2>1, <2>2 DEF ProcessCgResult, CheckCgResult, Advance, AdvanceWithResult
  <2> QED BY <1>0, <1>2, <2>1, <2>3 DEF GameEntered, Entered, HasType, IsView, Databases
<1> QED BY <1>4, <1>5, <1>6, <1>7

\* Undoing it finds the entry, and takes no other.
GameLeft ==
    /\ mode' = mode
    /\ \A tx \in Txs, h \in Nat : tx # Tx /\ Entered(tx, h, cache) => Entered(tx, h, cache')
    /\ DOMAIN cache'.fieldResults = DOMAIN cache.fieldResults

LEMMA GamesLeave ==
    ASSUME Ordinary, Undoable, TypeOK, UInv, GInv, UndoCgBet \/ UndoQgBet \/ UndoCgEvent \/ UndoCgResult
    PROVE  GameLeft
<1>0. IsView(cache)
  BY DEF TypeOK
<1>1. PICK type \in GameTypes : Undoing(type)
  BY DEF UndoCgBet, UndoQgBet, UndoCgEvent, UndoCgResult, GameTypes
<1>2. /\ mode = "disconnect" /\ AtOutput /\ First(Tx).type = type /\ Out = First(Tx) /\ Tx \in Txs
      /\ BetKey = <<TipHeight, Tx.id, 1>> /\ TipHeight \in Nat
  <2>1. mode = "disconnect" /\ AtOutput /\ First(Tx).type = type /\ Out = First(Tx) /\ Tx \in Txs
            /\ BlkHeight = TipHeight
    BY <1>1, AtUndoing
  <2> QED BY <2>1, AtTx, ChainSeq DEF BetKey
<1>3. Entered(Tx, TipHeight, cache)
  <2>1. Len(chain) \in DOMAIN chain /\ pos.tx \in DOMAIN chain[Len(chain)].txs
            /\ Tx = chain[Len(chain)].txs[pos.tx]
    BY <1>2, AtTx, ChainSeq DEF UInv, Once
  <2>2. MinedAt(Tx, TipHeight)
    BY <2>1, ChainSeq DEF MinedAt
  <2>3. Handled(Tx, TipHeight)
    BY <1>2, <2>2, AtTx DEF Handled
  <2> QED BY <1>2, <2>3 DEF GInv
<1>5. ASSUME NEW tx \in Txs, tx # Tx, NEW h PROVE <<h, tx.id, 1>> # <<TipHeight, Tx.id, 1>>
  BY <1>2, <1>5 DEF Ordinary
<1>6. \A tx \in Txs : tx # Tx =>
          /\ HasType(tx, {"cgEvent"}) /\ type = "cgEvent" => First(tx).event # First(Tx).event
          /\ HasType(tx, {"cgResult"}) /\ type = "cgResult" => First(tx).event # First(Tx).event
  BY <1>2 DEF Undoable, HasType
<1>8. CASE UndoCgBet
  <2>1. type = "cgBet"
    BY <1>1, <1>2, <1>8 DEF UndoCgBet, Undoing, Handles
  <2>2. BetKey \in DOMAIN cache.chainGamesLottoBets
    BY <1>2, <1>3, <2>1 DEF Entered, HasType
  <2>3. mode' = mode /\ (cache' = cache \/ cache' = [cache EXCEPT !.chainGamesLottoBets = DbErase(@, BetKey)])
    BY <1>8, <2>2 DEF UndoCgBet, EraseOr, Advance
  <2>4. /\ (cache'.chainGamesLottoBets = DbErase(cache.chainGamesLottoBets, BetKey) \/ cache' = cache)
        /\ cache'.quickGamesBets = cache.quickGamesBets
        /\ cache'.chainGamesLottoEvents = cache.chainGamesLottoEvents
        /\ cache'.chainGamesLottoResults = cache.chainGamesLottoResults
        /\ cache'.fieldResults = cache.fieldResults
    BY <1>0, <2>3 DEF IsView, Databases
  <2>5. DOMAIN cache.chainGamesLottoBets \ {BetKey} \subseteq DOMAIN cache'.chainGamesLottoBets
    BY <2>4 DEF DbErase, Restrict
  <2>6. ASSUME NEW tx \in Txs, NEW h \in Nat, tx # Tx, Entered(tx, h, cache) PROVE Entered(tx, h, cache')
    BY <1>2, <1>5, <2>1, <2>4, <2>5, <2>6 DEF Entered, HasType
  <2> QED BY <1>2, <2>3, <2>4, <2>6 DEF GameLeft
<1>9. CASE UndoQgBet
  <2>1. type = "qgBet"
    BY <1>1, <1>2, <1>9 DEF UndoQgBet, Undoing, Handles
  <2>2. BetKey \in DOMAIN cache.quickGamesBets
    BY <1>2, <1>3, <2>1 DEF Entered, HasType
  <2>3. mode' = mode /\ cache' = [cache EXCEPT !.quickGamesBets = DbErase(@, BetKey)]
    BY <1>9, <2>2 DEF UndoQgBet, EraseOr, Advance
  <2>4. /\ cache'.quickGamesBets = DbErase(cache.quickGamesBets, BetKey)
        /\ cache'.chainGamesLottoBets = cache.chainGamesLottoBets
        /\ cache'.chainGamesLottoEvents = cache.chainGamesLottoEvents
        /\ cache'.chainGamesLottoResults = cache.chainGamesLottoResults
        /\ cache'.fieldResults = cache.fieldResults
    BY <1>0, <2>3 DEF IsView, Databases
  <2>5. DOMAIN cache.quickGamesBets \ {BetKey} \subseteq DOMAIN cache'.quickGamesBets
    BY <2>4 DEF DbErase, Restrict
  <2>6. ASSUME NEW tx \in Txs, NEW h \in Nat, tx # Tx, Entered(tx, h, cache) PROVE Entered(tx, h, cache')
    BY <1>2, <1>5, <2>1, <2>4, <2>5, <2>6 DEF Entered, HasType
  <2> QED BY <1>2, <2>3, <2>4, <2>6 DEF GameLeft
<1>10. CASE UndoCgEvent
  <2>1. type = "cgEvent"
    BY <1>1, <1>2, <1>10 DEF UndoCgEvent, Undoing, Handles
  <2>2. Out.event \in DOMAIN cache.chainGamesLottoEvents
    BY <1>2, <1>3, <2>1 DEF Entered, HasType
  <2>3. mode' = mode /\ cache' = [cache EXCEPT !.chainGamesLottoEvents = DbErase(@, Out.event)]
    BY <1>10, <2>2 DEF UndoCgEvent, EraseOr, Advance
  <2>4. /\ cache'.chainGamesLottoEvents = DbErase(cache.chainGamesLottoEvents, Out.event)
        /\ cache'.chainGamesLottoBets = cache.chainGamesLottoBets
        /\ cache'.quickGamesBets = cache.quickGamesBets
        /\ cache'.chainGamesLottoResults = cache.chainGamesLottoResults
        /\ cache'.fieldResults = cache.fieldResults
    BY <1>0, <2>3 DEF IsView, Databases
  <2>5. DOMAIN cache.chainGamesLottoEvents \ {Out.event} \subseteq DOMAIN cache'.chainGamesLottoEvents
    BY <2>4 DEF DbErase, Restrict
  <2>6. ASSUME NEW tx \in Txs, NEW h \in Nat, tx # Tx, Entered(tx, h, cache) PROVE Entered(tx, h, cache')
    BY <1>2, <1>6, <2>1, <2>4, <2>5, <2>6 DEF Entered, HasType
  <2> QED BY <1>2, <2>3, <2>4, <2>6 DEF GameLeft
<1>11. CASE UndoCgResult
  <2>1. type = "cgResult"
    BY <1>1, <1>2, <1>11 DEF UndoCgResult, Undoing, Handles
  <2>2. Out.event \in cache.chainGamesLottoResults
    BY <1>2, <1>3, <2>1 DEF Entered, HasType
  <2>3. mode' = mode /\ cache' = [cache EXCEPT !.chainGamesLottoResults = @ \ {Out.event}]
    BY <1>11, <2>2 DEF UndoCgResult, EraseOr, Advance
  <2> QED BY <1>0, <1>2, <1>6, <2>1, <2>3 DEF GameLeft, Entered, HasType, IsView, Databases
<1> QED BY <1>8, <1>9, <1>10, <1>11

\* Connecting any output keeps the games of the others and enters its own.
LEMMA ConnectGames ==
    ASSUME Ordinary, TypeOK, UInv, GInv, ConnectsOutput, GameEntered
    PROVE  mode' # "failed" /\ GInv'
<1>1. /\ mode = "connect" /\ AtOutput /\ mode' = mode /\ view' = view /\ chain' = chain
      /\ pos' = NextPos /\ blk'.txs = blk.txs
  BY DEF ConnectsOutput, MovesTo
<1>2. \A tx, h : Handled(tx, h)' <=> Handled(tx, h) \/ (tx = Tx /\ h = BlkHeight)
  BY <1>1, HandledMore DEF UInv
<1>3. ASSUME NEW tx \in Txs, NEW h \in Nat, Handled(tx, h)' PROVE Entered(tx, h, cache')
  <2>1. CASE tx = Tx /\ h = BlkHeight
    BY <2>1 DEF GameEntered
  <2>2. CASE Handled(tx, h)
    <3>1. Entered(tx, h, cache)
      BY <1>1, <2>2 DEF GInv
    <3> QED BY <3>1 DEF Entered, GameEntered
  <2> QED BY <1>2, <1>3, <2>1, <2>2
<1>4. DOMAIN view.chainGamesLottoEvents \subseteq DOMAIN cache'.chainGamesLottoEvents
  BY <1>1 DEF GInv, GameEntered
<1>5. blk.txs # <<>>
  BY <1>1, AtTx
<1>6. DOMAIN view.fieldResults = {} /\ DOMAIN cache'.fieldResults = {}
  BY <1>1 DEF GInv, GameEntered
<1>7. \A tx \in Txs, h \in Nat : Handled(tx, h)' => Entered(tx, h, cache)'
  BY <1>3 DEF Entered, HasType, First
<1> QED BY <1>1, <1>4, <1>5, <1>6, <1>7 DEF GInv

\* Disconnecting any output keeps the games of the others.
LEMMA DisconnectGames ==
    ASSUME Ordinary, TypeOK, UInv, GInv, DisconnectsOutput, GameLeft
    PROVE  mode' # "failed" /\ GInv'
<1>1. /\ mode = "disconnect" /\ AtOutput /\ mode' = mode /\ view' = view /\ chain' = chain
      /\ pos' = NextPos /\ blk'.txs = blk.txs
  BY DEF DisconnectsOutput, MovesTo
<1>2. \A tx, h : Handled(tx, h)' <=> Handled(tx, h) /\ tx # Tx
  BY <1>1, HandledLess DEF UInv
<1>3. ASSUME NEW tx \in Txs, NEW h \in Nat, Handled(tx, h)' PROVE Entered(tx, h, cache')
  BY <1>1, <1>2, <1>3 DEF GInv, GameLeft
<1>4. DOMAIN view.fieldResults = {} /\ DOMAIN cache'.fieldResults = {}
  BY <1>1 DEF GInv, GameLeft
<1>5. \A tx \in Txs, h \in Nat : Handled(tx, h)' => Entered(tx, h, cache)'
  BY <1>3 DEF Entered, HasType, First
<1> QED BY <1>1, <1>4, <1>5 DEF GInv

\* No handler gives up.
LEMMA OutputGames ==
    ASSUME Ordinary, Undoable, TypeOK, UInv, GInv, SkipOutput \/ PeerlessStep \/ FieldStep \/ GamesStep
    PROVE  mode' # "failed" /\ GInv'
<1>0. IsView(cache)
  BY DEF TypeOK
<1>1. ASSUME ~HasType(Tx, GameTypes), SameGames(cache', cache) PROVE GameEntered
  BY <1>1 DEF GameEntered, Entered, HasType, GameTypes, SameGames
<1>2. ASSUME SameGames(cache', cache), mode' = mode PROVE GameLeft
  BY <1>2 DEF GameLeft, Entered, SameGames
<1>3. ASSUME ConnectsOutput \/ DisconnectsOutput, ~HasType(Tx, GameTypes), Abort \/ SameGames(cache', cache)
      PROVE  mode' # "failed" /\ GInv'
  <2>1. mode' = mode /\ mode # "failed"
    BY <1>3 DEF ConnectsOutput, DisconnectsOutput, MovesTo
  <2>2. SameGames(cache', cache)
    BY <1>3, <2>1 DEF Abort
  <2> QED BY <1>1, <1>2, <1>3, <2>1, <2>2, ConnectGames, DisconnectGames
<1>4. CASE PeerlessStep
  <2>1. ConnectsOutput \/ DisconnectsOutput
    BY <1>4, PeerlessConnects, PeerlessDisconnects DEF PeerlessStep
  <2> QED BY <1>0, <1>3, <1>4, <2>1, NotAGame, PeerlessGames
<1>5. CASE FieldStep
  <2>1. ConnectsOutput \/ DisconnectsOutput
    BY <1>5, FieldConnects, FieldDisconnects DEF FieldStep
  <2>2. ~Processing("fResult") /\ ~Undoing("fResult")
    BY AtProcessing, AtUndoing DEF Undoable, HasType
  <2> QED BY <1>0, <1>3, <1>5, <2>1, <2>2, NotAGame, FieldGames
<1>6. CASE ProcessCgBet \/ ProcessQgBet \/ ProcessCgEvent \/ ProcessCgResult
  BY <1>6, GamesConnect, GamesEnter, ConnectGames
<1>7. CASE UndoCgBet \/ UndoQgBet \/ UndoCgEvent \/ UndoCgResult
  <2>1. GameLeft /\ mode = "disconnect"
    BY <1>7, GamesLeave DEF UndoCgBet, UndoQgBet, UndoCgEvent, UndoCgResult, Undoing, Handles
  <2>2. ~Abort
    BY <2>1 DEF GameLeft, Abort
  <2> QED BY <1>7, <2>1, <2>2, GamesDisconnect, DisconnectGames
<1> QED BY <1>4, <1>5, <1>6, <1>7, NothingSkipped DEF GamesStep

\* The steps between blocks.
LEMMA SameHandledGames ==
    ASSUME GInv, mode # "failed", \A tx, h : Handled(tx, h)' <=> Handled(tx, h), SameGames(cache', cache)
    PROVE  /\ \A tx \in Txs, h \in Nat : Handled(tx, h)' => Entered(tx, h, cache)'
           /\ DOMAIN cache'.fieldResults = {}
<1>1. \A tx \in Txs, h \in Nat : Handled(tx, h) => Entered(tx, h, cache)
  BY DEF GInv
<1>2. \A tx, h : Entered(tx, h, cache') <=> Entered(tx, h, cache)
  BY EnteredSame
<1>3. \A tx, h : Entered(tx, h, cache)' <=> Entered(tx, h, cache')
  BY DEF Entered, HasType, First
<1> QED BY <1>1, <1>2, <1>3 DEF GInv, SameGames

\* Settling marks bets and adds none.
LEMMA SettledGames ==
    ASSUME IsView(view), NEW last, NEW height
    PROVE  LET v == GetBettingPayouts(view, last, height).view IN IsView(v) /\ SameGames(v, view)
<1> DEFINE lotto == GetCGLottoBetPayouts(view, last, height).bets
           quick == GetQuickGamesBetPayouts(view, last, height).bets
<1>1. DOMAIN lotto = DOMAIN view.chainGamesLottoBets
  BY DEF GetCGLottoBetPayouts, SettleDraws
<1>2. DOMAIN quick = DOMAIN view.quickGamesBets
  BY DEF GetQuickGamesBetPayouts, SettleQuickGames
<1>3. \E b, f : GetBettingPayouts(view, last, height).view =
          [view EXCEPT !.bets = b, !.chainGamesLottoBets = lotto, !.quickGamesBets = quick, !.fieldBets = f]
  BY DEF GetBettingPayouts, AllPayouts
<1> HIDE DEF lotto, quick
<1> QED BY <1>1, <1>2, <1>3 DEF SameGames, IsView, Databases

LEMMA BeginConnectGames ==
    ASSUME IInv, UInv, GInv, NEW time, NEW proof, BeginConnect(time, proof)
    PROVE  mode' # "failed" /\ GInv'
<1> DEFINE due == GetBettingPayouts(view, Last(chain), TipHeight + 1)
<1>1. TypeOK /\ mode = "idle" /\ view.lastHeight = TipHeight
  BY DEF BeginConnect, IInv, HeightsAgree
<1>2. StartBlock(time, proof, due)
  BY <1>1 DEF BeginConnect
<1>3. IsView(due.view) /\ SameGames(due.view, view)
  BY <1>1, SettledGames DEF TypeOK
<1> HIDE DEF due
<1>4. /\ mode' = "connect" /\ view' = view
      /\ cache' = SavePayoutsInfo(due.view, due.payouts, TipHeight + 1)
  BY <1>2 DEF StartBlock
<1>5. SameGames(cache', view)
  <2>1. cache' = [due.view EXCEPT !.payoutsInfo = cache'.payoutsInfo]
    BY <1>3, <1>4 DEF SavePayoutsInfo, IsView, Databases
  <2> QED BY <1>3, <2>1 DEF SameGames, IsView, Databases
<1>6. cache = view
  BY <1>1 DEF UInv
<1>7. \A tx, h : Handled(tx, h)' <=> Handled(tx, h)
  BY <1>1, <1>4, BeginConnectUndos DEF Abort
<1>8. /\ \A tx \in Txs, h \in Nat : Handled(tx, h)' => Entered(tx, h, cache)'
      /\ DOMAIN cache'.fieldResults = {}
  BY <1>1, <1>5, <1>6, <1>7, SameHandledGames
<1>9. DOMAIN view.fieldResults = {}
  BY <1>1 DEF GInv
<1> QED BY <1>4, <1>5, <1>8, <1>9 DEF GInv, SameGames

LEMMA RejectBlockGames ==
    ASSUME IInv, UInv, GInv, RejectBlock
    PROVE  mode' # "failed" /\ GInv'
<1>1. /\ TypeOK /\ mode = "connect" /\ mode' = "idle" /\ cache' = view /\ view' = view /\ blk.txs = <<>>
  BY DEF RejectBlock, IInv
<1>2. SameGames(cache', cache)
  BY <1>1 DEF GInv, SameGames
<1>3. \A tx, h : Handled(tx, h)' <=> Handled(tx, h)
  BY <1>1, RejectBlockUndos
<1> QED BY <1>1, <1>2, <1>3, SameHandledGames DEF GInv

LEMMA TakeTxGames ==
    ASSUME Ordinary, IInv, UInv, GInv, NEW tx \in Txs, TakeTx(tx)
    PROVE  mode' # "failed" /\ GInv'
<1>1. /\ TypeOK /\ mode = "connect" /\ mode' = mode /\ cache' = cache /\ view' = view
      /\ blk'.txs = Append(blk.txs, tx)
  BY DEF TakeTx, IInv, TypeOK
<1>2. SameGames(cache', cache)
  BY <1>1 DEF SameGames
<1>3. blk'.txs # <<>>
  BY <1>1, AppendProperties DEF TypeOK
<1>4. \A t, h : Handled(t, h)' <=> Handled(t, h)
  BY <1>1, TakeTxUndos
<1> QED BY <1>1, <1>2, <1>3, <1>4, SameHandledGames DEF GInv

LEMMA EndConnectGames ==
    ASSUME Ordinary, IInv, UInv, GInv, EndConnect
    PROVE  mode' # "failed" /\ GInv'
<1> DEFINE pruned == IF BlkHeight % (MaxUndoDepth - 1) = 0
                     THEN PruneOlderUndos(cache, BlkHeight - MaxUndoDepth) ELSE cache
           done   == [pruned EXCEPT !.lastHeight = BlkHeight]
<1>1. /\ TypeOK /\ mode = "connect" /\ mode' = "idle" /\ view' = done /\ cache' = done
  BY DEF EndConnect, IInv
<1>2. IsView(pruned) /\ SameGames(pruned, cache)
  <2>1. \E u : pruned = [cache EXCEPT !.undos = u] \/ pruned = cache
    BY DEF PruneOlderUndos
  <2> HIDE DEF pruned
  <2> QED BY <1>1, <2>1 DEF TypeOK, SameGames, IsView, Databases
<1> HIDE DEF pruned
<1>3. SameGames(done, cache)
  BY <1>2 DEF SameGames, IsView, Databases
<1> HIDE DEF done
<1>4. \A tx, h : Handled(tx, h)' <=> Handled(tx, h)
  BY EndConnectUndos
<1> QED BY <1>1, <1>3, <1>4, SameHandledGames DEF GInv

LEMMA BeginDisconnectGames ==
    ASSUME Undoable, IInv, UInv, GInv, BeginDisconnect
    PROVE  mode' # "failed" /\ GInv'
<1> DEFINE ids    == chain[Len(chain) - 1].vResultIDs
           undone == UndoQGBetPayouts(UndoPLBetPayouts(view, ids, TipHeight), TipHeight)
<1>1. TypeOK /\ mode = "idle" /\ cache = view /\ DOMAIN view.fieldResults = {}
  BY DEF BeginDisconnect, IInv, UInv, GInv
<1>2. IsView(undone) /\ SameGames(undone, view)
  <2>1. ASSUME NEW v, IsView(v), NEW rs, NEW height
        PROVE  /\ IsView(UndoPLBetPayouts(v, rs, height)) /\ SameGames(UndoPLBetPayouts(v, rs, height), v)
               /\ IsView(UndoQGBetPayouts(v, height)) /\ SameGames(UndoQGBetPayouts(v, height), v)
    BY <2>1, ExceptView DEF UndoPLBetPayouts, UndoQGBetPayouts, SameGames, IsView, Databases
  <2> DEFINE paid == UndoPLBetPayouts(view, ids, TipHeight)
  <2>2. IsView(paid) /\ SameGames(paid, view)
    BY <1>1, <2>1 DEF TypeOK
  <2> HIDE DEF paid
  <2>3. IsView(UndoQGBetPayouts(paid, TipHeight)) /\ SameGames(UndoQGBetPayouts(paid, TipHeight), paid)
    BY <2>1, <2>2
  <2> QED BY <2>2, <2>3 DEF paid, SameGames
<1>3. FieldUndoDecodes(undone, ids, TipHeight)
  <2> HIDE DEF undone, ids
  <2> QED BY <1>1, <1>2 DEF FieldUndoDecodes, Posted, SameGames
<1>4. mode' = "disconnect" /\ cache' = UndoPayoutsInfo(undone, TipHeight) /\ view' = view
  BY <1>3 DEF BeginDisconnect
<1>5. SameGames(cache', cache)
  <2> HIDE DEF undone
  <2>1. cache' = [undone EXCEPT !.payoutsInfo = cache'.payoutsInfo]
    BY <1>2, <1>4 DEF UndoPayoutsInfo, IsView, Databases
  <2> QED BY <1>1, <1>2, <2>1 DEF SameGames, IsView, Databases
<1> HIDE DEF undone
<1>6. \A tx, h : Handled(tx, h)' <=> Handled(tx, h)
  BY <1>4, BeginDisconnectUndos
<1> QED BY <1>1, <1>4, <1>5, <1>6, SameHandledGames DEF GInv

LEMMA EndDisconnectGames ==
    ASSUME IInv, UInv, GInv, EndDisconnect
    PROVE  mode' # "failed" /\ GInv'
<1> DEFINE done == [cache EXCEPT !.lastHeight = TipHeight - 1]
<1>1. /\ TypeOK /\ mode = "disconnect" /\ mode' = "idle" /\ view' = done /\ cache' = done
  BY DEF EndDisconnect, IInv
<1>2. SameGames(done, cache)
  BY <1>1 DEF TypeOK, SameGames, IsView, Databases
<1> HIDE DEF done
<1>3. \A tx, h : Handled(tx, h)' <=> Handled(tx, h)
  BY EndDisconnectUndos
<1> QED BY <1>1, <1>2, <1>3, SameHandledGames DEF GInv

LEMMA GInvStep ==
    ASSUME Ordinary, Undoable, IInv, UInv, GInv, mode # "failed", [Next]_vars
    PROVE  mode' # "failed" /\ GInv'
<1>0. TypeOK
  BY DEF IInv
<1>1. CASE UNCHANGED vars
  <2>1. /\ view' = view /\ cache' = cache /\ chain' = chain /\ mode' = mode /\ blk' = blk /\ pos' = pos
    BY <1>1 DEF vars
  <2>2. \A tx, h : Handled(tx, h)' <=> Handled(tx, h)
    BY <2>1 DEF Handled, MinedAt, TipHeight, BlkHeight
  <2>3. SameGames(cache', cache)
    BY <2>1 DEF SameGames
  <2>4. /\ \A tx \in Txs, h \in Nat : Handled(tx, h)' => Entered(tx, h, cache)'
        /\ DOMAIN cache'.fieldResults = {}
    BY <2>2, <2>3, SameHandledGames
  <2> QED BY <2>1, <2>4 DEF GInv, SameGames
<1>2. CASE Connect
  BY <1>2, BeginConnectGames, RejectBlockGames, TakeTxGames, EndConnectGames DEF Connect
<1>3. CASE Disconnect
  BY <1>3, BeginDisconnectGames, EndDisconnectGames DEF Disconnect
<1>4. CASE SkipOutput \/ PeerlessStep \/ FieldStep \/ GamesStep
  BY <1>0, <1>4, OutputGames
<1> QED BY <1>1, <1>2, <1>3, <1>4 DEF Next

LEMMA InitGInv == Ordinary /\ Undoable /\ Init => GInv /\ mode # "failed"
<1> SUFFICES ASSUME Ordinary, Undoable, Init PROVE GInv /\ mode # "failed"
  OBVIOUS
<1>1. mode = "idle" /\ cache = BaseView /\ view = BaseView
  BY DEF Init
<1>2. \A i \in DOMAIN chain : DOMAIN chain[i].txs = {}
  BY DEF Init, Connected, NoBlock, Block
<1>3. \A tx, h : ~Handled(tx, h)
  BY <1>1, <1>2 DEF Handled, MinedAt
<1> QED BY <1>1, <1>3 DEF GInv, Undoable

(* No assertion fails and no undo gives up, however many blocks are connected
   and disconnected within MaxUndoDepth of the highest tip: every output finds
   the record or entry it left and none that it did not (SaveBettingUndo,
   UndoEventChanges, the Erase of the games, the height check of
   ConnectBlock). *)
THEOREM NeverFailsCorrect == Ordinary /\ Undoable => (Spec => []NeverFails)
<1> SUFFICES ASSUME Ordinary, Undoable PROVE Spec => []NeverFails
  OBVIOUS
<1> DEFINE Inv == IInv /\ UInv /\ GInv /\ mode # "failed"
<1>1. Init => Inv
  BY InitIInv, InitUInv, InitGInv
<1>2. Inv /\ [Next]_vars => Inv'
  BY IInvStep, UInvStep, GInvStep
<1>3. Inv => NeverFails
  BY DEF NeverFails
<1> QED BY <1>1, <1>2, <1>3, PTL DEF Spec

-----------------------------------------------------------------------------
\* Sets in order, and sequences at some of their positions.

\* What InOrder needs to list a set: std::map and std::set iterate in such an order.
StrictOrder(S, R) ==
    /\ \A x \in S : <<x, x>> \notin R
    /\ \A x, y, z \in S : <<x, y>> \in R /\ <<y, z>> \in R => <<x, z>> \in R
    /\ \A x, y \in S : x = y \/ <<x, y>> \in R \/ <<y, x>> \in R

\* InOrder goes through the elements of a finite set, each of them once.
LEMMA InOrderLists ==
    ASSUME NEW S, IsFiniteSet(S), NEW R, StrictOrder(S, R)
    PROVE  /\ Cardinality(S) \in Nat
           /\ InOrder(S, R) \in [1 .. Cardinality(S) -> S]
           /\ \A x \in S : \E i \in 1 .. Cardinality(S) : InOrder(S, R)[i] = x
           /\ \A i, j \in 1 .. Cardinality(S) : InOrder(S, R)[i] = InOrder(S, R)[j] => i = j
<1> DEFINE n == Cardinality(S)
           Before(x) == {y \in S : <<y, x>> \in R}
           rank == [x \in S |-> Cardinality(Before(x))]
<1>1. n \in Nat /\ \A x \in S : IsFiniteSet(Before(x)) /\ Cardinality(Before(x)) \in Nat
  BY FS_Subset, FS_CardinalityType
<1>2. ASSUME NEW x \in S PROVE rank[x] \in 0 .. n - 1
  <2>1. IsFiniteSet(S \ {x}) /\ Cardinality(S \ {x}) = n - 1
    BY FS_RemoveElement
  <2>2. Before(x) \in SUBSET (S \ {x})
    BY DEF StrictOrder
  <2>3. Cardinality(Before(x)) <= Cardinality(S \ {x})
    <3> HIDE DEF Before
    <3> QED BY <2>1, <2>2, FS_Subset
  <2> QED BY <1>1, <2>1, <2>3
<1>3. ASSUME NEW x \in S, NEW y \in S, <<x, y>> \in R PROVE rank[x] < rank[y]
  <2>1. Before(x) \in SUBSET Before(y) /\ x \in Before(y) /\ x \notin Before(x)
    BY <1>3 DEF StrictOrder
  <2>2. Cardinality(Before(x)) <= Cardinality(Before(y)) /\ Cardinality(Before(x)) # Cardinality(Before(y))
    <3> HIDE DEF Before
    <3>1. Before(x) # Before(y)
      BY <2>1
    <3> QED BY <1>1, <2>1, <3>1, FS_Subset
  <2> QED BY <1>1, <2>2
<1>4. ASSUME NEW x \in S, NEW y \in S, rank[x] = rank[y] PROVE x = y
  <2>1. x = y \/ <<x, y>> \in R \/ <<y, x>> \in R
    BY DEF StrictOrder
  <2>2. rank[x] \in Int /\ rank[y] \in Int
    <3> HIDE DEF rank
    <3> QED BY <1>2
  <2> HIDE DEF rank
  <2> QED BY <1>3, <1>4, <2>1, <2>2
<1>5. rank \in Injection(S, 0 .. n - 1)
  <2>1. rank \in [S -> 0 .. n - 1]
    <3>1. rank = [x \in S |-> rank[x]]
      OBVIOUS
    <3> HIDE DEF rank
    <3> QED BY <1>2, <3>1
  <2> HIDE DEF rank
  <2> QED BY <1>4, <2>1 DEF Injection, IsInjective
<1>6. rank \in Surjection(S, 0 .. n - 1)
  <2>1. IsFiniteSet(0 .. n - 1) /\ Cardinality(0 .. n - 1) = n
    BY <1>1, FS_Interval
  <2> HIDE DEF rank
  <2> QED BY <1>5, <2>1, FS_Injection
<1>7. ASSUME NEW i \in 1 .. n
      PROVE  InOrder(S, R)[i] \in S /\ rank[InOrder(S, R)[i]] = i - 1
  <2>1. PICK x \in S : rank[x] = i - 1
    <3>1. i - 1 \in 0 .. n - 1
      BY <1>1
    <3> HIDE DEF rank
    <3> QED BY <1>6, <3>1 DEF Surjection
  <2> QED BY <2>1 DEF InOrder
<1>8. InOrder(S, R) \in [1 .. n -> S]
  <2>1. InOrder(S, R) = [i \in 1 .. n |-> CHOOSE x \in S : Cardinality({y \in S : <<y, x>> \in R}) = i - 1]
    BY DEF InOrder
  <2> HIDE DEF rank
  <2> QED BY <1>7, <2>1
<1>9. ASSUME NEW x \in S PROVE \E i \in 1 .. n : InOrder(S, R)[i] = x
  <2> DEFINE i == rank[x] + 1
  <2>1. i \in 1 .. n /\ rank[x] = i - 1
    <3> HIDE DEF rank
    <3> QED BY <1>1, <1>2
  <2> HIDE DEF rank, i
  <2> QED BY <1>4, <1>7, <2>1
<1>10. \A i, j \in 1 .. n : InOrder(S, R)[i] = InOrder(S, R)[j] => i = j
  <2> HIDE DEF rank
  <2> QED BY <1>1, <1>7
<1> QED BY <1>1, <1>8, <1>9, <1>10

\* At takes what is at these positions.
TakenFrom(t, s, P) == \A i \in DOMAIN t : \E x \in P : t[i] = s[x]

LEMMA AtElements ==
    ASSUME NEW s, NEW P, IsFiniteSet(P), P \subseteq Nat, NEW t, t = At(s, P)
    PROVE  DOMAIN t = 1 .. Cardinality(P) /\ TakenFrom(t, s, P)
<1> DEFINE R == {p \in P \X P : p[1] < p[2]}
           f == InOrder(P, R)
<1>1. StrictOrder(P, R)
  BY DEF StrictOrder
<1>2. At(s, P) = [i \in 1 .. Cardinality(P) |-> s[f[i]]]
  BY DEF At
<1> HIDE DEF R
<1>3. Cardinality(P) \in Nat /\ f \in [1 .. Cardinality(P) -> P]
  BY <1>1, InOrderLists
<1> HIDE DEF f
<1> QED BY <1>2, <1>3 DEF TakenFrom

\* At all positions there is the sequence itself.
LEMMA AtAll ==
    ASSUME NEW n \in Nat, NEW s, s = [i \in 1 .. n |-> s[i]]
    PROVE  At(s, DOMAIN s) = s
<1> DEFINE P == 1 .. n
           R == {p \in P \X P : p[1] < p[2]}
           f == InOrder(P, R)
<1>1. DOMAIN s = P
  OBVIOUS
<1>2. IsFiniteSet(P) /\ Cardinality(P) = n
  BY FS_Interval
<1>3. ASSUME NEW i \in P PROVE f[i] = i
  <2>1. ASSUME NEW x \in P PROVE Cardinality({y \in P : <<y, x>> \in R}) = x - 1
    <3>1. {y \in P : <<y, x>> \in R} = 1 .. x - 1
      OBVIOUS
    <3>2. Cardinality(1 .. x - 1) = IF 1 > x - 1 THEN 0 ELSE (x - 1) - 1 + 1
      BY FS_Interval, 1 \in Int, x - 1 \in Int
    <3>3. Cardinality(1 .. x - 1) = x - 1
      BY <3>2
    <3> HIDE DEF R
    <3> QED BY <3>1, <3>3
  <2>2. f[i] = CHOOSE x \in P : Cardinality({y \in P : <<y, x>> \in R}) = i - 1
    BY <1>2 DEF InOrder
  <2> HIDE DEF R, f
  <2> QED BY <2>1, <2>2
<1>4. At(s, P) = [i \in P |-> s[f[i]]]
  BY <1>2 DEF At
<1> HIDE DEF f
<1> QED BY <1>1, <1>3, <1>4

-----------------------------------------------------------------------------
\* What connecting an output leaves in the databases.

\* The databases in which outputs make entries: sets, bets under the place of
\* their output, and the rest under an id of their own.
SetDbs == {"mappings", "chainGamesLottoResults"}
BetDbs == {"bets", "fieldBets", "chainGamesLottoBets", "quickGamesBets"}
Dbs == {"mappings", "events", "results", "fieldEvents", "fieldResults", "chainGamesLottoEvents",
        "chainGamesLottoResults"} \cup BetDbs

\* The outputs that make the entries of a database, and under which key.
Makes == [d \in Dbs |->
    CASE d = "mappings" -> {"mapping"}
      [] d = "events" -> {"plEvent"}
      [] d = "results" -> {"plResult"}
      [] d = "bets" -> {"plBet", "plParlayBet"}
      [] d = "fieldEvents" -> {"fEvent"}
      [] d = "fieldResults" -> {"fResult"}
      [] d = "fieldBets" -> {"fBet", "fParlayBet"}
      [] d = "chainGamesLottoEvents" -> {"cgEvent"}
      [] d = "chainGamesLottoResults" -> {"cgResult"}
      [] d = "chainGamesLottoBets" -> {"cgBet"}
      [] d = "quickGamesBets" -> {"qgBet"}]

\* The key under which transaction tx of the block at height h makes an entry.
Key(d, tx, h) == IF d \in BetDbs THEN <<h, tx.id, 1>>
                 ELSE IF d = "mappings" THEN First(tx).key ELSE First(tx).event

Keys(d, tx, h) ==
    IF HasType(tx, Makes[d]) /\ (d \in {"bets", "fieldBets"} => Saves(tx)) THEN {Key(d, tx, h)} ELSE {}

\* A database is a set or a function; its keys, and what is left without some.
IsDb(d, db) == d \in SetDbs \/ db = [k \in DOMAIN db |-> db[k]]
Dom(d, db) == IF d \in SetDbs THEN db ELSE DOMAIN db
Without(d, db, K) == IF d \in SetDbs THEN db \ K ELSE Restrict(db, DOMAIN db \ K)

\* Leaving entries out.
LEMMA WithoutDb ==
    ASSUME NEW d, NEW db, NEW K
    PROVE  IsDb(d, Without(d, db, K)) /\ Dom(d, Without(d, db, K)) = Dom(d, db) \ K
BY DEF IsDb, Dom, Without, Restrict

\* Leaving out what is not there changes nothing.
LEMMA WithoutNone ==
    ASSUME NEW d, NEW db, IsDb(d, db), NEW K, K \cap Dom(d, db) = {}
    PROVE  Without(d, db, K) = db
<1>1. CASE d \in SetDbs
  BY <1>1 DEF Dom, Without
<1>2. CASE d \notin SetDbs
  <2>1. DOMAIN db \ K = DOMAIN db
    BY <1>2 DEF Dom
  <2> QED BY <1>2, <2>1 DEF IsDb, Without, Restrict
<1> QED BY <1>1, <1>2

\* Leaving out twice is leaving out once.
LEMMA WithoutTwo ==
    ASSUME NEW d, NEW db, NEW K, NEW L
    PROVE  Without(d, Without(d, db, K), L) = Without(d, db, K \cup L)
<1>1. CASE d \in SetDbs
  BY <1>1 DEF Without
<1>2. CASE d \notin SetDbs
  <2>1. (DOMAIN db \ K) \ L = DOMAIN db \ (K \cup L)
    OBVIOUS
  <2> QED BY <1>2, <2>1 DEF Without, Restrict
<1> QED BY <1>1, <1>2

\* Changing one database.
LEMMA OneDb ==
    ASSUME NEW c, IsView(c), NEW d \in Databases, NEW x
    PROVE  LET n == [c EXCEPT ![d] = x]
           IN  IsView(n) /\ n[d] = x /\ \A o \in Databases \ {d} : n[o] = c[o]
BY DEF IsView

\* All of them are databases of a view.
LEMMA DbsOfView == Dbs \subseteq Databases /\ {"undos", "payoutsInfo", "lastHeight"} \cap Dbs = {}
                     /\ Databases = Dbs \cup {"undos", "payoutsInfo", "lastHeight"}
BY DEF Dbs, Databases, BetDbs

\* The databases that records restore, by the kind of their entries, and the
\* record of a transaction.
EventDbs == {"events", "fieldEvents"}
Kind(d) == IF d = "events" THEN "peerless" ELSE "field"
Record(undos, tx) == undos[<<tx.id, 1>>].vUndos

(* What the output of tx has done to the databases s, leaving them as t: it has
   touched nothing but its own keys, or left a record that leads back.  *)
Trace(tx, h, s, t, undos) ==
    \A d \in Dbs :
        /\ IsDb(d, t[d])
        /\ Dom(d, s[d]) \subseteq Dom(d, t[d])
        /\ IF Saves(tx) /\ d \in EventDbs
           THEN <<tx.id, 1>> \in DOMAIN undos => RestoreEvents(t[d], Record(undos, tx), Kind(d)) = s[d]
           ELSE Without(d, t[d], Keys(d, tx, h)) = Without(d, s[d], Keys(d, tx, h))

\* Every database is a set or a function.
AllDbs(v) == \A d \in Dbs : IsDb(d, v[d])

\* A record about other events than those of a database leaves it alone.
LEMMA RestoreNothing ==
    ASSUME NEW db, db = [k \in DOMAIN db |-> db[k]], NEW vUndos, NEW kind,
           \A i \in DOMAIN vUndos : vUndos[i].kind # kind
    PROVE  RestoreEvents(db, vUndos, kind) = db
BY DEF RestoreEvents

\* A record with one entry per changed event, which holds the event as it was.
LEMMA RestoreSaved ==
    ASSUME NEW s, NEW t, s = [k \in DOMAIN s |-> s[k]], DOMAIN t = DOMAIN s, NEW vUndos, NEW kind,
           \A i, j \in DOMAIN vUndos : vUndos[i].id = vUndos[j].id => i = j,
           \A i \in DOMAIN vUndos : vUndos[i].kind = kind /\ vUndos[i].event = s[vUndos[i].id],
           DOMAIN vUndos \subseteq Int,
           \A e \in DOMAIN s : t[e] = s[e] \/ \E i \in DOMAIN vUndos : vUndos[i].id = e
    PROVE  RestoreEvents(t, vUndos, kind) = s
<1> DEFINE Saved(e) == {i \in DOMAIN vUndos : vUndos[i].kind = kind /\ vUndos[i].id = e}
<1>1. ASSUME NEW e \in DOMAIN s, Saved(e) # {} PROVE vUndos[Max(Saved(e))].event = s[e]
  <2>1. PICK i \in DOMAIN vUndos : Saved(e) = {i} /\ vUndos[i].id = e
    BY <1>1
  <2>2. Max(Saved(e)) = i
    BY <2>1 DEF Max
  <2> QED BY <2>1, <2>2
<1>2. ASSUME NEW e \in DOMAIN s, Saved(e) = {} PROVE t[e] = s[e]
  BY <1>2
<1>3. RestoreEvents(t, vUndos, kind) =
        [e \in DOMAIN t |-> IF Saved(e) = {} THEN t[e] ELSE vUndos[Max(Saved(e))].event]
  BY DEF RestoreEvents
<1> HIDE DEF Saved
<1> QED BY <1>1, <1>2, <1>3

\* Writing an entry.
LEMMA WrittenDb ==
    ASSUME NEW d, d \notin SetDbs, NEW db, IsDb(d, db), NEW k, NEW v, NEW K, k \in K
    PROVE  /\ IsDb(d, DbWrite(db, k, v))
           /\ Dom(d, db) \subseteq Dom(d, DbWrite(db, k, v))
           /\ DOMAIN db \subseteq DOMAIN DbWrite(db, k, v)
           /\ Without(d, DbWrite(db, k, v), K) = Without(d, db, K)
<1> DEFINE x == DbWrite(db, k, v)
<1>1. CASE k \in DOMAIN db
  BY <1>1 DEF DbWrite, Dom
<1>2. CASE k \notin DOMAIN db
  <2>1. x = [j \in DOMAIN db \cup {k} |-> IF j = k THEN v ELSE db[j]]
    BY <1>2 DEF DbWrite, Put
  <2>2. DOMAIN x \ K = DOMAIN db \ K
    BY <2>1
  <2> QED BY <2>1, <2>2 DEF IsDb, Dom, Without, Restrict
<1> QED BY <1>1, <1>2

\* A handler that changes nothing and saves nothing has left its trace.
LEMMA TraceOfNothing ==
    ASSUME AllDbs(cache), ~Saves(Tx), cache' = cache
    PROVE  Trace(Tx, BlkHeight, cache, cache', cache'.undos)
BY DEF Trace, AllDbs

\* So has one that makes a single entry and saves nothing.
LEMMA TraceOfEntry ==
    ASSUME IsView(cache), AllDbs(cache), ~Saves(Tx), NEW d \in Dbs, NEW x,
           cache' = [cache EXCEPT ![d] = x],
           IsDb(d, x), Dom(d, cache[d]) \subseteq Dom(d, x),
           Without(d, x, Keys(d, Tx, BlkHeight)) = Without(d, cache[d], Keys(d, Tx, BlkHeight))
    PROVE  /\ Trace(Tx, BlkHeight, cache, cache', cache'.undos)
           /\ cache'.payoutsInfo = cache.payoutsInfo /\ cache'.undos = cache.undos
<1>1. cache'[d] = x /\ \A o \in Databases \ {d} : cache'[o] = cache[o]
  BY DbsOfView, OneDb
<1>2. cache'.payoutsInfo = cache.payoutsInfo /\ cache'.undos = cache.undos
  BY <1>1, DbsOfView
<1>3. ASSUME NEW o \in Dbs
      PROVE  /\ IsDb(o, cache'[o])
             /\ Dom(o, cache[o]) \subseteq Dom(o, cache'[o])
             /\ Without(o, cache'[o], Keys(o, Tx, BlkHeight)) = Without(o, cache[o], Keys(o, Tx, BlkHeight))
  <2>1. CASE o = d
    BY <1>1, <2>1
  <2>2. CASE o # d
    BY <1>1, <2>2, DbsOfView DEF AllDbs
  <2> QED BY <2>1, <2>2
<1> QED BY <1>2, <1>3 DEF Trace

\* What a handler that saves a record does.
LEMMA TraceOfRecord ==
    ASSUME TypeOK, Ordinary, AllDbs(cache), mode = "connect", AtOutput, mode' # "failed", Saves(Tx),
           NEW c, IsView(c), c.undos = cache.undos, NEW vUndos, AdvanceWithUndo(c, vUndos),
           \A d \in Dbs : IsDb(d, c[d]) /\ Dom(d, cache[d]) \subseteq Dom(d, c[d]),
           \A d \in EventDbs : RestoreEvents(c[d], vUndos, Kind(d)) = cache[d],
           \A d \in Dbs \ EventDbs :
               Without(d, c[d], Keys(d, Tx, BlkHeight)) = Without(d, cache[d], Keys(d, Tx, BlkHeight)),
           c.payoutsInfo = cache.payoutsInfo
    PROVE  /\ Trace(Tx, BlkHeight, cache, cache', cache'.undos)
           /\ cache'.payoutsInfo = cache.payoutsInfo
           /\ \A d \in Dbs : cache'[d] = c[d]
<1> DEFINE r == [height |-> BlkHeight, vUndos |-> vUndos]
<1>1. cache' = [c EXCEPT !.undos = Put(@, UndoKey, r)]
  BY DEF AdvanceWithUndo, Abort, Advance
<1>2. UndoKey = <<Tx.id, 1>>
  BY AtTx
<1>3. /\ cache'.undos = Put(cache.undos, <<Tx.id, 1>>, r)
      /\ \A d \in Databases \ {"undos"} : cache'[d] = c[d]
  BY <1>1, <1>2 DEF IsView, Databases
<1>4. /\ \A d \in Dbs : cache'[d] = c[d]
      /\ cache'.payoutsInfo = cache.payoutsInfo
  BY <1>3, DbsOfView
<1>5. Record(cache'.undos, Tx) = vUndos
  BY <1>3 DEF Record, Put
<1> HIDE DEF r
<1> QED BY <1>3, <1>4, <1>5 DEF Trace, r

-----------------------------------------------------------------------------
\* The handlers of ProcessBettingTx, one after the other.

(* Lists are lists: the legs of a parlay, and the events of a zeroing, of which
   each is listed once. *)
Lists ==
    \A tx \in Txs :
        /\ HasType(tx, {"plParlayBet", "fParlayBet"}) => IsSeq(First(tx).legs)
        /\ HasType(tx, {"plZeroing"}) =>
             /\ IsSeq(First(tx).events)
             /\ \A i, j \in DOMAIN First(tx).events : First(tx).events[i] = First(tx).events[j] => i = j

\* A list taken at all its positions.
LEMMA AllOfSeq ==
    ASSUME NEW s, IsSeq(s)
    PROVE  /\ At(s, DOMAIN s) = s /\ Len(s) \in Nat /\ DOMAIN s = 1 .. Len(s)
           /\ s = [i \in 1 .. Len(s) |-> s[i]]
<1>1. Len(s) \in Nat /\ DOMAIN s = 1 .. Len(s) /\ s = [i \in 1 .. Len(s) |-> s[i]]
  BY DEF IsSeq
<1> QED BY <1>1, AtAll

\* The handler's view of where it is.
LEMMA AtConnecting ==
    ASSUME Ordinary, TypeOK, UInv, NEW type, Processing(type)
    PROVE  /\ mode = "connect" /\ AtOutput /\ First(Tx).type = type /\ Out = First(Tx) /\ Tx \in Txs
           /\ CheckBettingTx(Tx) /\ UndoKey = <<Tx.id, 1>> /\ BetKey = <<BlkHeight, Tx.id, 1>>
           /\ BlkHeight = TipHeight + 1 /\ TipHeight \in Nat /\ IsView(cache)
           /\ \A e : NamesEvent(Tx, e) => e \in DOMAIN view.events /\ e \in DOMAIN cache.events
           /\ \A e : NamesFieldEvent(Tx, e) => e \in DOMAIN view.fieldEvents /\ e \in DOMAIN cache.fieldEvents
<1>1. mode = "connect" /\ AtOutput /\ First(Tx).type = type /\ Out = First(Tx) /\ Tx \in Txs
  BY AtProcessing
<1> QED BY <1>1, AtTx, AtChecked DEF BetKey, TypeOK

\* No handler stops the node while it connects.
LEMMA ConnectingGoesOn ==
    ASSUME ConnectsOutput
    PROVE  mode' # "failed"
BY DEF ConnectsOutput, MovesTo

\* Handlers that save events, of either kind, and perhaps enter a bet.
LEMMA EventsTrace ==
    ASSUME Ordinary, TypeOK, AllDbs(cache), mode = "connect", AtOutput, mode' # "failed", Saves(Tx),
           NEW ed \in EventDbs, NEW bd \in {"bets", "fieldBets"},
           NEW c, IsView(c), NEW vUndos, AdvanceWithUndo(c, vUndos),
           \A d \in Databases : d = ed \/ d = bd \/ c[d] = cache[d],
           IsDb(ed, c[ed]), DOMAIN c[ed] = DOMAIN cache[ed],
           IsDb(bd, c[bd]), DOMAIN cache[bd] \subseteq DOMAIN c[bd],
           Without(bd, c[bd], Keys(bd, Tx, BlkHeight)) = Without(bd, cache[bd], Keys(bd, Tx, BlkHeight)),
           DOMAIN vUndos \subseteq Int,
           \A i, j \in DOMAIN vUndos : vUndos[i].id = vUndos[j].id => i = j,
           \A i \in DOMAIN vUndos : vUndos[i].kind = Kind(ed) /\ vUndos[i].event = cache[ed][vUndos[i].id],
           \A e \in DOMAIN cache[ed] : c[ed][e] = cache[ed][e] \/ \E i \in DOMAIN vUndos : vUndos[i].id = e
    PROVE  /\ Trace(Tx, BlkHeight, cache, cache', cache'.undos)
           /\ cache'.payoutsInfo = cache.payoutsInfo
           /\ \A d \in Dbs : cache'[d] = c[d]
           /\ \A d \in Dbs : d = ed \/ d = bd \/ cache'[d] = cache[d]
<1>1. /\ ed \in Dbs \ SetDbs /\ bd \in Dbs \ SetDbs /\ ed # bd /\ bd \notin EventDbs
      /\ EventDbs \subseteq Dbs \ SetDbs
  BY DEF EventDbs, Dbs, BetDbs, SetDbs
<1>2. c.undos = cache.undos /\ c.payoutsInfo = cache.payoutsInfo
  BY <1>1, DbsOfView
<1>3. \A d \in Dbs : IsDb(d, c[d]) /\ Dom(d, cache[d]) \subseteq Dom(d, c[d])
  BY <1>1, DbsOfView DEF AllDbs, Dom
<1>4. ASSUME NEW d \in EventDbs PROVE RestoreEvents(c[d], vUndos, Kind(d)) = cache[d]
  <2>0. cache[d] = [k \in DOMAIN cache[d] |-> cache[d][k]]
    BY <1>1 DEF AllDbs, IsDb
  <2>1. CASE d = ed
    BY <2>0, <2>1, RestoreSaved
  <2>2. CASE d # ed
    <3>1. c[d] = cache[d] /\ Kind(d) # Kind(ed)
      BY <1>1, <2>2, DbsOfView DEF EventDbs, Kind
    <3> QED BY <2>0, <3>1, RestoreNothing
  <2> QED BY <2>1, <2>2
<1>5. \A d \in Dbs \ EventDbs :
           Without(d, c[d], Keys(d, Tx, BlkHeight)) = Without(d, cache[d], Keys(d, Tx, BlkHeight))
  BY DbsOfView
<1>6. /\ Trace(Tx, BlkHeight, cache, cache', cache'.undos)
      /\ cache'.payoutsInfo = cache.payoutsInfo
      /\ \A d \in Dbs : cache'[d] = c[d]
  BY <1>2, <1>3, <1>4, <1>5, TraceOfRecord
<1> QED BY <1>6, DbsOfView

\* The event that a bet leaves: counted and with its liability (ProcessBettingTx).
PlBetEvent ==
    LET leg == First(Tx).legs[1]
    IN  CountBet(AddLiability(cache.events[leg.event], leg.outcome, First(Tx).amount,
                              PotentialPayout(First(Tx).amount, view.events[leg.event].info.odds[leg.outcome])),
                 leg.outcome)

\* A bet on a peerless event.
LEMMA PlBetTrace ==
    ASSUME Ordinary, TypeOK, UInv, AllDbs(cache), ProcessPlBet
    PROVE  LET e == First(Tx).legs[1].event IN
           /\ Trace(Tx, BlkHeight, cache, cache', cache'.undos)
           /\ cache'.payoutsInfo = cache.payoutsInfo
           /\ \A d \in Dbs : d = "events" \/ d = "bets" \/ cache'[d] = cache[d]
           /\ cache'.bets = DbWrite(cache.bets, <<BlkHeight, Tx.id, 1>>,
                                NewBet(First(Tx).amount, First(Tx).legs, <<view.events[e].info>>))
           /\ cache'.events = DbUpdate(cache.events, e, PlBetEvent)
<1> DEFINE e == First(Tx).legs[1].event
           key == <<BlkHeight, Tx.id, 1>>
           bet == NewBet(First(Tx).amount, First(Tx).legs, <<view.events[e].info>>)
           c == [cache EXCEPT !.events = DbUpdate(@, e, PlBetEvent), !.bets = DbWrite(@, key, bet)]
           vUndos == <<PeerlessUndo(e, cache.events[e])>>
<1>1. Processing("plBet")
  BY DEF ProcessPlBet
<1>2. /\ mode = "connect" /\ AtOutput /\ First(Tx).type = "plBet" /\ Out = First(Tx) /\ Tx \in Txs
      /\ UndoKey = <<Tx.id, 1>> /\ BetKey = key /\ IsView(cache)
  BY <1>1, AtConnecting
<1>3. Saves(Tx) /\ NamesEvent(Tx, e)
  BY <1>2 DEF Saves, HasType, RecordTypes, NamesEvent, OnLegs, Ordinary
<1>4. e \in DOMAIN view.events \cap DOMAIN cache.events
  BY <1>1, <1>3, AtConnecting
<1>5. AdvanceWithUndo(c, vUndos)
  BY <1>2, <1>4 DEF ProcessPlBet, PlBetEvent, LockedEvent
<1>6. mode' # "failed"
  BY PeerlessConnects, ConnectingGoesOn
<1>7. /\ IsView(c)
      /\ c.events = DbUpdate(cache.events, e, PlBetEvent) /\ c.bets = DbWrite(cache.bets, key, bet)
      /\ \A d \in Databases : d = "events" \/ d = "bets" \/ c[d] = cache[d]
  <2> HIDE DEF bet
  <2> QED BY <1>2 DEF IsView, Databases
<1> HIDE DEF c, bet
<1>8. /\ DOMAIN c.events = DOMAIN cache.events /\ IsDb("events", c.events)
      /\ \A x \in DOMAIN cache.events : x # e => c.events[x] = cache.events[x]
  BY <1>4, <1>7 DEF DbUpdate, Put, IsDb
<1>9. key \in Keys("bets", Tx, BlkHeight)
  BY <1>2, <1>3 DEF Keys, Key, Makes, HasType, Dbs, BetDbs
<1>10. /\ IsDb("bets", c.bets) /\ DOMAIN cache.bets \subseteq DOMAIN c.bets
       /\ Without("bets", c.bets, Keys("bets", Tx, BlkHeight)) = Without("bets", cache.bets, Keys("bets", Tx, BlkHeight))
  <2>1. IsDb("bets", cache.bets) /\ "bets" \notin SetDbs
    BY DEF SetDbs, AllDbs, Dbs, BetDbs
  <2> QED BY <1>7, <1>9, <2>1, WrittenDb
<1>11. /\ DOMAIN vUndos = {1} /\ vUndos[1].kind = "peerless" /\ vUndos[1].id = e
       /\ vUndos[1].event = cache.events[e]
  BY DEF PeerlessUndo
<1> HIDE DEF vUndos
<1>12. /\ "events" \in EventDbs /\ Kind("events") = "peerless"
       /\ DOMAIN vUndos \subseteq Int
       /\ \A i, j \in DOMAIN vUndos : vUndos[i].id = vUndos[j].id => i = j
       /\ \A i \in DOMAIN vUndos : vUndos[i].kind = Kind("events") /\ vUndos[i].event = cache.events[vUndos[i].id]
       /\ \A x \in DOMAIN cache.events : c.events[x] = cache.events[x] \/ \E i \in DOMAIN vUndos : vUndos[i].id = x
  BY <1>8, <1>11 DEF EventDbs, Kind
<1>13. /\ Trace(Tx, BlkHeight, cache, cache', cache'.undos)
       /\ cache'.payoutsInfo = cache.payoutsInfo
       /\ \A d \in Dbs : cache'[d] = c[d]
       /\ \A d \in Dbs : d = "events" \/ d = "bets" \/ cache'[d] = cache[d]
  BY <1>2, <1>3, <1>5, <1>6, <1>7, <1>8, <1>9, <1>10, <1>11, <1>12, EventsTrace
<1>14. {"events", "bets"} \subseteq Dbs
  BY DEF Dbs, BetDbs
<1> QED BY <1>7, <1>13, <1>14 DEF bet

\* With every leg known a parlay counts them all and saves each event as it was.
LEMMA ParlayLegs ==
    ASSUME NEW legs, IsSeq(legs),
           \A i \in DOMAIN legs : legs[i].event \in DOMAIN view.events /\ legs[i].event \in DOMAIN cache.events,
           \A i, j \in DOMAIN legs : i # j => legs[i].event # legs[j].event
    PROVE  /\ CountLegs(legs).events = [e \in DOMAIN cache.events |-> WithLegs(e, legs, Len(legs))]
           /\ CountLegs(legs).undos = [i \in DOMAIN legs |->
                   PeerlessUndo(legs[i].event, cache.events[legs[i].event])]
           /\ CountLegs(legs).locked = [i \in DOMAIN legs |-> view.events[legs[i].event].info]
<1> DEFINE P == {i \in DOMAIN legs : legs[i].event \in DOMAIN view.events \cap DOMAIN cache.events}
<1>1. P = DOMAIN legs
  OBVIOUS
<1>2. At(legs, P) = legs /\ Len(legs) \in Nat /\ DOMAIN legs = 1 .. Len(legs)
  BY <1>1, AllOfSeq
<1>3. ASSUME NEW i \in DOMAIN legs
      PROVE  WithLegs(legs[i].event, legs, i - 1) = cache.events[legs[i].event]
  <2>1. \A j \in 1 .. i - 1 : legs[j].event # legs[i].event
    BY <1>2
  <2> QED BY <2>1 DEF WithLegs
<1>4. /\ CountLegs(legs).events = [e \in DOMAIN cache.events |-> WithLegs(e, legs, Len(legs))]
      /\ CountLegs(legs).undos = [i \in DOMAIN legs |->
             PeerlessUndo(legs[i].event, WithLegs(legs[i].event, legs, i - 1))]
      /\ CountLegs(legs).locked = [i \in DOMAIN legs |-> LockedEvent(legs[i].event)]
  BY <1>2, Zenon DEF CountLegs
<1> QED BY <1>3, <1>4 DEF LockedEvent

\* A parlay on peerless events.
LEMMA PlParlayTrace ==
    ASSUME Ordinary, Lists, TypeOK, UInv, AllDbs(cache), ProcessPlParlayBet, First(Tx).legs # <<>>
    PROVE  LET legs == First(Tx).legs IN
           /\ Trace(Tx, BlkHeight, cache, cache', cache'.undos)
           /\ cache'.payoutsInfo = cache.payoutsInfo
           /\ \A d \in Dbs : d = "events" \/ d = "bets" \/ cache'[d] = cache[d]
           /\ cache'.bets = DbWrite(cache.bets, <<BlkHeight, Tx.id, 1>>,
                  NewBet(First(Tx).amount, legs, [i \in DOMAIN legs |-> view.events[legs[i].event].info]))
           /\ cache'.events = [e \in DOMAIN cache.events |-> WithLegs(e, legs, Len(legs))]
<1> DEFINE legs == First(Tx).legs
           key == <<BlkHeight, Tx.id, 1>>
           bet == NewBet(First(Tx).amount, legs, [i \in DOMAIN legs |-> view.events[legs[i].event].info])
           events == [e \in DOMAIN cache.events |-> WithLegs(e, legs, Len(legs))]
           c == [cache EXCEPT !.events = events, !.bets = DbWrite(@, key, bet)]
           vUndos == [i \in DOMAIN legs |-> PeerlessUndo(legs[i].event, cache.events[legs[i].event])]
<1>1. Processing("plParlayBet")
  BY DEF ProcessPlParlayBet
<1>2. /\ mode = "connect" /\ AtOutput /\ First(Tx).type = "plParlayBet" /\ Out = First(Tx) /\ Tx \in Txs
      /\ UndoKey = <<Tx.id, 1>> /\ BetKey = key /\ IsView(cache) /\ CheckBettingTx(Tx)
  BY <1>1, AtConnecting
<1>3. /\ Saves(Tx) /\ IsSeq(legs)
      /\ \A i \in DOMAIN legs : NamesEvent(Tx, legs[i].event)
  BY <1>2 DEF Saves, HasType, RecordTypes, NamesEvent, OnLegs, Lists
<1>4. /\ \A i \in DOMAIN legs : legs[i].event \in DOMAIN view.events /\ legs[i].event \in DOMAIN cache.events
      /\ \A i, j \in DOMAIN legs : i # j => legs[i].event # legs[j].event
  <2>1. CheckPlParlayBet(First(Tx))
    BY <1>2, CheckedOutput
  <2> QED BY <1>1, <1>3, <2>1, AtConnecting DEF CheckPlParlayBet
<1>5. AdvanceWithUndo(c, vUndos)
  <2>1. AdvanceWithUndo([cache EXCEPT !.events = CountLegs(legs).events,
                                !.bets   = DbWrite(@, BetKey,
                                              NewBet(First(Tx).amount, legs, CountLegs(legs).locked))],
                  CountLegs(legs).undos)
    BY <1>2 DEF ProcessPlParlayBet
  <2>2. /\ CountLegs(legs).events = events
        /\ CountLegs(legs).undos = vUndos
        /\ CountLegs(legs).locked = [i \in DOMAIN legs |-> view.events[legs[i].event].info]
    BY <1>3, <1>4, ParlayLegs
  <2> HIDE DEF events, vUndos, legs
  <2> QED BY <1>2, <2>1, <2>2 DEF bet
<1>6. mode' # "failed"
  BY PeerlessConnects, ConnectingGoesOn
<1>7. /\ IsView(c)
      /\ c.events = events /\ c.bets = DbWrite(cache.bets, key, bet)
      /\ \A d \in Databases : d = "events" \/ d = "bets" \/ c[d] = cache[d]
  <2> HIDE DEF bet, events
  <2> QED BY <1>2 DEF IsView, Databases
<1>8. /\ DOMAIN c.events = DOMAIN cache.events /\ IsDb("events", c.events)
  BY <1>7 DEF IsDb
<1>h. \A x \in DOMAIN cache.events : c.events[x] = cache.events[x] \/ \E i \in DOMAIN legs : legs[i].event = x
  <2>1. Len(legs) \in Nat /\ DOMAIN legs = 1 .. Len(legs)
    BY <1>3, AllOfSeq
  <2>2. \A x \in DOMAIN cache.events : c.events[x] = WithLegs(x, legs, Len(legs))
    BY <1>7
  <2> HIDE DEF c, legs
  <2> QED BY <2>1, <2>2 DEF WithLegs
<1> HIDE DEF c, bet
<1>9. key \in Keys("bets", Tx, BlkHeight)
  BY <1>2, <1>3 DEF Keys, Key, Makes, HasType, Dbs, BetDbs
<1>10. /\ IsDb("bets", c.bets) /\ DOMAIN cache.bets \subseteq DOMAIN c.bets
       /\ Without("bets", c.bets, Keys("bets", Tx, BlkHeight)) = Without("bets", cache.bets, Keys("bets", Tx, BlkHeight))
  <2>1. IsDb("bets", cache.bets) /\ "bets" \notin SetDbs
    BY DEF SetDbs, AllDbs, Dbs, BetDbs
  <2> QED BY <1>7, <1>9, <2>1, WrittenDb
<1>11. /\ DOMAIN vUndos = DOMAIN legs
       /\ \A i \in DOMAIN legs : /\ vUndos[i].kind = "peerless" /\ vUndos[i].id = legs[i].event
                                 /\ vUndos[i].event = cache.events[legs[i].event]
  BY DEF PeerlessUndo
<1>l. DOMAIN legs \subseteq Int
  BY <1>3, AllOfSeq
<1> HIDE DEF vUndos, legs, events
<1>12. /\ "events" \in EventDbs /\ Kind("events") = "peerless"
       /\ DOMAIN vUndos \subseteq Int
       /\ \A i, j \in DOMAIN vUndos : vUndos[i].id = vUndos[j].id => i = j
       /\ \A i \in DOMAIN vUndos : vUndos[i].kind = Kind("events") /\ vUndos[i].event = cache.events[vUndos[i].id]
       /\ \A x \in DOMAIN cache.events : c.events[x] = cache.events[x] \/ \E i \in DOMAIN vUndos : vUndos[i].id = x
  BY <1>4, <1>h, <1>l, <1>11 DEF EventDbs, Kind
<1>13. /\ Trace(Tx, BlkHeight, cache, cache', cache'.undos)
       /\ cache'.payoutsInfo = cache.payoutsInfo
       /\ \A d \in Dbs : cache'[d] = c[d]
       /\ \A d \in Dbs : d = "events" \/ d = "bets" \/ cache'[d] = cache[d]
  BY <1>2, <1>3, <1>5, <1>6, <1>7, <1>8, <1>10, <1>12, EventsTrace
<1>14. {"events", "bets"} \subseteq Dbs
  BY DEF Dbs, BetDbs
<1>15. cache'.bets = DbWrite(cache.bets, key, bet) /\ cache'.events = events
  BY <1>7, <1>13, <1>14, Zenon
<1> QED BY <1>13, <1>15, Zenon DEF bet, legs, events

\* Handlers that leave no record: they enter their key in one database, or
\* find that there is nothing to do.
LEMMA EntryWritten ==
    ASSUME NEW STATE db, NEW d, d \notin SetDbs, NEW k, NEW v, IsDb(d, db), k \in Keys(d, Tx, BlkHeight)
    PROVE  /\ IsDb(d, DbWrite(db, k, v)) /\ Dom(d, db) \subseteq Dom(d, DbWrite(db, k, v))
           /\ Without(d, DbWrite(db, k, v), Keys(d, Tx, BlkHeight)) = Without(d, db, Keys(d, Tx, BlkHeight))
<1>1. IsDb(d, DbWrite(db, k, v))
  BY WrittenDb
<1>2. Dom(d, db) \subseteq Dom(d, DbWrite(db, k, v))
  BY WrittenDb
<1>3. Without(d, DbWrite(db, k, v), Keys(d, Tx, BlkHeight)) = Without(d, db, Keys(d, Tx, BlkHeight))
  BY WrittenDb
<1> QED BY <1>1, <1>2, <1>3

\* An entry in a database that is a function.
LEMMA EntryTrace ==
    ASSUME IsView(cache), AllDbs(cache), ~Saves(Tx), NEW d \in Dbs, d \notin SetDbs, NEW k, NEW v,
           k \in Keys(d, Tx, BlkHeight),
           cache' = [cache EXCEPT ![d] = DbWrite(cache[d], k, v)]
    PROVE  /\ Trace(Tx, BlkHeight, cache, cache', cache'.undos)
           /\ cache'.payoutsInfo = cache.payoutsInfo /\ cache'.undos = cache.undos
           /\ cache'[d] = DbWrite(cache[d], k, v)
           /\ \A o \in Dbs : o = d \/ cache'[o] = cache[o]
<1> DEFINE x == DbWrite(cache[d], k, v)
           K == Keys(d, Tx, BlkHeight)
<1>2. IsDb(d, x) /\ Dom(d, cache[d]) \subseteq Dom(d, x) /\ Without(d, x, K) = Without(d, cache[d], K)
  BY EntryWritten DEF AllDbs
<1>3. cache'[d] = x /\ \A o \in Databases : o = d \/ cache'[o] = cache[o]
  <2> HIDE DEF x
  <2> QED BY DbsOfView, OneDb DEF x
<1> HIDE DEF x
<1> QED BY <1>2, <1>3, TraceOfEntry, DbsOfView DEF x, K

\* An entry in a database that is a set.
LEMMA MemberTrace ==
    ASSUME IsView(cache), AllDbs(cache), ~Saves(Tx), NEW d \in SetDbs, NEW k,
           k \in Keys(d, Tx, BlkHeight),
           cache' = [cache EXCEPT ![d] = cache[d] \cup {k}]
    PROVE  /\ Trace(Tx, BlkHeight, cache, cache', cache'.undos)
           /\ cache'.payoutsInfo = cache.payoutsInfo /\ cache'.undos = cache.undos
           /\ cache'[d] = cache[d] \cup {k}
           /\ \A o \in Dbs : o = d \/ cache'[o] = cache[o]
<1> DEFINE x == cache[d] \cup {k}
           K == Keys(d, Tx, BlkHeight)
<1>1. d \in Dbs
  BY DEF SetDbs, Dbs
<1>2. IsDb(d, x) /\ Dom(d, cache[d]) \subseteq Dom(d, x) /\ Without(d, x, K) = Without(d, cache[d], K)
  BY DEF IsDb, Dom, Without
<1>3. cache'[d] = x /\ \A o \in Databases : o = d \/ cache'[o] = cache[o]
  <2> HIDE DEF x
  <2> QED BY <1>1, DbsOfView, OneDb DEF x
<1> HIDE DEF x
<1> QED BY <1>1, <1>2, <1>3, TraceOfEntry, DbsOfView DEF x

\* No entry, as when the key is taken.
LEMMA NothingTrace ==
    ASSUME AllDbs(cache), ~Saves(Tx), cache' = cache
    PROVE  /\ Trace(Tx, BlkHeight, cache, cache', cache'.undos)
           /\ cache'.payoutsInfo = cache.payoutsInfo /\ cache'.undos = cache.undos
           /\ \A o \in Dbs : cache'[o] = cache[o]
BY TraceOfNothing

\* What connecting an output does to the databases; d is the one it may have
\* entered something in.
Came(d) ==
    /\ Trace(Tx, BlkHeight, cache, cache', cache'.undos)
    /\ cache'.payoutsInfo = cache.payoutsInfo
    /\ \A o \in Dbs : o = d \/ cache'[o] = cache[o]

\* A mapping.
LEMMA MappingTrace ==
    ASSUME Ordinary, TypeOK, UInv, AllDbs(cache), ProcessMapping
    PROVE  Came("mappings")
<1>1. Processing("mapping")
  BY DEF ProcessMapping
<1>2. /\ First(Tx).type = "mapping" /\ Out = First(Tx) /\ IsView(cache)
  BY <1>1, AtConnecting
<1>3. ~Saves(Tx)
  BY <1>2 DEF Saves, HasType, RecordTypes, PlUpdates, FieldUpdates
<1>4. "mappings" \in SetDbs /\ First(Tx).key \in Keys("mappings", Tx, BlkHeight)
  BY <1>2 DEF SetDbs, Keys, Key, Makes, HasType, Dbs, BetDbs
<1>5. cache' = cache \/ cache' = [cache EXCEPT !["mappings"] = cache["mappings"] \cup {First(Tx).key}]
  BY <1>2 DEF ProcessMapping, Advance
<1> QED BY <1>2, <1>3, <1>4, <1>5, NothingTrace, MemberTrace DEF Came

\* A new peerless event.
LEMMA PlEventTrace ==
    ASSUME Ordinary, TypeOK, UInv, AllDbs(cache), ProcessPlEvent
    PROVE  /\ Came("events")
           /\ cache'.events = DbWrite(cache.events, First(Tx).event,
                                  [info |-> First(Tx).info, bets |-> Zero, liability |-> Zero])
           /\ First(Tx).type = "plEvent"
<1> DEFINE v == [info |-> First(Tx).info, bets |-> Zero, liability |-> Zero]
<1>1. Processing("plEvent")
  BY DEF ProcessPlEvent
<1>2. /\ First(Tx).type = "plEvent" /\ Out = First(Tx) /\ IsView(cache)
  BY <1>1, AtConnecting
<1>3. ~Saves(Tx)
  BY <1>2 DEF Saves, HasType, RecordTypes, PlUpdates, FieldUpdates
<1>4. "events" \in Dbs /\ "events" \notin SetDbs /\ First(Tx).event \in Keys("events", Tx, BlkHeight)
  BY <1>2 DEF SetDbs, Keys, Key, Makes, HasType, Dbs, BetDbs
<1>5. cache' = [cache EXCEPT !["events"] = DbWrite(cache["events"], First(Tx).event, v)]
  BY <1>2 DEF ProcessPlEvent, Advance
<1> HIDE DEF v
<1>6. Came("events") /\ cache'["events"] = DbWrite(cache["events"], First(Tx).event, v)
  BY <1>2, <1>3, <1>4, <1>5, EntryTrace DEF Came
<1> QED BY <1>2, <1>6 DEF v

\* A result of a peerless event.
LEMMA PlResultTrace ==
    ASSUME Ordinary, TypeOK, UInv, AllDbs(cache), ProcessPlResult
    PROVE  /\ Came("results") /\ First(Tx).type = "plResult"
           /\ \/ /\ cache' = cache /\ blk' = blk
                 /\ First(Tx).event \notin DOMAIN cache.events \/ First(Tx).event \in DOMAIN cache.results
              \/ /\ First(Tx).event \in DOMAIN cache.events /\ First(Tx).event \notin DOMAIN cache.results
                 /\ cache'.results = DbWrite(cache.results, First(Tx).event, First(Tx).result)
                 /\ blk'.vResultIDs = Append(blk.vResultIDs, First(Tx).event)
<1>1. Processing("plResult")
  BY DEF ProcessPlResult
<1>2. /\ First(Tx).type = "plResult" /\ Out = First(Tx) /\ IsView(cache)
  BY <1>1, AtConnecting
<1>3. ~Saves(Tx)
  BY <1>2 DEF Saves, HasType, RecordTypes, PlUpdates, FieldUpdates
<1>4. "results" \in Dbs /\ "results" \notin SetDbs /\ First(Tx).event \in Keys("results", Tx, BlkHeight)
  BY <1>2 DEF SetDbs, Keys, Key, Makes, HasType, Dbs, BetDbs
<1>5. CASE First(Tx).event \in DOMAIN cache.events /\ First(Tx).event \notin DOMAIN cache.results
  <2>1. /\ cache' = [cache EXCEPT !["results"] = DbWrite(cache["results"], First(Tx).event, First(Tx).result)]
        /\ blk' = [blk EXCEPT !.vResultIDs = Append(@, First(Tx).event)]
    BY <1>2, <1>5 DEF ProcessPlResult, AdvanceWithResult
  <2>2. blk'.vResultIDs = Append(blk.vResultIDs, First(Tx).event)
    BY <2>1 DEF TypeOK
  <2> DEFINE v == First(Tx).result
             e == First(Tx).event
  <2>3. e \in Keys("results", Tx, BlkHeight) /\ cache' = [cache EXCEPT !["results"] = DbWrite(cache["results"], e, v)]
    BY <1>4, <2>1
  <2> HIDE DEF v, e
  <2>4. Came("results") /\ cache'["results"] = DbWrite(cache["results"], e, v)
    BY <1>2, <1>3, <1>4, <2>3, EntryTrace DEF Came
  <2> QED BY <1>2, <1>5, <2>2, <2>4 DEF e, v
<1>6. CASE ~(First(Tx).event \in DOMAIN cache.events /\ First(Tx).event \notin DOMAIN cache.results)
  <2>1. cache' = cache /\ blk' = blk
    BY <1>2, <1>6 DEF ProcessPlResult, Advance
  <2> QED BY <1>2, <1>3, <1>6, <2>1, NothingTrace DEF Came
<1> QED BY <1>5, <1>6

\* The updates of one event.
LEMMA UpdateTrace ==
    ASSUME Ordinary, TypeOK, AllDbs(cache), mode = "connect", AtOutput, mode' # "failed", Saves(Tx),
           NEW ed \in EventDbs, NEW e,
           NEW c, IsView(c), NEW vUndos, AdvanceWithUndo(c, vUndos),
           \A d \in Databases : d = ed \/ c[d] = cache[d],
           IsDb(ed, c[ed]), DOMAIN c[ed] = DOMAIN cache[ed],
           \A x \in DOMAIN cache[ed] : x # e => c[ed][x] = cache[ed][x],
           DOMAIN vUndos = {1}, vUndos[1].kind = Kind(ed), vUndos[1].id = e,
           vUndos[1].event = cache[ed][e]
    PROVE  Came(ed) /\ cache'[ed] = c[ed]
<1>1. /\ DOMAIN vUndos \subseteq Int
      /\ \A i, j \in DOMAIN vUndos : vUndos[i].id = vUndos[j].id => i = j
      /\ \A i \in DOMAIN vUndos : vUndos[i].kind = Kind(ed) /\ vUndos[i].event = cache[ed][vUndos[i].id]
      /\ \A x \in DOMAIN cache[ed] : c[ed][x] = cache[ed][x] \/ \E i \in DOMAIN vUndos : vUndos[i].id = x
  OBVIOUS
<1>2. /\ c["bets"] = cache["bets"] /\ IsDb("bets", c["bets"])
      /\ "bets" \in {"bets", "fieldBets"} /\ ed \in Dbs
  BY DEF AllDbs, Dbs, BetDbs, EventDbs, Databases
<1>3. \A d \in Databases : d = ed \/ d = "bets" \/ c[d] = cache[d]
  OBVIOUS
<1>4. /\ DOMAIN cache["bets"] \subseteq DOMAIN c["bets"]
      /\ Without("bets", c["bets"], Keys("bets", Tx, BlkHeight)) =
             Without("bets", cache["bets"], Keys("bets", Tx, BlkHeight))
  BY <1>2
<1>5. /\ Trace(Tx, BlkHeight, cache, cache', cache'.undos)
      /\ cache'.payoutsInfo = cache.payoutsInfo
      /\ \A d \in Dbs : cache'[d] = c[d]
      /\ \A d \in Dbs : d = ed \/ d = "bets" \/ cache'[d] = cache[d]
  BY <1>1, <1>2, <1>3, <1>4, EventsTrace
<1> QED BY <1>2, <1>5 DEF Came

\* New odds, spreads or totals of a peerless event.
LEMMA PlUpdateTrace ==
    ASSUME Ordinary, TypeOK, UInv, AllDbs(cache), NEW type \in PlUpdates, ProcessPlUpdate(type)
    PROVE  /\ Came("events") /\ HasType(Tx, PlUpdates) /\ First(Tx).event \in DOMAIN cache.events
           /\ cache'.events = [cache.events EXCEPT ![First(Tx).event].info = ExtractDataFromTx(@, First(Tx))]
<1> DEFINE e == First(Tx).event
           events == [cache.events EXCEPT ![e].info = ExtractDataFromTx(@, First(Tx))]
           c == [cache EXCEPT !.events = events]
           vUndos == <<PeerlessUndo(e, cache.events[e])>>
<1>1. Processing(type)
  BY DEF ProcessPlUpdate
<1>2. /\ mode = "connect" /\ AtOutput /\ First(Tx).type = type /\ Out = First(Tx) /\ Tx \in Txs
      /\ UndoKey = <<Tx.id, 1>> /\ IsView(cache)
  BY <1>1, AtConnecting
<1>3. Saves(Tx) /\ NamesEvent(Tx, e) /\ HasType(Tx, PlUpdates)
  BY <1>2 DEF Saves, HasType, RecordTypes, NamesEvent, PlUpdates
<1>4. e \in DOMAIN cache.events
  BY <1>1, <1>3, AtConnecting
<1>5. AdvanceWithUndo(c, vUndos)
  <2>1. c = [cache EXCEPT !.events[Out.event].info = ExtractDataFromTx(@, Out)]
    BY <1>2
  <2> QED BY <1>2, <1>4, <2>1 DEF ProcessPlUpdate
<1>6. mode' # "failed"
  BY PeerlessConnects, ConnectingGoesOn
<1>7. IsView(c) /\ c.events = events /\ \A d \in Databases : d = "events" \/ c[d] = cache[d]
  <2> HIDE DEF events
  <2> QED BY <1>2 DEF IsView, Databases
<1>8. /\ IsDb("events", c["events"]) /\ DOMAIN c["events"] = DOMAIN cache["events"]
      /\ \A x \in DOMAIN cache["events"] : x # e => c["events"][x] = cache["events"][x]
  <2> HIDE DEF c
  <2>1. cache.events = [k \in DOMAIN cache.events |-> cache.events[k]]
    BY DEF AllDbs, IsDb, Dbs, BetDbs, SetDbs
  <2>2. DOMAIN events = DOMAIN cache.events /\ events = [k \in DOMAIN events |-> events[k]]
    BY <2>1
  <2>3. \A x \in DOMAIN cache.events : x # e => events[x] = cache.events[x]
    OBVIOUS
  <2> HIDE DEF events
  <2> QED BY <1>7, <2>2, <2>3 DEF IsDb
<1>9. DOMAIN vUndos = {1} /\ vUndos[1].kind = Kind("events") /\ vUndos[1].id = e
        /\ vUndos[1].event = cache["events"][e] /\ "events" \in EventDbs
  BY DEF PeerlessUndo, Kind, EventDbs
<1> HIDE DEF c, vUndos, e, events
<1>10. Came("events") /\ cache'["events"] = c["events"]
  BY <1>2, <1>3, <1>5, <1>6, <1>7, <1>8, <1>9, UpdateTrace
<1> QED BY <1>3, <1>4, <1>7, <1>10 DEF events, e

\* New odds, modifiers or margin of a field event, and zeroing it.
LEMMA FUpdateTrace ==
    ASSUME Ordinary, TypeOK, UInv, AllDbs(cache), NEW type \in FieldUpdates, ProcessFUpdate(type)
    PROVE  /\ Came("fieldEvents") /\ HasType(Tx, FieldUpdates) /\ First(Tx).event \in DOMAIN cache.fieldEvents
           /\ cache'.fieldEvents = [cache.fieldEvents EXCEPT ![First(Tx).event] = UpdatedField(@, First(Tx))]
<1> DEFINE e == First(Tx).event
           events == [cache.fieldEvents EXCEPT ![e] = UpdatedField(@, First(Tx))]
           c == [cache EXCEPT !.fieldEvents = events]
           vUndos == <<FieldUndo(e, cache.fieldEvents[e])>>
<1>1. Processing(type)
  BY DEF ProcessFUpdate
<1>2. /\ mode = "connect" /\ AtOutput /\ First(Tx).type = type /\ Out = First(Tx) /\ Tx \in Txs
      /\ UndoKey = <<Tx.id, 1>> /\ IsView(cache)
  BY <1>1, AtConnecting
<1>3. Saves(Tx) /\ NamesFieldEvent(Tx, e) /\ HasType(Tx, FieldUpdates)
  BY <1>2 DEF Saves, HasType, RecordTypes, NamesFieldEvent, FieldUpdates
<1>4. e \in DOMAIN cache.fieldEvents
  BY <1>1, <1>3, AtConnecting
<1>v. TipHeight >= V4Start
  <2>1. HasType(Tx, V4Types) /\ Allowed(Tx, BlkHeight) /\ BlkHeight = TipHeight + 1 /\ TipHeight \in Nat
    BY <1>1, <1>2, AtChecked DEF HasType, V4Types
  <2> QED BY <2>1, HeightsAssumption DEF Allowed
<1>5. AdvanceWithUndo(c, vUndos)
  <2>1. c = [cache EXCEPT !.fieldEvents[Out.event] = UpdatedField(@, Out)]
    BY <1>2
  <2> QED BY <1>2, <1>4, <1>v, <2>1 DEF ProcessFUpdate
<1>6. mode' # "failed"
  BY FieldConnects, ConnectingGoesOn
<1>7. IsView(c) /\ c.fieldEvents = events /\ \A d \in Databases : d = "fieldEvents" \/ c[d] = cache[d]
  <2> HIDE DEF events
  <2> QED BY <1>2 DEF IsView, Databases
<1>8. /\ IsDb("fieldEvents", c["fieldEvents"]) /\ DOMAIN c["fieldEvents"] = DOMAIN cache["fieldEvents"]
      /\ \A x \in DOMAIN cache["fieldEvents"] : x # e => c["fieldEvents"][x] = cache["fieldEvents"][x]
  <2> HIDE DEF c
  <2>1. cache.fieldEvents = [k \in DOMAIN cache.fieldEvents |-> cache.fieldEvents[k]]
    BY DEF AllDbs, IsDb, Dbs, BetDbs, SetDbs
  <2>2. DOMAIN events = DOMAIN cache.fieldEvents /\ events = [k \in DOMAIN events |-> events[k]]
    BY <2>1
  <2>3. \A x \in DOMAIN cache.fieldEvents : x # e => events[x] = cache.fieldEvents[x]
    OBVIOUS
  <2> HIDE DEF events
  <2> QED BY <1>7, <2>2, <2>3 DEF IsDb
<1>9. DOMAIN vUndos = {1} /\ vUndos[1].kind = Kind("fieldEvents") /\ vUndos[1].id = e
        /\ vUndos[1].event = cache["fieldEvents"][e] /\ "fieldEvents" \in EventDbs
  BY DEF FieldUndo, Kind, EventDbs
<1> HIDE DEF c, vUndos, e, events
<1>10. Came("fieldEvents") /\ cache'["fieldEvents"] = c["fieldEvents"]
  BY <1>2, <1>3, <1>5, <1>6, <1>7, <1>8, <1>9, UpdateTrace
<1> QED BY <1>3, <1>4, <1>7, <1>10 DEF e, events

\* Transactions of version 4 are not checked before V4Start.
LEMMA SinceV4 ==
    ASSUME Ordinary, TypeOK, UInv, NEW type \in V4Types, Processing(type)
    PROVE  TipHeight >= V4Start /\ ~(TipHeight < V4Start)
<1>1. HasType(Tx, V4Types) /\ Allowed(Tx, BlkHeight) /\ BlkHeight = TipHeight + 1 /\ TipHeight \in Nat
  BY AtConnecting, AtChecked DEF HasType
<1> QED BY <1>1, HeightsAssumption DEF Allowed

\* Zeroing saves each listed event as it was.
LEMMA ZeroesAll ==
    ASSUME NEW ids, IsSeq(ids), \A i \in DOMAIN ids : ids[i] \in DOMAIN cache.events,
           \A i, j \in DOMAIN ids : ids[i] = ids[j] => i = j
    PROVE  /\ ZeroEvents(ids).events = [e \in DOMAIN cache.events |-> WithZeroes(e, ids, Len(ids))]
           /\ ZeroEvents(ids).undos = [i \in DOMAIN ids |-> PeerlessUndo(ids[i], cache.events[ids[i]])]
<1> DEFINE P == {i \in DOMAIN ids : ids[i] \in DOMAIN cache.events}
<1>1. P = DOMAIN ids
  OBVIOUS
<1>2. At(ids, P) = ids /\ Len(ids) \in Nat /\ DOMAIN ids = 1 .. Len(ids)
  BY <1>1, AllOfSeq
<1>3. ASSUME NEW i \in DOMAIN ids
      PROVE  WithZeroes(ids[i], ids, i - 1) = cache.events[ids[i]]
  <2>1. ~\E j \in 1 .. i - 1 : ids[j] = ids[i]
    BY <1>2
  <2> QED BY <2>1 DEF WithZeroes
<1>4. /\ ZeroEvents(ids).events = [e \in DOMAIN cache.events |-> WithZeroes(e, ids, Len(ids))]
      /\ ZeroEvents(ids).undos = [i \in DOMAIN ids |-> PeerlessUndo(ids[i], WithZeroes(ids[i], ids, i - 1))]
  BY <1>2, Zenon DEF ZeroEvents
<1> QED BY <1>3, <1>4

\* Zeroing the odds of peerless events.
LEMMA PlZeroingTrace ==
    ASSUME Ordinary, Lists, TypeOK, UInv, AllDbs(cache), ProcessPlZeroing
    PROVE  /\ Came("events") /\ First(Tx).type = "plZeroing"
           /\ cache'.events = [e \in DOMAIN cache.events |-> WithZeroes(e, First(Tx).events, Len(First(Tx).events))]
<1> DEFINE ids == First(Tx).events
           events == [e \in DOMAIN cache.events |-> WithZeroes(e, ids, Len(ids))]
           c == [cache EXCEPT !.events = events]
           vUndos == [i \in DOMAIN ids |-> PeerlessUndo(ids[i], cache.events[ids[i]])]
<1>1. Processing("plZeroing") /\ "plZeroing" \in V4Types
  BY DEF ProcessPlZeroing, V4Types
<1>2. /\ mode = "connect" /\ AtOutput /\ First(Tx).type = "plZeroing" /\ Out = First(Tx) /\ Tx \in Txs
      /\ UndoKey = <<Tx.id, 1>> /\ IsView(cache)
  BY <1>1, AtConnecting
<1>3. /\ Saves(Tx) /\ IsSeq(ids) /\ DOMAIN ids # {}
      /\ \A i \in DOMAIN ids : NamesEvent(Tx, ids[i])
      /\ \A i, j \in DOMAIN ids : ids[i] = ids[j] => i = j
  BY <1>2 DEF Saves, HasType, RecordTypes, NamesEvent, Lists, Ordinary
<1>4. \A i \in DOMAIN ids : ids[i] \in DOMAIN cache.events
  BY <1>1, <1>3, AtConnecting
<1>5. AdvanceWithUndo(c, vUndos)
  <2>1. AdvanceWithUndo([cache EXCEPT !.events = ZeroEvents(ids).events], ZeroEvents(ids).undos)
    BY <1>1, <1>2, <1>3, <1>4, SinceV4 DEF ProcessPlZeroing
  <2>2. ZeroEvents(ids).events = events /\ ZeroEvents(ids).undos = vUndos
    BY <1>3, <1>4, ZeroesAll
  <2> HIDE DEF events, vUndos, ids
  <2> QED BY <2>1, <2>2
<1>6. mode' # "failed"
  BY PeerlessConnects, ConnectingGoesOn
<1>7. IsView(c) /\ c.events = events /\ \A d \in Databases : d = "events" \/ c[d] = cache[d]
  <2> HIDE DEF events
  <2> QED BY <1>2 DEF IsView, Databases
<1>8. /\ DOMAIN c.events = DOMAIN cache.events /\ IsDb("events", c.events)
  BY <1>7 DEF IsDb
<1>l. Len(ids) \in Nat /\ DOMAIN ids = 1 .. Len(ids)
  BY <1>3, AllOfSeq
<1>h. \A x \in DOMAIN cache.events : c.events[x] = cache.events[x] \/ \E i \in DOMAIN ids : ids[i] = x
  <2>2. \A x \in DOMAIN cache.events : c.events[x] = WithZeroes(x, ids, Len(ids))
    BY <1>7
  <2> HIDE DEF c, ids
  <2> QED BY <1>l, <2>2 DEF WithZeroes
<1> HIDE DEF c
<1>11. /\ DOMAIN vUndos = DOMAIN ids
       /\ \A i \in DOMAIN ids : /\ vUndos[i].kind = "peerless" /\ vUndos[i].id = ids[i]
                                /\ vUndos[i].event = cache.events[ids[i]]
  BY DEF PeerlessUndo
<1> HIDE DEF vUndos, ids, events
<1>12. /\ "events" \in EventDbs /\ Kind("events") = "peerless"
       /\ DOMAIN vUndos \subseteq Int
       /\ \A i, j \in DOMAIN vUndos : vUndos[i].id = vUndos[j].id => i = j
       /\ \A i \in DOMAIN vUndos : vUndos[i].kind = Kind("events") /\ vUndos[i].event = cache.events[vUndos[i].id]
       /\ \A x \in DOMAIN cache.events : c.events[x] = cache.events[x] \/ \E i \in DOMAIN vUndos : vUndos[i].id = x
  BY <1>3, <1>4, <1>h, <1>l, <1>11 DEF EventDbs, Kind
<1>13. /\ c["bets"] = cache["bets"] /\ IsDb("bets", c["bets"]) /\ DOMAIN cache["bets"] \subseteq DOMAIN c["bets"]
       /\ Without("bets", c["bets"], Keys("bets", Tx, BlkHeight)) =
              Without("bets", cache["bets"], Keys("bets", Tx, BlkHeight))
       /\ \A d \in Databases : d = "events" \/ d = "bets" \/ c[d] = cache[d]
  <2>1. c["bets"] = cache["bets"]
    BY <1>7 DEF Databases
  <2> QED BY <1>7, <2>1 DEF AllDbs, Dbs, BetDbs
<1>14. /\ Trace(Tx, BlkHeight, cache, cache', cache'.undos)
       /\ cache'.payoutsInfo = cache.payoutsInfo
       /\ \A d \in Dbs : cache'[d] = c[d]
       /\ \A d \in Dbs : d = "events" \/ d = "bets" \/ cache'[d] = cache[d]
  BY <1>2, <1>3, <1>5, <1>6, <1>7, <1>8, <1>12, <1>13, EventsTrace
<1>15. "events" \in Dbs /\ "bets" \in Dbs
  BY DEF Dbs, BetDbs
<1> QED BY <1>2, <1>7, <1>13, <1>14, <1>15 DEF Came, events, ids

\* The field event that a bet leaves.
FBetEvent ==
    LET leg  == First(Tx).legs[1]
        odds == CalculateEffectiveOdds(GetFieldBetPotentialOdds(leg, view.fieldEvents[leg.event]))
    IN  CountFieldBet(AddFieldLiability(cache.fieldEvents[leg.event], leg, Worth(First(Tx).amount, odds)), leg)

\* The event as the field bet records it.
FBetLocked ==
    LET leg == First(Tx).legs[1]
    IN  WithContender(view.fieldEvents[leg.event], leg.contender,
                      Contender(view.fieldEvents[leg.event], leg.contender))

\* A bet on a field event.
LEMMA FBetTrace ==
    ASSUME Ordinary, TypeOK, UInv, AllDbs(cache), ProcessFBet
    PROVE  LET e == First(Tx).legs[1].event IN
           /\ Trace(Tx, BlkHeight, cache, cache', cache'.undos)
           /\ cache'.payoutsInfo = cache.payoutsInfo
           /\ \A d \in Dbs : d = "fieldEvents" \/ d = "fieldBets" \/ cache'[d] = cache[d]
           /\ cache'.fieldBets = DbWrite(cache.fieldBets, <<BlkHeight, Tx.id, 1>>,
                                     NewBet(First(Tx).amount, First(Tx).legs, <<FBetLocked>>))
           /\ cache'.fieldEvents = DbUpdate(cache.fieldEvents, e, FBetEvent)
<1> DEFINE e == First(Tx).legs[1].event
           key == <<BlkHeight, Tx.id, 1>>
           bet == NewBet(First(Tx).amount, First(Tx).legs, <<FBetLocked>>)
           c == [cache EXCEPT !.fieldEvents = DbUpdate(@, e, FBetEvent), !.fieldBets = DbWrite(@, key, bet)]
           vUndos == <<FieldUndo(e, cache.fieldEvents[e])>>
<1>1. Processing("fBet") /\ "fBet" \in V4Types
  BY DEF ProcessFBet, V4Types
<1>2. /\ mode = "connect" /\ AtOutput /\ First(Tx).type = "fBet" /\ Out = First(Tx) /\ Tx \in Txs
      /\ UndoKey = <<Tx.id, 1>> /\ BetKey = key /\ IsView(cache)
  BY <1>1, AtConnecting
<1>3. Saves(Tx) /\ NamesFieldEvent(Tx, e)
  BY <1>2 DEF Saves, HasType, RecordTypes, NamesFieldEvent, OnLegs, Ordinary
<1>4. e \in DOMAIN view.fieldEvents \cap DOMAIN cache.fieldEvents
  BY <1>1, <1>3, AtConnecting
<1>5. AdvanceWithUndo(c, vUndos)
  BY <1>1, <1>2, <1>4, SinceV4 DEF ProcessFBet, FBetEvent, FBetLocked
<1>6. mode' # "failed"
  BY FieldConnects, ConnectingGoesOn
<1>7. /\ IsView(c)
      /\ c.fieldEvents = DbUpdate(cache.fieldEvents, e, FBetEvent) /\ c.fieldBets = DbWrite(cache.fieldBets, key, bet)
      /\ \A d \in Databases : d = "fieldEvents" \/ d = "fieldBets" \/ c[d] = cache[d]
  <2> HIDE DEF bet
  <2> QED BY <1>2 DEF IsView, Databases
<1> HIDE DEF c, bet
<1>8. /\ DOMAIN c.fieldEvents = DOMAIN cache.fieldEvents /\ IsDb("fieldEvents", c.fieldEvents)
      /\ \A x \in DOMAIN cache.fieldEvents : x # e => c.fieldEvents[x] = cache.fieldEvents[x]
  BY <1>4, <1>7 DEF DbUpdate, Put, IsDb
<1>9. key \in Keys("fieldBets", Tx, BlkHeight)
  BY <1>2, <1>3 DEF Keys, Key, Makes, HasType, Dbs, BetDbs
<1>10. /\ IsDb("fieldBets", c.fieldBets) /\ DOMAIN cache.fieldBets \subseteq DOMAIN c.fieldBets
       /\ Without("fieldBets", c.fieldBets, Keys("fieldBets", Tx, BlkHeight)) =
              Without("fieldBets", cache.fieldBets, Keys("fieldBets", Tx, BlkHeight))
  <2>1. IsDb("fieldBets", cache.fieldBets) /\ "fieldBets" \notin SetDbs
    BY DEF SetDbs, AllDbs, Dbs, BetDbs
  <2> QED BY <1>7, <1>9, <2>1, WrittenDb
<1>11. /\ DOMAIN vUndos = {1} /\ vUndos[1].kind = "field" /\ vUndos[1].id = e
       /\ vUndos[1].event = cache.fieldEvents[e]
  BY DEF FieldUndo
<1> HIDE DEF vUndos
<1>12. /\ "fieldEvents" \in EventDbs /\ Kind("fieldEvents") = "field"
       /\ DOMAIN vUndos \subseteq Int
       /\ \A i, j \in DOMAIN vUndos : vUndos[i].id = vUndos[j].id => i = j
       /\ \A i \in DOMAIN vUndos : vUndos[i].kind = Kind("fieldEvents") /\ vUndos[i].event = cache.fieldEvents[vUndos[i].id]
       /\ \A x \in DOMAIN cache.fieldEvents : c.fieldEvents[x] = cache.fieldEvents[x] \/ \E i \in DOMAIN vUndos : vUndos[i].id = x
  BY <1>8, <1>11 DEF EventDbs, Kind
<1>13. /\ Trace(Tx, BlkHeight, cache, cache', cache'.undos)
       /\ cache'.payoutsInfo = cache.payoutsInfo
       /\ \A d \in Dbs : cache'[d] = c[d]
       /\ \A d \in Dbs : d = "fieldEvents" \/ d = "fieldBets" \/ cache'[d] = cache[d]
  BY <1>2, <1>3, <1>5, <1>6, <1>7, <1>8, <1>10, <1>12, EventsTrace
<1>14. {"fieldEvents", "fieldBets"} \subseteq Dbs
  BY DEF Dbs, BetDbs
<1> QED BY <1>7, <1>13, <1>14 DEF bet

\* A field parlay counts its legs and saves each event as it was.
LEMMA FieldParlayLegs ==
    ASSUME NEW legs, IsSeq(legs),
           \A i \in DOMAIN legs : legs[i].event \in DOMAIN view.fieldEvents /\ legs[i].event \in DOMAIN cache.fieldEvents,
           \A i, j \in DOMAIN legs : i # j => legs[i].event # legs[j].event
    PROVE  /\ CountFieldLegs(legs).fieldEvents = [e \in DOMAIN cache.fieldEvents |-> WithFieldLegs(e, legs, Len(legs))]
           /\ CountFieldLegs(legs).undos = [i \in DOMAIN legs |->
                   FieldUndo(legs[i].event, cache.fieldEvents[legs[i].event])]
           /\ CountFieldLegs(legs).locked = [i \in DOMAIN legs |-> view.fieldEvents[legs[i].event]]
<1> DEFINE P == {i \in DOMAIN legs : legs[i].event \in DOMAIN view.fieldEvents \cap DOMAIN cache.fieldEvents}
<1>1. P = DOMAIN legs
  OBVIOUS
<1>2. At(legs, P) = legs /\ Len(legs) \in Nat /\ DOMAIN legs = 1 .. Len(legs)
  BY <1>1, AllOfSeq
<1>3. ASSUME NEW i \in DOMAIN legs
      PROVE  WithFieldLegs(legs[i].event, legs, i - 1) = cache.fieldEvents[legs[i].event]
  <2>1. {j \in 1 .. i - 1 : legs[j].event = legs[i].event} = {}
    BY <1>2
  <2> QED BY <2>1 DEF WithFieldLegs
<1>4. /\ CountFieldLegs(legs).fieldEvents = [e \in DOMAIN cache.fieldEvents |-> WithFieldLegs(e, legs, Len(legs))]
      /\ CountFieldLegs(legs).undos = [i \in DOMAIN legs |->
             FieldUndo(legs[i].event, WithFieldLegs(legs[i].event, legs, i - 1))]
      /\ CountFieldLegs(legs).locked = [i \in DOMAIN legs |-> view.fieldEvents[legs[i].event]]
  BY <1>2, Zenon DEF CountFieldLegs
<1> QED BY <1>3, <1>4

\* A parlay on field events.
LEMMA FParlayTrace ==
    ASSUME Ordinary, Lists, TypeOK, UInv, AllDbs(cache), ProcessFParlayBet, First(Tx).legs # <<>>
    PROVE  LET legs == First(Tx).legs IN
           /\ Trace(Tx, BlkHeight, cache, cache', cache'.undos)
           /\ cache'.payoutsInfo = cache.payoutsInfo
           /\ \A d \in Dbs : d = "fieldEvents" \/ d = "fieldBets" \/ cache'[d] = cache[d]
           /\ cache'.fieldBets = DbWrite(cache.fieldBets, <<BlkHeight, Tx.id, 1>>,
                  NewBet(First(Tx).amount, legs, [i \in DOMAIN legs |-> view.fieldEvents[legs[i].event]]))
           /\ cache'.fieldEvents = [e \in DOMAIN cache.fieldEvents |-> WithFieldLegs(e, legs, Len(legs))]
<1> DEFINE legs == First(Tx).legs
           key == <<BlkHeight, Tx.id, 1>>
           bet == NewBet(First(Tx).amount, legs, [i \in DOMAIN legs |-> view.fieldEvents[legs[i].event]])
           events == [e \in DOMAIN cache.fieldEvents |-> WithFieldLegs(e, legs, Len(legs))]
           c == [cache EXCEPT !.fieldEvents = events, !.fieldBets = DbWrite(@, key, bet)]
           vUndos == [i \in DOMAIN legs |-> FieldUndo(legs[i].event, cache.fieldEvents[legs[i].event])]
<1>1. Processing("fParlayBet") /\ "fParlayBet" \in V4Types
  BY DEF ProcessFParlayBet, V4Types
<1>2. /\ mode = "connect" /\ AtOutput /\ First(Tx).type = "fParlayBet" /\ Out = First(Tx) /\ Tx \in Txs
      /\ UndoKey = <<Tx.id, 1>> /\ BetKey = key /\ IsView(cache) /\ CheckBettingTx(Tx)
  BY <1>1, AtConnecting
<1>3. /\ Saves(Tx) /\ IsSeq(legs)
      /\ \A i \in DOMAIN legs : NamesFieldEvent(Tx, legs[i].event)
  BY <1>2 DEF Saves, HasType, RecordTypes, NamesFieldEvent, OnLegs, Lists
<1>4. /\ \A i \in DOMAIN legs : legs[i].event \in DOMAIN view.fieldEvents /\ legs[i].event \in DOMAIN cache.fieldEvents
      /\ \A i, j \in DOMAIN legs : i # j => legs[i].event # legs[j].event
  <2>1. CheckFParlayBet(First(Tx))
    BY <1>2, CheckedOutput
  <2> QED BY <1>1, <1>3, <2>1, AtConnecting DEF CheckFParlayBet
<1>5. AdvanceWithUndo(c, vUndos)
  <2>1. AdvanceWithUndo([cache EXCEPT !.fieldEvents = CountFieldLegs(legs).fieldEvents,
                                !.fieldBets   = DbWrite(@, BetKey,
                                              NewBet(First(Tx).amount, legs, CountFieldLegs(legs).locked))],
                  CountFieldLegs(legs).undos)
    BY <1>1, <1>2, SinceV4 DEF ProcessFParlayBet
  <2>2. /\ CountFieldLegs(legs).fieldEvents = events
        /\ CountFieldLegs(legs).undos = vUndos
        /\ CountFieldLegs(legs).locked = [i \in DOMAIN legs |-> view.fieldEvents[legs[i].event]]
    BY <1>3, <1>4, FieldParlayLegs
  <2> HIDE DEF events, vUndos, legs
  <2> QED BY <1>2, <2>1, <2>2 DEF bet
<1>6. mode' # "failed"
  BY FieldConnects, ConnectingGoesOn
<1>7. /\ IsView(c)
      /\ c.fieldEvents = events /\ c.fieldBets = DbWrite(cache.fieldBets, key, bet)
      /\ \A d \in Databases : d = "fieldEvents" \/ d = "fieldBets" \/ c[d] = cache[d]
  <2> HIDE DEF bet, events
  <2> QED BY <1>2 DEF IsView, Databases
<1>8. /\ DOMAIN c.fieldEvents = DOMAIN cache.fieldEvents /\ IsDb("fieldEvents", c.fieldEvents)
  BY <1>7 DEF IsDb
<1>h. \A x \in DOMAIN cache.fieldEvents : c.fieldEvents[x] = cache.fieldEvents[x] \/ \E i \in DOMAIN legs : legs[i].event = x
  <2>1. Len(legs) \in Nat /\ DOMAIN legs = 1 .. Len(legs)
    BY <1>3, AllOfSeq
  <2>2. \A x \in DOMAIN cache.fieldEvents : c.fieldEvents[x] = WithFieldLegs(x, legs, Len(legs))
    BY <1>7
  <2>3. ASSUME NEW x \in DOMAIN cache.fieldEvents, ~\E i \in DOMAIN legs : legs[i].event = x
        PROVE  WithFieldLegs(x, legs, Len(legs)) = cache.fieldEvents[x]
    <3>1. {i \in 1 .. Len(legs) : legs[i].event = x} = {}
      BY <2>1, <2>3
    <3> QED BY <3>1 DEF WithFieldLegs
  <2> HIDE DEF c, legs
  <2> QED BY <2>2, <2>3
<1> HIDE DEF c, bet
<1>9. key \in Keys("fieldBets", Tx, BlkHeight)
  BY <1>2, <1>3 DEF Keys, Key, Makes, HasType, Dbs, BetDbs
<1>10. /\ IsDb("fieldBets", c.fieldBets) /\ DOMAIN cache.fieldBets \subseteq DOMAIN c.fieldBets
       /\ Without("fieldBets", c.fieldBets, Keys("fieldBets", Tx, BlkHeight)) =
              Without("fieldBets", cache.fieldBets, Keys("fieldBets", Tx, BlkHeight))
  <2>1. IsDb("fieldBets", cache.fieldBets) /\ "fieldBets" \notin SetDbs
    BY DEF SetDbs, AllDbs, Dbs, BetDbs
  <2> QED BY <1>7, <1>9, <2>1, WrittenDb
<1>11. /\ DOMAIN vUndos = DOMAIN legs
       /\ \A i \in DOMAIN legs : /\ vUndos[i].kind = "field" /\ vUndos[i].id = legs[i].event
                                 /\ vUndos[i].event = cache.fieldEvents[legs[i].event]
  BY DEF FieldUndo
<1>l. DOMAIN legs \subseteq Int
  BY <1>3, AllOfSeq
<1> HIDE DEF vUndos, legs, events
<1>12. /\ "fieldEvents" \in EventDbs /\ Kind("fieldEvents") = "field"
       /\ DOMAIN vUndos \subseteq Int
       /\ \A i, j \in DOMAIN vUndos : vUndos[i].id = vUndos[j].id => i = j
       /\ \A i \in DOMAIN vUndos : vUndos[i].kind = Kind("fieldEvents") /\ vUndos[i].event = cache.fieldEvents[vUndos[i].id]
       /\ \A x \in DOMAIN cache.fieldEvents : c.fieldEvents[x] = cache.fieldEvents[x] \/ \E i \in DOMAIN vUndos : vUndos[i].id = x
  BY <1>4, <1>h, <1>l, <1>11 DEF EventDbs, Kind
<1>13. /\ Trace(Tx, BlkHeight, cache, cache', cache'.undos)
       /\ cache'.payoutsInfo = cache.payoutsInfo
       /\ \A d \in Dbs : cache'[d] = c[d]
       /\ \A d \in Dbs : d = "fieldEvents" \/ d = "fieldBets" \/ cache'[d] = cache[d]
  BY <1>2, <1>3, <1>5, <1>6, <1>7, <1>8, <1>10, <1>12, EventsTrace
<1>14. {"fieldEvents", "fieldBets"} \subseteq Dbs
  BY DEF Dbs, BetDbs
<1>15. cache'.fieldBets = DbWrite(cache.fieldBets, key, bet) /\ cache'.fieldEvents = events
  BY <1>7, <1>13, <1>14, Zenon
<1> QED BY <1>13, <1>15, Zenon DEF bet, legs, events

\* A handler that makes an entry or leaves everything as it is.
LEMMA EntryCame ==
    ASSUME Ordinary, TypeOK, AllDbs(cache), ~Saves(Tx), NEW d \in Dbs, d \notin SetDbs, NEW k, k \in Keys(d, Tx, BlkHeight),
           cache' = cache \/ \E v : cache' = [cache EXCEPT ![d] = DbWrite(cache[d], k, v)]
    PROVE  Came(d)
<1>0. IsView(cache)
  BY DEF TypeOK
<1>1. CASE cache' = cache
  BY <1>1, NothingTrace DEF Came
<1>2. CASE \E v : cache' = [cache EXCEPT ![d] = DbWrite(cache[d], k, v)]
  <2>1. PICK v : cache' = [cache EXCEPT ![d] = DbWrite(cache[d], k, v)]
    BY <1>2
  <2>2. Trace(Tx, BlkHeight, cache, cache', cache'.undos)
    BY <1>0, <2>1, EntryTrace
  <2>3. cache'.payoutsInfo = cache.payoutsInfo
    BY <1>0, <2>1, EntryTrace
  <2>4. \A o \in Dbs : o = d \/ cache'[o] = cache[o]
    BY <1>0, <2>1, EntryTrace
  <2> QED BY <2>2, <2>3, <2>4 DEF Came
<1> QED BY <1>1, <1>2

\* The database that an output of this type makes entries in, where it leaves
\* no record.
PlainDb(type) ==
    CASE type = "fEvent" -> "fieldEvents"
      [] type = "fResult" -> "fieldResults"
      [] type = "cgEvent" -> "chainGamesLottoEvents"
      [] type = "cgBet" -> "chainGamesLottoBets"
      [] type = "qgBet" -> "quickGamesBets"
      [] type = "cgResult" -> "chainGamesLottoResults"

\* The types of those outputs.
PlainTypes == {"fEvent", "fResult", "cgEvent", "cgBet", "qgBet", "cgResult"}

\* Such an output saves nothing and makes its entry there.
LEMMA PlainKeys ==
    ASSUME Ordinary, TypeOK, UInv, NEW type \in PlainTypes, Processing(type)
    PROVE  /\ ~Saves(Tx) /\ PlainDb(type) \in Dbs /\ (type # "cgResult" => PlainDb(type) \notin SetDbs)
           /\ type \in {"fEvent", "fResult", "cgEvent", "cgResult"} => Out.event \in Keys(PlainDb(type), Tx, BlkHeight)
           /\ type \in {"cgBet", "qgBet"} => BetKey \in Keys(PlainDb(type), Tx, BlkHeight)
           /\ type = "cgResult" => PlainDb(type) \in SetDbs
           /\ First(Tx).type = type /\ Out = First(Tx)
<1>1. /\ First(Tx).type = type /\ Out = First(Tx) /\ BetKey = <<BlkHeight, Tx.id, 1>>
  BY AtConnecting
<1>2. ~Saves(Tx)
  BY <1>1 DEF Saves, HasType, RecordTypes, PlUpdates, FieldUpdates, PlainTypes
<1>3. /\ PlainDb(type) \in Dbs /\ (type # "cgResult" => PlainDb(type) \notin SetDbs)
      /\ type = "cgResult" => PlainDb(type) \in SetDbs
  BY DEF PlainTypes, PlainDb, Dbs, BetDbs, SetDbs
<1>4. HasType(Tx, Makes[PlainDb(type)]) /\ PlainDb(type) \notin {"bets", "fieldBets"}
  BY <1>1, <1>3 DEF PlainTypes, PlainDb, HasType, Makes
<1>5. Keys(PlainDb(type), Tx, BlkHeight) = {Key(PlainDb(type), Tx, BlkHeight)}
  BY <1>4 DEF Keys
<1>6. /\ type \in {"fEvent", "fResult", "cgEvent", "cgResult"} => Key(PlainDb(type), Tx, BlkHeight) = Out.event
      /\ type \in {"cgBet", "qgBet"} => Key(PlainDb(type), Tx, BlkHeight) = BetKey
  BY <1>1 DEF Key, PlainDb, BetDbs
<1> QED BY <1>1, <1>2, <1>3, <1>5, <1>6

\* A new field event.
LEMMA FEventTrace ==
    ASSUME Ordinary, TypeOK, UInv, AllDbs(cache), ProcessFEvent
    PROVE  Came("fieldEvents")
<1>1. Processing("fEvent") /\ "fEvent" \in PlainTypes /\ PlainDb("fEvent") = "fieldEvents"
  BY DEF ProcessFEvent, PlainTypes, PlainDb
<1>2. cache' = cache \/ \E v : cache' = [cache EXCEPT !["fieldEvents"] = DbWrite(cache["fieldEvents"], Out.event, v)]
  BY DEF ProcessFEvent, Advance
<1>3. /\ ~Saves(Tx) /\ "fieldEvents" \in Dbs /\ "fieldEvents" \notin SetDbs
      /\ Out.event \in Keys("fieldEvents", Tx, BlkHeight)
  BY <1>1, PlainKeys
<1> QED BY <1>2, <1>3, EntryCame

\* Parlays without legs do nothing.
LEMMA EmptyParlayTrace ==
    ASSUME Ordinary, TypeOK, UInv, AllDbs(cache), ProcessPlParlayBet \/ ProcessFParlayBet, First(Tx).legs = <<>>
    PROVE  cache' = cache /\ blk' = blk /\ Came("bets")
<1>1. PICK type \in {"plParlayBet", "fParlayBet"} : Processing(type)
  BY DEF ProcessPlParlayBet, ProcessFParlayBet
<1>2. First(Tx).type = type /\ Out = First(Tx)
  BY <1>1, AtConnecting
<1>3. ~Saves(Tx)
  BY <1>2 DEF Saves, HasType
<1>4. cache' = cache /\ blk' = blk
  BY <1>2 DEF ProcessPlParlayBet, ProcessFParlayBet, Advance
<1> QED BY <1>3, <1>4, NothingTrace DEF Came

-----------------------------------------------------------------------------
\* A step of ConnectBlock and a step of DisconnectBlock.

\* No output of a lotto, a quick game or a field result.
NoGames == \A tx \in Txs : ~HasType(tx, GameTypes \cup {"fResult"})

\* The transaction places a bet on peerless events.
IsBet(tx) == HasType(tx, {"plBet", "plParlayBet"}) /\ Saves(tx)

\* The bet of the transaction at hand.
BetMade ==
    NewBet(First(Tx).amount, First(Tx).legs,
           [i \in DOMAIN First(Tx).legs |-> view.events[First(Tx).legs[i].event].info])

\* The results of the block grow by that of the transaction at hand, if at all.
ResultMade ==
    \/ cache'.results = cache.results /\ blk'.vResultIDs = blk.vResultIDs
    \/ /\ HasType(Tx, {"plResult"}) /\ First(Tx).event \notin DOMAIN cache.results
       /\ cache'.results = DbWrite(cache.results, First(Tx).event, First(Tx).result)
       /\ blk'.vResultIDs = Append(blk.vResultIDs, First(Tx).event)

\* What a step that connects an output does.
Connecting ==
    /\ mode = "connect" /\ AtOutput
    /\ Trace(Tx, BlkHeight, cache, cache', cache'.undos)
    /\ cache'.payoutsInfo = cache.payoutsInfo
    /\ cache'.bets = IF IsBet(Tx) THEN DbWrite(cache.bets, <<BlkHeight, Tx.id, 1>>, BetMade) ELSE cache.bets
    /\ ResultMade

\* Outputs that leave no record.
LEMMA PlainConnecting ==
    ASSUME mode = "connect", AtOutput, NEW d \in Dbs \ {"bets", "results"}, Came(d), ~IsBet(Tx), blk' = blk
    PROVE  Connecting
BY DEF Came, Connecting, ResultMade, Dbs, BetDbs

\* Outputs about peerless events.
LEMMA PeerlessConnecting ==
    ASSUME Ordinary, Lists, TypeOK, UInv, AllDbs(cache), mode = "connect", PeerlessStep
    PROVE  Connecting
<1>0. {"mappings", "events", "fieldEvents"} \subseteq Dbs \ {"bets", "results"} /\ "results" \in Dbs /\ "bets" \in Dbs
  BY DEF Dbs, BetDbs
<1>n. ASSUME NEW type, Undoing(type) PROVE FALSE
  BY <1>n DEF Undoing, Handles
<1>1. CASE ProcessPlBet
  <2>1. First(Tx).type = "plBet" /\ AtOutput /\ Tx \in Txs
    BY <1>1, AtConnecting DEF ProcessPlBet
  <2>2. IsBet(Tx)
    BY <2>1 DEF IsBet, Saves, HasType, RecordTypes
  <2>3. DOMAIN First(Tx).legs = {1}
    BY <2>1 DEF Ordinary, HasType
  <2> DEFINE e == First(Tx).legs[1].event
  <2>4. <<view.events[e].info>> = [i \in DOMAIN First(Tx).legs |-> view.events[First(Tx).legs[i].event].info]
    BY <2>3
  <2>5. blk' = blk
    BY <1>1 DEF ProcessPlBet, AdvanceWithUndo, Advance, Abort
  <2>6. /\ Trace(Tx, BlkHeight, cache, cache', cache'.undos)
        /\ cache'.payoutsInfo = cache.payoutsInfo
        /\ \A d \in Dbs : d = "events" \/ d = "bets" \/ cache'[d] = cache[d]
        /\ cache'.bets = DbWrite(cache.bets, <<BlkHeight, Tx.id, 1>>,
                                NewBet(First(Tx).amount, First(Tx).legs, <<view.events[e].info>>))
    BY <1>1, PlBetTrace
  <2>7. cache'.bets = DbWrite(cache.bets, <<BlkHeight, Tx.id, 1>>, BetMade)
    BY <2>4, <2>6, Zenon DEF BetMade
  <2>8. cache'.results = cache.results
    BY <1>0, <2>6
  <2> QED BY <2>1, <2>2, <2>5, <2>6, <2>7, <2>8 DEF Connecting, ResultMade
<1>2. CASE ProcessPlParlayBet /\ First(Tx).legs # <<>>
  <2>1. First(Tx).type = "plParlayBet" /\ AtOutput /\ Tx \in Txs
    BY <1>2, AtConnecting DEF ProcessPlParlayBet
  <2>2. IsBet(Tx)
    BY <1>2, <2>1 DEF IsBet, Saves, HasType, RecordTypes
  <2>5. blk' = blk
    BY <1>2 DEF ProcessPlParlayBet, AdvanceWithUndo, Advance, Abort
  <2>6. /\ Trace(Tx, BlkHeight, cache, cache', cache'.undos)
        /\ cache'.payoutsInfo = cache.payoutsInfo
        /\ \A d \in Dbs : d = "events" \/ d = "bets" \/ cache'[d] = cache[d]
        /\ cache'.bets = DbWrite(cache.bets, <<BlkHeight, Tx.id, 1>>, BetMade)
    BY <1>2, PlParlayTrace DEF BetMade
  <2>8. cache'.results = cache.results
    BY <1>0, <2>6
  <2> QED BY <2>1, <2>2, <2>5, <2>6, <2>8 DEF Connecting, ResultMade
<1>3. CASE ProcessPlParlayBet /\ First(Tx).legs = <<>>
  <2>1. First(Tx).type = "plParlayBet" /\ AtOutput
    BY <1>3, AtConnecting DEF ProcessPlParlayBet
  <2>2. ~IsBet(Tx)
    BY <1>3, <2>1 DEF IsBet, Saves, HasType
  <2>3. cache' = cache /\ blk' = blk /\ Came("bets")
    BY <1>3, EmptyParlayTrace
  <2> QED BY <2>1, <2>2, <2>3 DEF Connecting, ResultMade, Came
<1>4. ASSUME NEW type, Processing(type), type \notin {"plBet", "plParlayBet"} PROVE AtOutput /\ ~IsBet(Tx)
  <2>1. First(Tx).type = type /\ AtOutput
    BY <1>4, AtConnecting
  <2> QED BY <1>4, <2>1 DEF IsBet, HasType
<1>5. CASE ProcessMapping
  <2>1. Processing("mapping") /\ blk' = blk
    BY <1>5 DEF ProcessMapping, Advance
  <2> QED BY <1>0, <1>4, <1>5, <2>1, MappingTrace, PlainConnecting
<1>6. CASE ProcessPlEvent
  <2>1. Processing("plEvent") /\ blk' = blk
    BY <1>6 DEF ProcessPlEvent, Advance
  <2> QED BY <1>0, <1>4, <1>6, <2>1, PlEventTrace, PlainConnecting
<1>7. CASE ProcessPlResult
  <2>1. Processing("plResult")
    BY <1>7 DEF ProcessPlResult
  <2>2. AtOutput /\ ~IsBet(Tx)
    BY <1>4, <2>1
  <2>3. /\ Came("results") /\ First(Tx).type = "plResult"
        /\ \/ cache' = cache /\ blk' = blk
           \/ /\ First(Tx).event \notin DOMAIN cache.results
              /\ cache'.results = DbWrite(cache.results, First(Tx).event, First(Tx).result)
              /\ blk'.vResultIDs = Append(blk.vResultIDs, First(Tx).event)
    BY <1>7, PlResultTrace
  <2>4. ResultMade
    BY <2>3 DEF ResultMade, HasType
  <2>5. cache'.bets = cache.bets
    BY <1>0, <2>3 DEF Came
  <2> QED BY <2>2, <2>3, <2>4, <2>5 DEF Connecting, Came
<1>8. CASE ProcessPlZeroing
  <2>1. Processing("plZeroing") /\ blk' = blk
    BY <1>8 DEF ProcessPlZeroing, AdvanceWithUndo, Advance, Abort
  <2> QED BY <1>0, <1>4, <1>8, <2>1, PlZeroingTrace, PlainConnecting
<1>9. ASSUME NEW type \in PlUpdates, ProcessPlUpdate(type) PROVE Connecting
  <2>1. Processing(type) /\ blk' = blk
    BY <1>9 DEF ProcessPlUpdate, AdvanceWithUndo, Advance, Abort
  <2>2. type \notin {"plBet", "plParlayBet"}
    BY DEF PlUpdates
  <2>3. Came("events")
    BY <1>9, PlUpdateTrace
  <2> QED BY <1>0, <1>4, <2>1, <2>2, <2>3, PlainConnecting
<1> QED BY <1>n, <1>1, <1>2, <1>3, <1>5, <1>6, <1>7, <1>8, <1>9
        DEF PeerlessStep, UndoPeerlessBet, UndoMapping, UndoPlEvent, UndoPlResult, UndoPlZeroing, UndoPlUpdate

\* Outputs about field events.
LEMMA FieldConnecting ==
    ASSUME Ordinary, Lists, NoGames, TypeOK, UInv, AllDbs(cache), mode = "connect", FieldStep
    PROVE  Connecting
<1>0. {"fieldEvents", "fieldBets"} \subseteq Dbs \ {"bets", "results"} /\ "results" \in Dbs /\ "bets" \in Dbs
  BY DEF Dbs, BetDbs
<1>n. ASSUME NEW type, Undoing(type) PROVE FALSE
  BY <1>n DEF Undoing, Handles
<1>4. ASSUME NEW type, Processing(type), type \notin {"plBet", "plParlayBet"} PROVE AtOutput /\ ~IsBet(Tx)
  <2>1. First(Tx).type = type /\ AtOutput
    BY <1>4, AtConnecting
  <2> QED BY <1>4, <2>1 DEF IsBet, HasType
<1>5. ASSUME NEW type, Processing(type), type \notin {"plBet", "plParlayBet"}, blk' = blk,
             Trace(Tx, BlkHeight, cache, cache', cache'.undos),
             cache'.payoutsInfo = cache.payoutsInfo,
             \A d \in Dbs : d = "fieldEvents" \/ d = "fieldBets" \/ cache'[d] = cache[d]
      PROVE  Connecting
  <2>1. cache'.bets = cache.bets /\ cache'.results = cache.results
    BY <1>0, <1>5
  <2> QED BY <1>4, <1>5, <2>1 DEF Connecting, ResultMade
<1>1. CASE ProcessFBet
  <2>1. Processing("fBet") /\ blk' = blk
    BY <1>1 DEF ProcessFBet, AdvanceWithUndo, Advance, Abort
  <2> QED BY <1>1, <1>5, <2>1, FBetTrace
<1>2. CASE ProcessFParlayBet /\ First(Tx).legs # <<>>
  <2>1. Processing("fParlayBet") /\ blk' = blk
    BY <1>2 DEF ProcessFParlayBet, AdvanceWithUndo, Advance, Abort
  <2> QED BY <1>2, <1>5, <2>1, FParlayTrace
<1>3. CASE ProcessFParlayBet /\ First(Tx).legs = <<>>
  <2>1. Processing("fParlayBet")
    BY <1>3 DEF ProcessFParlayBet
  <2>2. cache' = cache /\ blk' = blk /\ Came("bets")
    BY <1>3, EmptyParlayTrace
  <2> QED BY <1>5, <2>1, <2>2 DEF Came
<1>6. CASE ProcessFEvent
  <2>1. Processing("fEvent") /\ blk' = blk
    BY <1>6 DEF ProcessFEvent, Advance
  <2> QED BY <1>0, <1>4, <1>6, <2>1, FEventTrace, PlainConnecting
<1>7. CASE ProcessFResult
  <2>1. Processing("fResult")
    BY <1>7 DEF ProcessFResult
  <2>2. First(Tx).type = "fResult" /\ Tx \in Txs
    BY <2>1, AtConnecting
  <2> QED BY <2>2 DEF NoGames, HasType
<1>9. ASSUME NEW type \in FieldUpdates, ProcessFUpdate(type) PROVE Connecting
  <2>1. Processing(type) /\ blk' = blk
    BY <1>9 DEF ProcessFUpdate, AdvanceWithUndo, Advance, Abort
  <2>2. type \notin {"plBet", "plParlayBet"}
    BY DEF FieldUpdates
  <2>3. Came("fieldEvents")
    BY <1>9, FUpdateTrace
  <2> QED BY <1>0, <1>4, <2>1, <2>2, <2>3, PlainConnecting
<1> QED BY <1>n, <1>1, <1>2, <1>3, <1>6, <1>7, <1>9
        DEF FieldStep, UndoFieldBet, UndoFEvent, UndoFResult, UndoFUpdate

\* Without games no step is about one.
LEMMA NoGamesStep ==
    ASSUME Ordinary, NoGames, TypeOK, UInv
    PROVE  ~GamesStep /\ ~ProcessFResult /\ ~UndoFResult
<1>1. ASSUME NEW type \in GameTypes \cup {"fResult"}, Processing(type) \/ Undoing(type) PROVE FALSE
  <2>1. First(Tx).type = type /\ Tx \in Txs
    BY <1>1, AtProcessing, AtUndoing
  <2> QED BY <2>1 DEF NoGames, HasType
<1>2. {"cgBet", "qgBet", "cgEvent", "cgResult"} = GameTypes
  BY DEF GameTypes
<1> QED BY <1>1, <1>2 DEF GamesStep, ProcessCgBet, ProcessQgBet, ProcessCgEvent, ProcessCgResult,
        UndoCgBet, UndoQgBet, UndoCgEvent, UndoCgResult, ProcessFResult, UndoFResult

\* The step is one of an output.
OutputAction == SkipOutput \/ PeerlessStep \/ FieldStep \/ GamesStep

\* Every step of ConnectBlock that handles an output.
LEMMA OutputConnecting ==
    ASSUME Ordinary, Lists, NoGames, TypeOK, UInv, AllDbs(cache), mode = "connect", OutputAction
    PROVE  Connecting
BY NothingSkipped, NoGamesStep, PeerlessConnecting, FieldConnecting DEF OutputAction

\* What a step that disconnects an output does: the events get back what the
\* record says, every other database loses the key of the output.
Disconnecting ==
    /\ mode = "disconnect" /\ AtOutput
    /\ \A d \in Dbs :
           cache'[d] = IF Saves(Tx) /\ d \in EventDbs
                       THEN RestoreEvents(cache[d], Record(cache.undos, Tx), Kind(d))
                       ELSE Without(d, cache[d], Keys(d, Tx, TipHeight))
    /\ cache'.payoutsInfo = cache.payoutsInfo

\* The databases in which the outputs of a type are not entered.
LEMMA OwnDbs ==
    ASSUME NEW tx, NEW h
    PROVE  /\ First(tx).type = "mapping" => \A d \in Dbs : d = "mappings" \/ Keys(d, tx, h) = {}
           /\ First(tx).type = "plEvent" => \A d \in Dbs : d = "events" \/ Keys(d, tx, h) = {}
           /\ First(tx).type = "plResult" => \A d \in Dbs : d = "results" \/ Keys(d, tx, h) = {}
           /\ First(tx).type \in {"plBet", "plParlayBet"} => \A d \in Dbs : d = "bets" \/ Keys(d, tx, h) = {}
           /\ First(tx).type \in {"fBet", "fParlayBet"} => \A d \in Dbs : d = "fieldBets" \/ Keys(d, tx, h) = {}
           /\ First(tx).type = "fEvent" => \A d \in Dbs : d = "fieldEvents" \/ Keys(d, tx, h) = {}
           /\ First(tx).type \in {"plZeroing"} \cup PlUpdates \cup FieldUpdates => \A d \in Dbs : Keys(d, tx, h) = {}
BY DEF Keys, Makes, HasType, Dbs, BetDbs, PlUpdates, FieldUpdates

\* Erasing the entry of an output.
LEMMA ErasedDb ==
    ASSUME NEW d, d \notin SetDbs, NEW db, NEW k
    PROVE  DbErase(db, k) = Without(d, db, {k})
BY DEF DbErase, Without

\* Undo handlers that erase an entry.
LEMMA PlainDisconnecting ==
    ASSUME TypeOK, AllDbs(cache), mode = "disconnect", AtOutput, ~Saves(Tx), NEW d \in Dbs,
           \A o \in Dbs : o = d \/ Keys(o, Tx, TipHeight) = {},
           cache' = [cache EXCEPT ![d] = Without(d, cache[d], Keys(d, Tx, TipHeight))]
    PROVE  Disconnecting
<1> DEFINE x == Without(d, cache[d], Keys(d, Tx, TipHeight))
<1>1. cache'[d] = x /\ \A o \in Databases : o = d \/ cache'[o] = cache[o]
  <2>1. cache' = [cache EXCEPT ![d] = x] /\ IsView(cache)
    BY DEF TypeOK
  <2> HIDE DEF x
  <2> QED BY <2>1, DbsOfView, OneDb
<1> HIDE DEF x
<1>2. ASSUME NEW o \in Dbs, o # d PROVE cache'[o] = Without(o, cache[o], Keys(o, Tx, TipHeight))
  <2>1. cache'[o] = cache[o] /\ IsDb(o, cache[o]) /\ Keys(o, Tx, TipHeight) = {}
    BY <1>1, <1>2, DbsOfView DEF AllDbs
  <2> QED BY <2>1, WithoutNone
<1>3. cache'.payoutsInfo = cache.payoutsInfo
  BY <1>1, DbsOfView
<1> QED BY <1>1, <1>2, <1>3 DEF Disconnecting, x

\* Undo handlers that revert events and perhaps erase a bet.
LEMMA RevertDisconnecting ==
    ASSUME TypeOK, AllDbs(cache), mode = "disconnect", AtOutput, Saves(Tx), UndoKey = <<Tx.id, 1>>,
           UndoKey \in DOMAIN cache.undos,
           NEW d \in Dbs \ EventDbs, \A o \in Dbs : o = d \/ Keys(o, Tx, TipHeight) = {},
           cache' = [UndoEventChanges(cache, UndoKey) EXCEPT ![d] = Without(d, cache[d], Keys(d, Tx, TipHeight))]
    PROVE  Disconnecting
<1> DEFINE v == UndoEventChanges(cache, UndoKey)
           x == Without(d, cache[d], Keys(d, Tx, TipHeight))
<1>1. /\ IsView(v)
      /\ v.events = RestoreEvents(cache.events, Record(cache.undos, Tx), "peerless")
      /\ v.fieldEvents = RestoreEvents(cache.fieldEvents, Record(cache.undos, Tx), "field")
      /\ \A o \in Databases : o \in {"events", "fieldEvents", "undos"} \/ v[o] = cache[o]
  BY DEF UndoEventChanges, GetBettingUndo, Record, TypeOK, IsView, Databases
<1> HIDE DEF v
<1>2. cache'[d] = x /\ \A o \in Databases : o = d \/ cache'[o] = v[o]
  <2>1. cache' = [v EXCEPT ![d] = x]
    BY DEF v
  <2> HIDE DEF x
  <2> QED BY <1>1, <2>1, DbsOfView, OneDb
<1> HIDE DEF x
<1>3. ASSUME NEW o \in Dbs \ EventDbs, o # d PROVE cache'[o] = Without(o, cache[o], Keys(o, Tx, TipHeight))
  <2>1. cache'[o] = cache[o] /\ IsDb(o, cache[o]) /\ Keys(o, Tx, TipHeight) = {}
    BY <1>1, <1>2, <1>3, DbsOfView DEF AllDbs, EventDbs
  <2> QED BY <2>1, WithoutNone
<1>4. cache'.payoutsInfo = cache.payoutsInfo
  BY <1>1, <1>2, DbsOfView
<1>5. ASSUME NEW o \in EventDbs PROVE cache'[o] = RestoreEvents(cache[o], Record(cache.undos, Tx), Kind(o))
  <2>1. o \in Databases /\ o # d
    BY DEF EventDbs, Databases
  <2> QED BY <1>1, <1>2, <2>1 DEF EventDbs, Kind
<1> QED BY <1>2, <1>3, <1>4, <1>5 DEF Disconnecting, x

\* The same where there is no bet to erase.
LEMMA UpdateDisconnecting ==
    ASSUME TypeOK, AllDbs(cache), mode = "disconnect", AtOutput, Saves(Tx), UndoKey = <<Tx.id, 1>>,
           UndoKey \in DOMAIN cache.undos, \A o \in Dbs : Keys(o, Tx, TipHeight) = {},
           cache' = UndoEventChanges(cache, UndoKey)
    PROVE  Disconnecting
<1>1. "bets" \in Dbs \ EventDbs
  BY DEF Dbs, BetDbs, EventDbs
<1>2. cache.bets = Without("bets", cache["bets"], Keys("bets", Tx, TipHeight))
  BY <1>1, WithoutNone DEF AllDbs
<1>3. cache' = [UndoEventChanges(cache, UndoKey) EXCEPT !["bets"] = cache.bets]
  BY UndoneView DEF TypeOK, UndoEventChanges, IsView, Databases
<1> QED BY <1>1, <1>2, <1>3, RevertDisconnecting

\* Outputs about peerless events.
LEMMA PeerlessDisconnecting ==
    ASSUME Ordinary, TypeOK, UInv, AllDbs(cache), mode = "disconnect", PeerlessStep
    PROVE  Disconnecting
<1>0. /\ "mappings" \in Dbs \cap SetDbs /\ {"events", "results", "bets"} \subseteq Dbs \ SetDbs
      /\ "bets" \notin EventDbs
  BY DEF Dbs, BetDbs, SetDbs, EventDbs
<1>n. ASSUME NEW type, Processing(type) PROVE FALSE
  BY <1>n DEF Processing, Handles
<1>s. ASSUME NEW type, Undoing(type), type \in {"mapping", "plEvent", "plResult"} PROVE ~Saves(Tx)
  BY <1>s, AtUndoing DEF Saves, HasType, RecordTypes, PlUpdates, FieldUpdates
<1>1. ASSUME NEW type \in {"plBet", "plParlayBet"}, UndoPeerlessBet(type) PROVE Disconnecting
  <2>1. Undoing(type)
    BY <1>1 DEF UndoPeerlessBet
  <2>2. /\ AtOutput /\ First(Tx).type \in {"plBet", "plParlayBet"} /\ Out = First(Tx) /\ Tx \in Txs
        /\ BlkHeight = TipHeight /\ UndoKey = <<Tx.id, 1>>
    BY <2>1, AtUndoing
  <2>3. \A o \in Dbs : o = "bets" \/ Keys(o, Tx, TipHeight) = {}
    BY <2>2, OwnDbs
  <2>4. CASE Out.legs = <<>>
    <3>1. ~(First(Tx).type = "plBet")
      <4>1. First(Tx).type = "plBet" => DOMAIN Out.legs = {1}
        BY <2>2 DEF Ordinary, HasType
      <4>2. DOMAIN Out.legs = {}
        BY <2>4
      <4> QED BY <4>1, <4>2
    <3>2. ~Saves(Tx) /\ cache' = cache
      BY <1>1, <2>2, <2>4, <3>1 DEF Saves, HasType, UndoPeerlessBet, Advance
    <3>3. Keys("bets", Tx, TipHeight) = {}
      BY <3>2 DEF Keys
    <3>4. Without("bets", cache["bets"], Keys("bets", Tx, TipHeight)) = cache["bets"]
      BY <1>0, <3>3, WithoutNone DEF AllDbs
    <3>5. cache' = [cache EXCEPT !["bets"] = cache["bets"]]
      BY <3>2 DEF TypeOK, IsView, Databases
    <3> QED BY <1>0, <2>2, <2>3, <3>2, <3>4, <3>5, PlainDisconnecting
  <2>5. CASE Out.legs # <<>>
    <3>1. Saves(Tx)
      BY <2>2, <2>5 DEF Saves, HasType, RecordTypes
    <3>2. \A i \in DOMAIN Out.legs : NamesEvent(Tx, Out.legs[i].event)
      BY <2>2 DEF NamesEvent, HasType, OnLegs
    <3>3. UndoKey \in DOMAIN cache.undos
      BY <2>1, <3>1, AtUndoing
    <3>4. cache' = [UndoEventChanges(cache, UndoKey) EXCEPT !.bets = DbErase(@, BetKey)]
      BY <1>1, <2>1, <2>5, <3>2, <3>3, AtUndoing DEF UndoPeerlessBet, RevertOr, Advance
    <3>5. Keys("bets", Tx, TipHeight) = {BetKey}
      BY <1>0, <2>2, <3>1, AtTx DEF Keys, Key, Makes, HasType, BetKey, BetDbs
    <3>6. DbErase(cache.bets, BetKey) = Without("bets", cache["bets"], Keys("bets", Tx, TipHeight))
      BY <1>0, <3>5, ErasedDb
    <3>7. UndoEventChanges(cache, UndoKey).bets = cache.bets
      BY DEF UndoEventChanges, TypeOK, IsView, Databases
    <3>8. cache' = [UndoEventChanges(cache, UndoKey) EXCEPT !["bets"] = Without("bets", cache["bets"], Keys("bets", Tx, TipHeight))]
      BY <3>4, <3>6, <3>7
    <3> QED BY <1>0, <2>2, <2>3, <3>1, <3>3, <3>8, RevertDisconnecting
  <2> QED BY <2>4, <2>5
<1>2. CASE UndoMapping
  <2>1. Undoing("mapping")
    BY <1>2 DEF UndoMapping
  <2>2. AtOutput /\ First(Tx).type = "mapping" /\ Out = First(Tx) /\ BlkHeight = TipHeight /\ Allowed(Tx, TipHeight)
    BY <2>1, AtUndoing
  <2>3. ~(Out.key[1] \in V4Mappings /\ BlkHeight < V4Start)
    <3>1. TipHeight \in Nat /\ V4Start \in Nat
      BY ChainSeq, HeightsAssumption
    <3> QED BY <2>2, <3>1 DEF Allowed, HasType
  <2>4. cache' = [cache EXCEPT !["mappings"] = cache["mappings"] \ {First(Tx).key}]
    BY <1>2, <2>2, <2>3 DEF UndoMapping, Advance
  <2>5. Keys("mappings", Tx, TipHeight) = {First(Tx).key}
    BY <1>0, <2>2 DEF Keys, Key, Makes, HasType, BetDbs
  <2>6. cache["mappings"] \ {First(Tx).key} = Without("mappings", cache["mappings"], Keys("mappings", Tx, TipHeight))
    BY <1>0, <2>5 DEF Without
  <2>7. \A o \in Dbs : o = "mappings" \/ Keys(o, Tx, TipHeight) = {}
    BY <2>2, OwnDbs
  <2> QED BY <1>0, <1>s, <2>1, <2>2, <2>4, <2>6, <2>7, PlainDisconnecting
<1>3. CASE UndoPlEvent
  <2>1. Undoing("plEvent")
    BY <1>3 DEF UndoPlEvent
  <2>2. AtOutput /\ First(Tx).type = "plEvent" /\ Out = First(Tx)
    BY <2>1, AtUndoing
  <2>4. cache' = [cache EXCEPT !["events"] = DbErase(cache["events"], First(Tx).event)]
    BY <1>3, <2>2 DEF UndoPlEvent, Advance
  <2>5. Keys("events", Tx, TipHeight) = {First(Tx).event}
    BY <1>0, <2>2 DEF Keys, Key, Makes, HasType, BetDbs
  <2>6. DbErase(cache["events"], First(Tx).event) = Without("events", cache["events"], Keys("events", Tx, TipHeight))
    BY <1>0, <2>5, ErasedDb
  <2>7. \A o \in Dbs : o = "events" \/ Keys(o, Tx, TipHeight) = {}
    BY <2>2, OwnDbs
  <2> QED BY <1>0, <1>s, <2>1, <2>2, <2>4, <2>6, <2>7, PlainDisconnecting
<1>4. CASE UndoPlResult
  <2>1. Undoing("plResult")
    BY <1>4 DEF UndoPlResult
  <2>2. AtOutput /\ First(Tx).type = "plResult" /\ Out = First(Tx)
    BY <2>1, AtUndoing
  <2>4. cache' = [cache EXCEPT !["results"] = DbErase(cache["results"], First(Tx).event)]
    BY <1>4, <2>2 DEF UndoPlResult, Advance
  <2>5. Keys("results", Tx, TipHeight) = {First(Tx).event}
    BY <1>0, <2>2 DEF Keys, Key, Makes, HasType, BetDbs
  <2>6. DbErase(cache["results"], First(Tx).event) = Without("results", cache["results"], Keys("results", Tx, TipHeight))
    BY <1>0, <2>5, ErasedDb
  <2>7. \A o \in Dbs : o = "results" \/ Keys(o, Tx, TipHeight) = {}
    BY <2>2, OwnDbs
  <2> QED BY <1>0, <1>s, <2>1, <2>2, <2>4, <2>6, <2>7, PlainDisconnecting
<1>5. CASE UndoPlZeroing
  <2>1. Undoing("plZeroing")
    BY <1>5 DEF UndoPlZeroing
  <2>2. AtOutput /\ First(Tx).type = "plZeroing" /\ Out = First(Tx) /\ UndoKey = <<Tx.id, 1>>
    BY <2>1, AtUndoing
  <2>3. Saves(Tx) /\ HasType(Tx, V4Types) /\ \A i \in DOMAIN Out.events : NamesEvent(Tx, Out.events[i])
    BY <2>2 DEF Saves, HasType, RecordTypes, V4Types, NamesEvent
  <2>4. BlkHeight >= V4Start
    BY <2>1, <2>3, AtUndoing, ChainSeq, HeightsAssumption DEF Allowed
  <2>5. cache' = UndoEventChanges(cache, UndoKey) /\ UndoKey \in DOMAIN cache.undos
    BY <1>5, <2>1, <2>3, <2>4, AtUndoing DEF UndoPlZeroing, RevertOr, Advance
  <2>6. \A o \in Dbs : Keys(o, Tx, TipHeight) = {}
    BY <2>2, OwnDbs
  <2> QED BY <2>2, <2>3, <2>5, <2>6, UpdateDisconnecting
<1>6. ASSUME NEW type \in PlUpdates, UndoPlUpdate(type) PROVE Disconnecting
  <2>1. Undoing(type)
    BY <1>6 DEF UndoPlUpdate
  <2>2. AtOutput /\ First(Tx).type \in PlUpdates /\ Out = First(Tx) /\ UndoKey = <<Tx.id, 1>>
    BY <2>1, AtUndoing
  <2>3. Saves(Tx) /\ NamesEvent(Tx, Out.event)
    BY <2>2 DEF Saves, HasType, RecordTypes, NamesEvent, PlUpdates
  <2>5. cache' = UndoEventChanges(cache, UndoKey) /\ UndoKey \in DOMAIN cache.undos
    BY <1>6, <2>1, <2>3, AtUndoing DEF UndoPlUpdate, RevertOr, Advance
  <2>6. \A o \in Dbs : Keys(o, Tx, TipHeight) = {}
    BY <2>2, OwnDbs
  <2> QED BY <2>2, <2>3, <2>5, <2>6, UpdateDisconnecting
<1> QED BY <1>n, <1>1, <1>2, <1>3, <1>4, <1>5, <1>6
        DEF PeerlessStep, ProcessPlBet, ProcessPlParlayBet, ProcessMapping, ProcessPlEvent, ProcessPlResult,
            ProcessPlZeroing, ProcessPlUpdate

\* Outputs about field events.
LEMMA FieldDisconnecting ==
    ASSUME Ordinary, NoGames, TypeOK, UInv, AllDbs(cache), mode = "disconnect", FieldStep
    PROVE  Disconnecting
<1>0. {"fieldEvents", "fieldBets"} \subseteq Dbs \ SetDbs /\ "fieldBets" \notin EventDbs
  BY DEF Dbs, BetDbs, SetDbs, EventDbs
<1>n. ASSUME NEW type, Processing(type) PROVE FALSE
  BY <1>n DEF Processing, Handles
<1>v. ASSUME NEW type \in V4Types, Undoing(type) PROVE BlkHeight >= V4Start
  <2>1. First(Tx).type = type /\ BlkHeight = TipHeight /\ Allowed(Tx, TipHeight)
    BY <1>v, AtUndoing
  <2> QED BY <2>1, ChainSeq, HeightsAssumption DEF Allowed, HasType
<1>1. ASSUME NEW type \in {"fBet", "fParlayBet"}, UndoFieldBet(type) PROVE Disconnecting
  <2>1. Undoing(type) /\ type \in V4Types
    BY <1>1 DEF UndoFieldBet, V4Types
  <2>2. /\ AtOutput /\ First(Tx).type \in {"fBet", "fParlayBet"} /\ Out = First(Tx) /\ Tx \in Txs
        /\ BlkHeight = TipHeight /\ UndoKey = <<Tx.id, 1>>
    BY <2>1, AtUndoing
  <2>3. \A o \in Dbs : o = "fieldBets" \/ Keys(o, Tx, TipHeight) = {}
    BY <2>2, OwnDbs
  <2>4. CASE Out.legs = <<>>
    <3>1. ~(First(Tx).type = "fBet")
      <4>1. First(Tx).type = "fBet" => DOMAIN Out.legs = {1}
        BY <2>2 DEF Ordinary, HasType
      <4>2. DOMAIN Out.legs = {}
        BY <2>4
      <4> QED BY <4>1, <4>2
    <3>2. ~Saves(Tx) /\ cache' = cache
      BY <1>1, <2>2, <2>4, <3>1 DEF Saves, HasType, UndoFieldBet, Advance
    <3>3. Keys("fieldBets", Tx, TipHeight) = {}
      BY <3>2 DEF Keys
    <3>4. Without("fieldBets", cache["fieldBets"], Keys("fieldBets", Tx, TipHeight)) = cache["fieldBets"]
      BY <1>0, <3>3, WithoutNone DEF AllDbs
    <3>5. cache' = [cache EXCEPT !["fieldBets"] = cache["fieldBets"]]
      BY <3>2 DEF TypeOK, IsView, Databases
    <3> QED BY <1>0, <2>2, <2>3, <3>2, <3>4, <3>5, PlainDisconnecting
  <2>5. CASE Out.legs # <<>>
    <3>1. Saves(Tx)
      BY <2>2, <2>5 DEF Saves, HasType, RecordTypes
    <3>2. \A i \in DOMAIN Out.legs : NamesFieldEvent(Tx, Out.legs[i].event)
      BY <2>2 DEF NamesFieldEvent, HasType, OnLegs
    <3>3. UndoKey \in DOMAIN cache.undos
      BY <2>1, <3>1, AtUndoing
    <3>4. cache' = [UndoEventChanges(cache, UndoKey) EXCEPT !.fieldBets = DbErase(@, BetKey)]
      BY <1>1, <1>v, <2>1, <2>5, <3>2, <3>3, AtUndoing DEF UndoFieldBet, RevertOr, Advance
    <3>5. Keys("fieldBets", Tx, TipHeight) = {BetKey}
      BY <1>0, <2>2, <3>1, AtTx DEF Keys, Key, Makes, HasType, BetKey, BetDbs
    <3>6. DbErase(cache.fieldBets, BetKey) = Without("fieldBets", cache["fieldBets"], Keys("fieldBets", Tx, TipHeight))
      BY <1>0, <3>5, ErasedDb
    <3>7. UndoEventChanges(cache, UndoKey).fieldBets = cache.fieldBets
      BY DEF UndoEventChanges, TypeOK, IsView, Databases
    <3>8. cache' = [UndoEventChanges(cache, UndoKey) EXCEPT !["fieldBets"] = Without("fieldBets", cache["fieldBets"], Keys("fieldBets", Tx, TipHeight))]
      BY <3>4, <3>6, <3>7
    <3> QED BY <1>0, <2>2, <2>3, <3>1, <3>3, <3>8, RevertDisconnecting
  <2> QED BY <2>4, <2>5
<1>3. CASE UndoFEvent
  <2>1. Undoing("fEvent") /\ "fEvent" \in V4Types
    BY <1>3 DEF UndoFEvent, V4Types
  <2>2. AtOutput /\ First(Tx).type = "fEvent" /\ Out = First(Tx)
    BY <2>1, AtUndoing
  <2>3. ~Saves(Tx)
    BY <2>2 DEF Saves, HasType, RecordTypes, PlUpdates, FieldUpdates
  <2>4. cache' = [cache EXCEPT !["fieldEvents"] = DbErase(cache["fieldEvents"], First(Tx).event)]
    BY <1>3, <1>v, <2>1, <2>2 DEF UndoFEvent, Advance
  <2>5. Keys("fieldEvents", Tx, TipHeight) = {First(Tx).event}
    BY <1>0, <2>2 DEF Keys, Key, Makes, HasType, BetDbs
  <2>6. DbErase(cache["fieldEvents"], First(Tx).event) = Without("fieldEvents", cache["fieldEvents"], Keys("fieldEvents", Tx, TipHeight))
    BY <1>0, <2>5, ErasedDb
  <2>7. \A o \in Dbs : o = "fieldEvents" \/ Keys(o, Tx, TipHeight) = {}
    BY <2>2, OwnDbs
  <2> QED BY <1>0, <2>2, <2>3, <2>4, <2>6, <2>7, PlainDisconnecting
<1>6. ASSUME NEW type \in FieldUpdates, UndoFUpdate(type) PROVE Disconnecting
  <2>1. Undoing(type) /\ type \in V4Types
    BY <1>6 DEF UndoFUpdate, V4Types
  <2>2. AtOutput /\ First(Tx).type \in FieldUpdates /\ Out = First(Tx) /\ UndoKey = <<Tx.id, 1>>
    BY <2>1, AtUndoing
  <2>3. Saves(Tx) /\ NamesFieldEvent(Tx, Out.event)
    BY <2>2 DEF Saves, HasType, RecordTypes, NamesFieldEvent, FieldUpdates
  <2>5. cache' = UndoEventChanges(cache, UndoKey) /\ UndoKey \in DOMAIN cache.undos
    BY <1>6, <1>v, <2>1, <2>3, AtUndoing DEF UndoFUpdate, RevertOr, Advance
  <2>6. \A o \in Dbs : Keys(o, Tx, TipHeight) = {}
    BY <2>2, OwnDbs
  <2> QED BY <2>2, <2>3, <2>5, <2>6, UpdateDisconnecting
<1> QED BY <1>n, <1>1, <1>3, <1>6, NoGamesStep
        DEF FieldStep, ProcessFBet, ProcessFParlayBet, ProcessFEvent, ProcessFResult, ProcessFUpdate

\* Every step of DisconnectBlock that handles an output.
LEMMA OutputDisconnecting ==
    ASSUME Ordinary, NoGames, TypeOK, UInv, AllDbs(cache), mode = "disconnect", OutputAction
    PROVE  Disconnecting
BY NothingSkipped, NoGamesStep, PeerlessDisconnecting, FieldDisconnecting DEF OutputAction

-----------------------------------------------------------------------------
\* The databases as the blocks of the chain have made them.

\* The bets have an invariant of their own, since blocks settle them.
ODbs == Dbs \ {"bets"}

\* The height of block i of the chain.
Height(i) == BaseHeight + i - 1

\* The databases hold what they can at this height: field bets are filed under
\* the heights of their blocks, and there is none on a quick game.
Sound(v, h) ==
    /\ AllDbs(v)
    /\ DOMAIN v.quickGamesBets = {}
    /\ \A k \in DOMAIN v.fieldBets : k[1] \in Nat /\ k[1] <= h

\* The entries of a transaction are none of those of a.
IsNew(tx, h, a) == \A d \in ODbs : Keys(d, tx, h) \cap Dom(d, a[d]) = {}

\* Two views that agree on these databases.
SameDbs(r, s) == \A d \in Dbs : r[d] = s[d]

(* The first m transactions of a block at height h have led from the databases
   a through the stages s[0] to s[m]. *)
Made(txs, h, a, s, m, undos) ==
    /\ \A d \in ODbs : s[0][d] = a[d]
    /\ \A j \in 1 .. m : Trace(txs[j], h, s[j - 1], s[j], undos)
    /\ \A j \in 1 .. m : IsNew(txs[j], h, a)

\* Block i has led from the databases of the block before to those it has left.
BlockMade(i) == \E s :
    /\ Made(chain[i].txs, Height(i), chain[i - 1].after, s, Len(chain[i].txs), cache.undos)
    /\ \A d \in ODbs : s[Len(chain[i].txs)][d] = chain[i].after[d]

\* How many transactions of the block are handled.
HandledCount == IF pos.tx = 0 THEN 0 ELSE IF pos.out > 1 THEN pos.tx ELSE pos.tx - 1

\* The keys of the transactions of the block that are undone already.
LaterKeys(d) == UNION {Keys(d, blk.txs[j], TipHeight) : j \in pos.tx + 1 .. Len(blk.txs)}

\* The block at hand, as far as it is connected.
Building == \E s :
    /\ Made(blk.txs, BlkHeight, view, s, HandledCount, cache.undos)
    /\ SameDbs(cache, s[HandledCount])

\* The block at hand, as far as it is not yet disconnected.
Unbuilding == \E s :
    /\ Made(blk.txs, TipHeight, chain[Len(chain) - 1].after, s, Len(blk.txs), cache.undos)
    /\ \A d \in ODbs : cache[d] = Without(d, s[pos.tx][d], LaterKeys(d))

(* The inductive invariant of restoring.  Every block of the chain has a history
   of stages, one per transaction, each of which left its trace on the stage
   before; the undo records of the block are about these stages.  While a block
   is connected its history grows, while it is disconnected the databases are
   those of an earlier stage. *)
RInv ==
    /\ \A i \in 2 .. Len(chain) : BlockMade(i)
    /\ \A i \in 1 .. Len(chain) : Sound(chain[i].after, Height(i))
    /\ \A d \in ODbs : view[d] = chain[Len(chain)].after[d]
    /\ Sound(view, TipHeight) /\ Sound(cache, BlkHeight)
    /\ mode = "connect" => Building
    /\ mode = "disconnect" => Unbuilding

\* A trace is about the record of its own transaction only.
LEMMA TraceSame ==
    ASSUME NEW tx, NEW h, NEW s, NEW t, NEW u, NEW w, Trace(tx, h, s, t, u),
           <<tx.id, 1>> \in DOMAIN w => <<tx.id, 1>> \in DOMAIN u /\ w[<<tx.id, 1>>] = u[<<tx.id, 1>>]
    PROVE  Trace(tx, h, s, t, w)
BY DEF Trace, Record

\* The stages of a block stay what they are while its records do.
LEMMA MadeSame ==
    ASSUME NEW txs, NEW ys, NEW h, NEW a, NEW b, NEW s, NEW m, NEW u, NEW w, Made(txs, h, a, s, m, u),
           \A j \in 1 .. m : ys[j] = txs[j],
           \A d \in ODbs : b[d] = a[d],
           \A j \in 1 .. m : LET k == <<txs[j].id, 1>> IN k \in DOMAIN w => k \in DOMAIN u /\ w[k] = u[k]
    PROVE  Made(ys, h, b, s, m, w)
<1>1. \A d \in ODbs : s[0][d] = b[d]
  BY DEF Made
<1>2. ASSUME NEW j \in 1 .. m PROVE Trace(ys[j], h, s[j - 1], s[j], w)
  BY <1>2, TraceSame DEF Made
<1>3. \A j \in 1 .. m : IsNew(ys[j], h, b)
  BY DEF Made, IsNew
<1> QED BY <1>1, <1>2, <1>3 DEF Made

\* One more transaction.
More(s, m, t) == [j \in 0 .. m + 1 |-> IF j <= m THEN s[j] ELSE t]

LEMMA MadeMore ==
    ASSUME NEW txs, NEW h, NEW a, NEW s, NEW m \in Nat, NEW n, n = m + 1, NEW u, NEW t, NEW r, Made(txs, h, a, s, m, u),
           SameDbs(r, s[m]),
           Trace(txs[n], h, r, t, u),
           IsNew(txs[n], h, a)
    PROVE  Made(txs, h, a, More(s, m, t), n, u) /\ More(s, m, t)[n] = t
<1> DEFINE z == More(s, m, t)
<1>1. z[m + 1] = t /\ \A j \in 0 .. m : z[j] = s[j]
  BY DEF More
<1>2. Trace(txs[m + 1], h, s[m], t, u)
  BY DEF Trace, SameDbs
<1> HIDE DEF z
<1>3. ASSUME NEW j \in 1 .. m + 1 PROVE Trace(txs[j], h, z[j - 1], z[j], u)
  <2>1. CASE j = m + 1
    BY <1>1, <1>2, <2>1
  <2>2. CASE j # m + 1
    <3>1. j \in 1 .. m /\ j - 1 \in 0 .. m /\ j \in 0 .. m
      BY <2>2
    <3> QED BY <1>1, <3>1 DEF Made
  <2> QED BY <2>1, <2>2
<1>4. \A d \in ODbs : z[0][d] = a[d]
  BY <1>1 DEF Made
<1>5. \A j \in 1 .. m + 1 : IsNew(txs[j], h, a)
  BY DEF Made
<1>6. Made(txs, h, a, z, m + 1, u)
  BY <1>3, <1>4, <1>5 DEF Made
<1> QED BY <1>1, <1>6 DEF z

\* The entries of the transaction at hand are new to the block.
LEMMA NewKeys ==
    ASSUME Ordinary, NoGames, TypeOK, UInv, RInv, mode = "connect", AtOutput
    PROVE  IsNew(Tx, BlkHeight, view)
<1> SUFFICES ASSUME NEW d \in ODbs PROVE Keys(d, Tx, BlkHeight) \cap Dom(d, view[d]) = {}
  BY DEF IsNew
<1>1. CheckBettingTx(Tx) /\ BlkHeight = TipHeight + 1 /\ TipHeight \in Nat /\ Tx \in Txs
  BY AtChecked, AtTx
<1>2. /\ First(Tx).type = "mapping" => First(Tx).key \notin view.mappings
      /\ First(Tx).type = "plEvent" => First(Tx).event \notin DOMAIN view.events
      /\ First(Tx).type = "fEvent" => First(Tx).event \notin DOMAIN view.fieldEvents
  BY <1>1, CheckedOutput DEF CheckMapping, CheckPlEvent, CheckFEvent
<1>3. First(Tx).type = "plResult" => First(Tx).event \notin DOMAIN view.results
  BY <1>1 DEF CheckBettingTx, CheckPlResult, First, PlUpdates, FieldUpdates
<1>4. <<BlkHeight, Tx.id, 1>> \notin DOMAIN view.fieldBets
  BY <1>1 DEF RInv, Sound
<1>5. ~HasType(Tx, GameTypes \cup {"fResult"})
  BY <1>1 DEF NoGames
<1>6. d \in {"mappings", "events", "results", "fieldEvents", "fieldResults", "chainGamesLottoEvents",
             "chainGamesLottoResults", "fieldBets", "chainGamesLottoBets", "quickGamesBets"}
  BY DEF ODbs, Dbs, BetDbs
<1> QED BY <1>2, <1>3, <1>4, <1>5, <1>6 DEF Keys, Key, Makes, HasType, Dbs, BetDbs, Dom, SetDbs, GameTypes

\* What a connected output leaves is sound.
LEMMA TraceSound ==
    ASSUME Ordinary, NoGames, NEW tx \in Txs, NEW h \in Nat, NEW s, NEW t, NEW u, Sound(s, h), Trace(tx, h, s, t, u)
    PROVE  Sound(t, h)
<1>1. AllDbs(t)
  BY DEF Trace, AllDbs
<1>2. ASSUME NEW d \in {"bets", "fieldBets", "quickGamesBets"}
      PROVE  \A k \in DOMAIN t[d] : k \in DOMAIN s[d] \/ k \in Keys(d, tx, h)
  <2>1. d \in Dbs /\ d \notin EventDbs /\ d \notin SetDbs
    BY DEF Dbs, BetDbs, EventDbs, SetDbs
  <2>2. Without(d, t[d], Keys(d, tx, h)) = Without(d, s[d], Keys(d, tx, h))
    BY <2>1 DEF Trace
  <2>3. DOMAIN t[d] \ Keys(d, tx, h) = DOMAIN s[d] \ Keys(d, tx, h)
    BY <2>1, <2>2, WithoutDb DEF Dom
  <2> QED BY <2>3
<1>3. /\ Keys("quickGamesBets", tx, h) = {}
      /\ \A d \in {"bets", "fieldBets"} : \A k \in Keys(d, tx, h) : k[1] = h
  BY DEF NoGames, Keys, Key, Makes, HasType, Dbs, BetDbs, GameTypes
<1> QED BY <1>1, <1>2, <1>3 DEF Sound

\* Records of mined transactions are not touched when one is added.
LEMMA MinedRecords ==
    ASSUME Ordinary, TypeOK, UInv, ConnectsOutput, NEW tx \in Txs, tx # Tx
    PROVE  LET k == <<tx.id, 1>>
           IN  k \in DOMAIN cache'.undos => k \in DOMAIN cache.undos /\ cache'.undos[k] = cache.undos[k]
<1>1. AtOutput /\ \E c : Processed(c) /\ MovesTo(c)
  BY DEF ConnectsOutput
<1>2. \/ cache'.undos = cache.undos
      \/ \E r : cache'.undos = Put(cache.undos, <<Tx.id, 1>>, r)
  BY <1>1 DEF Processed, MovesTo
<1>3. <<tx.id, 1>> # <<Tx.id, 1>>
  BY <1>1, AtTx DEF Ordinary
<1> DEFINE k == <<tx.id, 1>>
<1>4. k # <<Tx.id, 1>>
  BY <1>3
<1> HIDE DEF k
<1>5. k \in DOMAIN cache'.undos => k \in DOMAIN cache.undos /\ cache'.undos[k] = cache.undos[k]
  <2>1. CASE cache'.undos = cache.undos
    BY <2>1
  <2>2. CASE \E r : cache'.undos = Put(cache.undos, <<Tx.id, 1>>, r)
    <3>1. PICK r : cache'.undos = Put(cache.undos, <<Tx.id, 1>>, r)
      BY <2>2
    <3> QED BY <1>4, <3>1 DEF Put
  <2> QED BY <1>2, <2>1, <2>2
<1> QED BY <1>5 DEF k

\* Connecting an output.
LEMMA ConnectingBuilds ==
    ASSUME Ordinary, NoGames, TypeOK, UInv, RInv, ConnectsOutput, Connecting
    PROVE  RInv'
<1>1. mode = "connect" /\ AtOutput
  BY DEF Connecting
<1>2. /\ pos' = NextPos /\ blk'.txs = blk.txs /\ view' = view /\ chain' = chain /\ mode' = mode
  BY DEF ConnectsOutput, MovesTo
<1>3. BlkHeight' = BlkHeight /\ TipHeight' = TipHeight /\ BlkHeight \in Nat
  BY <1>2, ChainSeq DEF BlkHeight, TipHeight
<1>4. /\ pos.tx \in 1 .. Len(blk.txs) /\ pos.out = 1 /\ Tx = blk.txs[pos.tx] /\ Tx \in Txs
      /\ \A j \in 1 .. Len(blk.txs) : blk.txs[j] \in Txs
      /\ pos.tx = Len(blk.txs) /\ Len(blk.txs) \in Nat
  BY <1>1, AtTx DEF TypeOK, PosOK
<1>5. HandledCount = pos.tx - 1 /\ HandledCount' = pos.tx
  <2>1. pos'.tx = pos.tx /\ pos'.out = 2
    BY <1>1, <1>2, <1>4 DEF NextPos, TypeOK, PosOK
  <2> QED BY <1>4, <2>1 DEF HandledCount
<1>o. Once
  BY <1>1 DEF UInv
<1>6. Building'
  <2>1. PICK s : /\ Made(blk.txs, BlkHeight, view, s, pos.tx - 1, cache.undos)
                 /\ SameDbs(cache, s[pos.tx - 1])
    BY <1>1, <1>5 DEF RInv, Building
  <2>2. Made(blk.txs, BlkHeight, view, s, pos.tx - 1, cache'.undos)
    <3>1. ASSUME NEW j \in 1 .. pos.tx - 1
          PROVE  LET k == <<blk.txs[j].id, 1>>
                 IN  k \in DOMAIN cache'.undos => k \in DOMAIN cache.undos /\ cache'.undos[k] = cache.undos[k]
      <4>1. blk.txs[j] # Tx /\ blk.txs[j] \in Txs
        BY <1>1, <1>4, <1>o, AtTx DEF Once
      <4> QED BY <4>1, MinedRecords
    <3> QED BY <2>1, <3>1, MadeSame
  <2>3. Trace(blk.txs[pos.tx], BlkHeight, cache, cache', cache'.undos)
    BY <1>4 DEF Connecting
  <2>4. IsNew(blk.txs[pos.tx], BlkHeight, view)
    BY <1>1, <1>4, NewKeys
  <2> DEFINE m == pos.tx - 1
             n == pos.tx
  <2>5. m \in Nat /\ n = m + 1
    BY <1>4
  <2>6. /\ Made(blk.txs, BlkHeight, view, s, m, cache'.undos)
        /\ SameDbs(cache, s[m])
        /\ Trace(blk.txs[n], BlkHeight, cache, cache', cache'.undos)
        /\ IsNew(blk.txs[n], BlkHeight, view)
    BY <2>1, <2>2, <2>3, <2>4
  <2> HIDE DEF m, n
  <2>7. Made(blk.txs, BlkHeight, view, More(s, m, cache'), n, cache'.undos)
    BY <2>5, <2>6, MadeMore
  <2>8. More(s, m, cache')[n] = cache'
    BY <2>5 DEF More
  <2>9. PICK z : Made(blk.txs, BlkHeight, view, z, pos.tx, cache'.undos) /\ z[pos.tx] = cache'
    BY <2>7, <2>8 DEF n
  <2> QED BY <1>2, <1>3, <1>5, <2>9 DEF Building, SameDbs
<1>7. ASSUME NEW i \in 2 .. Len(chain) PROVE BlockMade(i)'
  <2>1. PICK s :
          /\ Made(chain[i].txs, Height(i), chain[i - 1].after, s, Len(chain[i].txs), cache.undos)
          /\ \A d \in ODbs : s[Len(chain[i].txs)][d] = chain[i].after[d]
    BY DEF RInv, BlockMade
  <2>2. ASSUME NEW j \in 1 .. Len(chain[i].txs)
        PROVE  LET k == <<chain[i].txs[j].id, 1>>
               IN  k \in DOMAIN cache'.undos => k \in DOMAIN cache.undos /\ cache'.undos[k] = cache.undos[k]
    <3>1. i \in DOMAIN chain /\ chain[i].txs \in Seq(Txs)
      BY ChainSeq
    <3>2. chain[i].txs[j] \in Txs /\ j \in DOMAIN chain[i].txs
      BY <3>1, LenProperties, ElementOfSeq
    <3>3. chain[i].txs[j] # Tx
      BY <1>1, <1>4, <1>o, <3>1, <3>2, AtTx DEF Once, InChain, ToSet
    <3> QED BY <3>2, <3>3, MinedRecords
  <2>3. Made(chain[i].txs, Height(i), chain[i - 1].after, s, Len(chain[i].txs), cache'.undos)
    BY <2>1, <2>2, MadeSame
  <2> QED BY <1>2, <2>1, <2>3 DEF BlockMade, Height
<1>8. Sound(cache, BlkHeight)'
  <2>1. Sound(cache', BlkHeight)
    BY <1>3, <1>4, TraceSound DEF RInv, Connecting
  <2> QED BY <1>3, <2>1 DEF Sound, AllDbs, IsDb
<1> QED BY <1>1, <1>2, <1>3, <1>6, <1>7, <1>8 DEF RInv, Sound, AllDbs, IsDb, Height

\* Reverting events and leaving entries out can be swapped.
LEMMA RestoreWithout ==
    ASSUME NEW d \in EventDbs, NEW db, NEW K, NEW vUndos, NEW kind
    PROVE  RestoreEvents(Without(d, db, K), vUndos, kind) = Without(d, RestoreEvents(db, vUndos, kind), K)
<1> DEFINE Saved(e) == {i \in DOMAIN vUndos : vUndos[i].kind = kind /\ vUndos[i].id = e}
           Back(x, e) == IF Saved(e) = {} THEN x[e] ELSE vUndos[Max(Saved(e))].event
           w == Without(d, db, K)
           r == RestoreEvents(db, vUndos, kind)
<1>1. d \notin SetDbs
  BY DEF EventDbs, SetDbs
<1>2. \A x : RestoreEvents(x, vUndos, kind) = [e \in DOMAIN x |-> Back(x, e)]
  BY DEF RestoreEvents
<1>3. w = [e \in DOMAIN db \ K |-> db[e]]
  BY <1>1 DEF Without, Restrict
<1>4. r = [e \in DOMAIN db |-> Back(db, e)]
  BY <1>2
<1>5. Without(d, r, K) = [e \in DOMAIN r \ K |-> r[e]]
  BY <1>1 DEF Without, Restrict
<1>6. \A e \in DOMAIN w : Back(w, e) = Back(db, e)
  BY <1>3
<1>7. RestoreEvents(w, vUndos, kind) = [e \in DOMAIN w |-> Back(w, e)]
  BY <1>2
<1> HIDE DEF w, r, Back
<1>8. RestoreEvents(w, vUndos, kind) = [e \in DOMAIN db \ K |-> Back(db, e)]
  BY <1>3, <1>6, <1>7
<1>9. Without(d, r, K) = [e \in DOMAIN db \ K |-> Back(db, e)]
  BY <1>4, <1>5
<1> QED BY <1>8, <1>9 DEF w, r

\* The record of an output is there when it is disconnected.
LEMMA RecordAt ==
    ASSUME Ordinary, TypeOK, UInv, mode = "disconnect", AtOutput, Saves(Tx)
    PROVE  <<Tx.id, 1>> \in DOMAIN cache.undos
<1>1. TipHeight \in Nat
  BY ChainSeq
<1>2. MinedAt(Tx, TipHeight)
  <2>1. Len(chain) \in DOMAIN chain /\ pos.tx \in DOMAIN chain[Len(chain)].txs
            /\ Tx = chain[Len(chain)].txs[pos.tx]
    BY AtTx, ChainSeq DEF UInv, Once
  <2> QED BY <2>1, ChainSeq DEF MinedAt
<1>3. Handled(Tx, TipHeight)
  BY <1>2, AtTx DEF Handled
<1> QED BY <1>1, <1>3, AtTx DEF UInv, RecordsKept

\* Disconnecting an output.
LEMMA DisconnectingUnbuilds ==
    ASSUME Ordinary, NoGames, TypeOK, UInv, RInv, DisconnectsOutput, Disconnecting
    PROVE  RInv'
<1>1. mode = "disconnect" /\ AtOutput
  BY DEF Disconnecting
<1>2. /\ pos' = NextPos /\ blk'.txs = blk.txs /\ view' = view /\ chain' = chain /\ mode' = mode
  BY DEF DisconnectsOutput, MovesTo
<1>3. BlkHeight' = BlkHeight /\ TipHeight' = TipHeight /\ BlkHeight = TipHeight
  BY <1>1, <1>2 DEF BlkHeight, TipHeight
<1>4. /\ pos.tx \in 1 .. Len(blk.txs) /\ pos.out = 1 /\ Tx = blk.txs[pos.tx] /\ Tx \in Txs
      /\ Len(blk.txs) \in Nat
  BY <1>1, AtTx
<1>5. pos'.tx = pos.tx - 1
  BY <1>1, <1>2, <1>4 DEF NextPos
<1>u. \A k : k \in DOMAIN cache'.undos => k \in DOMAIN cache.undos /\ cache'.undos[k] = cache.undos[k]
  <2>1. PICK c : Undone(c) /\ cache' = c
    BY DEF DisconnectsOutput, MovesTo
  <2> QED BY <2>1 DEF Undone, DbErase, Restrict
<1>6. Unbuilding'
  <2>1. PICK s : /\ Made(blk.txs, TipHeight, chain[Len(chain) - 1].after, s, Len(blk.txs), cache.undos)
                 /\ \A d \in ODbs : cache[d] = Without(d, s[pos.tx][d], LaterKeys(d))
    BY <1>1 DEF RInv, Unbuilding
  <2>2. Made(blk.txs, TipHeight, chain[Len(chain) - 1].after, s, Len(blk.txs), cache'.undos)
    BY <1>u, <2>1, MadeSame
  <2>3. Trace(Tx, TipHeight, s[pos.tx - 1], s[pos.tx], cache.undos)
    BY <1>4, <2>1 DEF Made
  <2>4. ASSUME NEW d \in ODbs PROVE LaterKeys(d)' = LaterKeys(d) \cup Keys(d, Tx, TipHeight)
    <3>1. (pos.tx - 1) + 1 .. Len(blk.txs) = {pos.tx} \cup (pos.tx + 1 .. Len(blk.txs))
      BY <1>4
    <3>2. LaterKeys(d)' = UNION {Keys(d, blk.txs[j], TipHeight) : j \in (pos.tx - 1) + 1 .. Len(blk.txs)}
      BY <1>2, <1>3, <1>5 DEF LaterKeys
    <3> QED BY <1>4, <3>1, <3>2 DEF LaterKeys
  <2>5. ASSUME NEW d \in ODbs PROVE cache'[d] = Without(d, s[pos.tx - 1][d], LaterKeys(d)')
    <3> DEFINE K == Keys(d, Tx, TipHeight)
               L == LaterKeys(d)
               x == s[pos.tx - 1][d]
               y == s[pos.tx][d]
    <3>1. d \in Dbs /\ cache[d] = Without(d, y, L) /\ LaterKeys(d)' = L \cup K
      BY <2>1, <2>4 DEF ODbs
    <3>2. CASE ~(Saves(Tx) /\ d \in EventDbs)
      <4>1. cache'[d] = Without(d, Without(d, y, L), K)
        BY <3>1, <3>2 DEF Disconnecting
      <4>2. Without(d, y, K) = Without(d, x, K)
        BY <2>3, <3>1, <3>2 DEF Trace
      <4> HIDE DEF K, L, x, y
      <4>3. Without(d, Without(d, y, L), K) = Without(d, y, K \cup L)
        <5>1. L \cup K = K \cup L
          OBVIOUS
        <5> QED BY <5>1, WithoutTwo
      <4>4. Without(d, Without(d, y, K), L) = Without(d, y, K \cup L)
        BY WithoutTwo
      <4>5. Without(d, Without(d, x, K), L) = Without(d, x, K \cup L)
        BY WithoutTwo
      <4>6. cache'[d] = Without(d, x, K \cup L) /\ K \cup L = L \cup K
        BY <4>1, <4>2, <4>3, <4>4, <4>5
      <4> QED BY <3>1, <4>6 DEF x
    <3>3. CASE Saves(Tx) /\ d \in EventDbs
      <4>1. cache'[d] = RestoreEvents(Without(d, y, L), Record(cache.undos, Tx), Kind(d))
        BY <3>1, <3>3 DEF Disconnecting
      <4>2. <<Tx.id, 1>> \in DOMAIN cache.undos
        BY <1>1, <3>3, RecordAt
      <4>3. RestoreEvents(y, Record(cache.undos, Tx), Kind(d)) = x
        BY <2>3, <3>1, <3>3, <4>2 DEF Trace
      <4>4. K = {}
        BY <3>3 DEF Keys, Saves, RecordTypes, EventDbs, Makes, HasType, Dbs, PlUpdates, FieldUpdates
      <4>5. L \cup K = L
        BY <4>4
      <4> HIDE DEF K, L, x, y
      <4>6. cache'[d] = Without(d, RestoreEvents(y, Record(cache.undos, Tx), Kind(d)), L)
        BY <3>3, <4>1, RestoreWithout
      <4>7. cache'[d] = Without(d, x, L)
        BY <4>3, <4>6
      <4> QED BY <3>1, <4>5, <4>7 DEF x
    <3> QED BY <3>2, <3>3
  <2> QED BY <1>2, <1>3, <1>5, <2>2, <2>5 DEF Unbuilding
<1>7. ASSUME NEW i \in 2 .. Len(chain) PROVE BlockMade(i)'
  <2>1. PICK s :
          /\ Made(chain[i].txs, Height(i), chain[i - 1].after, s, Len(chain[i].txs), cache.undos)
          /\ \A d \in ODbs : s[Len(chain[i].txs)][d] = chain[i].after[d]
    BY DEF RInv, BlockMade
  <2>2. Made(chain[i].txs, Height(i), chain[i - 1].after, s, Len(chain[i].txs), cache'.undos)
    BY <1>u, <2>1, MadeSame
  <2> QED BY <1>2, <2>1, <2>2 DEF BlockMade, Height
<1>8. Sound(cache, BlkHeight)'
  <2>1. ASSUME NEW d \in Dbs PROVE IsDb(d, cache'[d]) /\ Dom(d, cache'[d]) \subseteq Dom(d, cache[d])
    <3>1. CASE ~(Saves(Tx) /\ d \in EventDbs)
      <4>1. cache'[d] = Without(d, cache[d], Keys(d, Tx, TipHeight))
        BY <3>1 DEF Disconnecting
      <4> QED BY <4>1, WithoutDb
    <3>2. CASE Saves(Tx) /\ d \in EventDbs
      <4>1. cache'[d] = RestoreEvents(cache[d], Record(cache.undos, Tx), Kind(d))
        BY <3>2 DEF Disconnecting
      <4>2. d \notin SetDbs
        BY <3>2 DEF EventDbs, SetDbs
      <4> QED BY <4>1, <4>2 DEF RestoreEvents, IsDb, Dom
    <3> QED BY <3>1, <3>2
  <2>2. /\ DOMAIN cache'.bets \subseteq DOMAIN cache.bets /\ DOMAIN cache'.fieldBets \subseteq DOMAIN cache.fieldBets
        /\ DOMAIN cache'.quickGamesBets \subseteq DOMAIN cache.quickGamesBets
    BY <2>1 DEF Dom, SetDbs, Dbs, BetDbs
  <2>3. Sound(cache', BlkHeight)
    BY <2>1, <2>2 DEF RInv, Sound, AllDbs
  <2> QED BY <1>3, <2>3 DEF Sound, AllDbs, IsDb
<1> QED BY <1>1, <1>2, <1>3, <1>6, <1>7, <1>8 DEF RInv, Sound, AllDbs, IsDb, Height

-----------------------------------------------------------------------------
\* The odds of the field events.

\* The shape of a field event.
ContenderFields == {"nInputOdds", "nModifier", "odds", "bets", "liability"}
IsContender(c) ==
    /\ c = [f \in ContenderFields |-> c[f]]
    /\ c.bets = [o \in FieldOutcomes |-> c.bets[o]]

\* The fields of a field event.
FieldEventFields == {"nStartTime", "nStage", "nMarketType", "nMarginPercent", "contenders"}
IsField(x) ==
    /\ x = [f \in FieldEventFields |-> x[f]]
    /\ x.contenders = [id \in DOMAIN x.contenders |-> x.contenders[id]]
    /\ \A id \in DOMAIN x.contenders : IsContender(x.contenders[id])

\* What the odds are calculated from.
Priced(x) == {id \in DOMAIN x.contenders : x.contenders[id].nInputOdds # 0}

\* Events that agree on them.
SameInputs(x, y) ==
    /\ x.nMarginPercent = y.nMarginPercent /\ x.nMarketType = y.nMarketType
    /\ Priced(x) = Priced(y)
    /\ \A id \in Priced(x) : /\ x.contenders[id].nInputOdds = y.contenders[id].nInputOdds
                             /\ x.contenders[id].nModifier = y.contenders[id].nModifier

(* What CalcOdds reads (bet_db.cpp, from CalculateFairOdds to
   CalculateMarketOdds): its loops leave contenders without input odds out of
   every sum and give them no odds; of the others they read the input odds and
   the modifiers, of the event the margin and the kind of market. *)
OddsFromInputs ==
    /\ \A x, y : SameInputs(x, y) => \A id \in DOMAIN x.contenders \cap DOMAIN y.contenders :
         \A o \in FieldOutcomes : MarketOdds(x, id, o) = MarketOdds(y, id, o)
    /\ \A x : \A id \in DOMAIN x.contenders :
         x.contenders[id].nInputOdds = 0 => \A o \in FieldOutcomes : MarketOdds(x, id, o) = 0

\* The odds of a contender, were they calculated now.
OddsNow(x, id) == [o \in FieldOutcomes |-> IF IsMarketOpen(x, o) THEN MarketOdds(x, id, o) ELSE 0]

\* All odds of the event are what they would be if they were calculated now.
Fresh(x) == IsField(x) /\ \A id \in DOMAIN x.contenders : x.contenders[id].odds = OddsNow(x, id)

\* CalcOdds changes the odds and nothing else.
LEMMA CalcOddsIs ==
    ASSUME NEW x, IsField(x)
    PROVE  /\ IsField(CalcOdds(x)) /\ DOMAIN CalcOdds(x).contenders = DOMAIN x.contenders
           /\ \A f \in FieldEventFields \ {"contenders"} : CalcOdds(x)[f] = x[f]
           /\ \A id \in DOMAIN x.contenders :
                CalcOdds(x).contenders[id] = [x.contenders[id] EXCEPT !.odds = OddsNow(x, id)]
<1>1. PICK cs : cs = [id \in DOMAIN x.contenders |-> [x.contenders[id] EXCEPT !.odds = OddsNow(x, id)]]
  OBVIOUS
<1>2. CalcOdds(x) = [x EXCEPT !.contenders = cs]
  BY <1>1, Zenon DEF CalcOdds, OddsNow
<1>3. PICK y : y = CalcOdds(x)
  OBVIOUS
<1>4. y = [f \in FieldEventFields |-> y[f]] /\ y.contenders = cs
      /\ \A f \in FieldEventFields \ {"contenders"} : y[f] = x[f]
  BY <1>2, <1>3 DEF IsField, FieldEventFields
<1>5. \A id \in DOMAIN x.contenders : cs[id] = [x.contenders[id] EXCEPT !.odds = OddsNow(x, id)]
  BY <1>1
<1>6. DOMAIN cs = DOMAIN x.contenders /\ cs = [id \in DOMAIN cs |-> cs[id]]
  BY <1>1
<1>7. ASSUME NEW id \in DOMAIN x.contenders PROVE IsContender(cs[id])
  <2>1. PICK c, odds : c = x.contenders[id] /\ odds = OddsNow(x, id)
    OBVIOUS
  <2>2. cs[id] = [c EXCEPT !.odds = odds] /\ IsContender(c)
    BY <1>5, <2>1 DEF IsField
  <2> QED BY <2>2 DEF IsContender, ContenderFields
<1> QED BY <1>3, <1>4, <1>5, <1>6, <1>7 DEF IsField

\* Calculating fresh odds again changes nothing.
LEMMA FreshCalc == ASSUME NEW x, Fresh(x) PROVE CalcOdds(x) = x
<1>1. IsField(x)
  BY DEF Fresh
<1>2. \A id \in DOMAIN x.contenders : CalcOdds(x).contenders[id] = x.contenders[id]
  <2> SUFFICES ASSUME NEW id \in DOMAIN x.contenders PROVE CalcOdds(x).contenders[id] = x.contenders[id]
    OBVIOUS
  <2>1. PICK c, odds : c = x.contenders[id] /\ odds = OddsNow(x, id)
    OBVIOUS
  <2>2. CalcOdds(x).contenders[id] = [c EXCEPT !.odds = odds] /\ c.odds = odds /\ IsContender(c)
    BY <1>1, <2>1, CalcOddsIs DEF Fresh, IsField
  <2> QED BY <2>1, <2>2 DEF IsContender, ContenderFields
<1>3. CalcOdds(x).contenders = x.contenders
  BY <1>1, <1>2, CalcOddsIs DEF IsField
<1>4. \A f \in FieldEventFields : CalcOdds(x)[f] = x[f]
  BY <1>1, <1>3, CalcOddsIs
<1>5. CalcOdds(x) = [f \in FieldEventFields |-> CalcOdds(x)[f]] /\ x = [f \in FieldEventFields |-> x[f]]
  BY <1>1, CalcOddsIs DEF IsField
<1> QED BY <1>4, <1>5

\* The open markets depend on the inputs only.
LEMMA SameMarkets ==
    ASSUME NEW x, NEW y, SameInputs(x, y)
    PROVE  \A o \in FieldOutcomes : IsMarketOpen(x, o) = IsMarketOpen(y, o)
<1>1. NoneZeroOddsContendersCount(x) = NoneZeroOddsContendersCount(y)
  BY DEF NoneZeroOddsContendersCount, SameInputs, Priced
<1> QED BY <1>1 DEF IsMarketOpen, SameInputs

\* So do the odds.
LEMMA SameOdds ==
    ASSUME OddsFromInputs, NEW x, NEW y, SameInputs(x, y), NEW id \in DOMAIN x.contenders \cap DOMAIN y.contenders
    PROVE  OddsNow(x, id) = OddsNow(y, id)
<1>1. \A o \in FieldOutcomes : IsMarketOpen(x, o) = IsMarketOpen(y, o)
  BY SameMarkets
<1>2. \A o \in FieldOutcomes : MarketOdds(x, id, o) = MarketOdds(y, id, o)
  BY DEF OddsFromInputs
<1> QED BY <1>1, <1>2 DEF OddsNow

\* Calculated odds are fresh.
LEMMA CalcFresh ==
    ASSUME OddsFromInputs, NEW x, IsField(x)
    PROVE  Fresh(CalcOdds(x))
<1>1. PICK y : y = CalcOdds(x)
  OBVIOUS
<1>2. /\ IsField(y) /\ DOMAIN y.contenders = DOMAIN x.contenders
      /\ y.nMarginPercent = x.nMarginPercent /\ y.nMarketType = x.nMarketType
  BY <1>1, CalcOddsIs DEF FieldEventFields
<1>3. ASSUME NEW id \in DOMAIN x.contenders
      PROVE  /\ y.contenders[id].nInputOdds = x.contenders[id].nInputOdds
             /\ y.contenders[id].nModifier = x.contenders[id].nModifier
             /\ y.contenders[id].odds = OddsNow(x, id)
  <2>1. PICK c, odds : c = x.contenders[id] /\ odds = OddsNow(x, id)
    OBVIOUS
  <2>2. y.contenders[id] = [c EXCEPT !.odds = odds] /\ IsContender(c)
    BY <1>1, <2>1, CalcOddsIs DEF IsField
  <2> QED BY <2>1, <2>2 DEF IsContender, ContenderFields
<1>4. SameInputs(x, y)
  BY <1>2, <1>3 DEF SameInputs, Priced
<1>5. \A id \in DOMAIN y.contenders : y.contenders[id].odds = OddsNow(y, id)
  BY <1>2, <1>3, <1>4, SameOdds
<1> QED BY <1>1, <1>2, <1>5 DEF Fresh

\* What a change that leaves the inputs alone makes of fresh odds.
LEMMA StillFresh ==
    ASSUME OddsFromInputs, NEW x, Fresh(x), NEW y, IsField(y), SameInputs(x, y),
           \A id \in DOMAIN x.contenders : id \in DOMAIN y.contenders /\ y.contenders[id].odds = x.contenders[id].odds,
           \A id \in DOMAIN y.contenders : id \notin DOMAIN x.contenders =>
               y.contenders[id].nInputOdds = 0 /\ y.contenders[id].odds = NoCounts
    PROVE  Fresh(y)
<1> SUFFICES ASSUME NEW id \in DOMAIN y.contenders PROVE y.contenders[id].odds = OddsNow(y, id)
  BY DEF Fresh
<1>1. CASE id \in DOMAIN x.contenders
  BY <1>1, SameOdds DEF Fresh
<1>2. CASE id \notin DOMAIN x.contenders
  <2>1. \A o \in FieldOutcomes : MarketOdds(y, id, o) = 0
    BY <1>2 DEF OddsFromInputs
  <2> QED BY <1>2, <2>1 DEF OddsNow, NoCounts
<1> QED BY <1>1, <1>2

\* Putting contenders in.
LEMMA WithContendersIs ==
    ASSUME NEW x, IsField(x), NEW f, f = [id \in DOMAIN f |-> f[id]], \A id \in DOMAIN f : IsContender(f[id]),
           NEW y, y = WithContenders(x, f)
    PROVE  /\ IsField(y) /\ DOMAIN y.contenders = DOMAIN x.contenders \cup DOMAIN f
           /\ \A g \in FieldEventFields \ {"contenders"} : y[g] = x[g]
           /\ \A id \in DOMAIN y.contenders : y.contenders[id] = IF id \in DOMAIN f THEN f[id] ELSE x.contenders[id]
<1>1. PICK cs : cs = [id \in DOMAIN x.contenders \cup DOMAIN f |-> IF id \in DOMAIN f THEN f[id] ELSE x.contenders[id]]
  OBVIOUS
<1>2. y = [x EXCEPT !.contenders = cs]
  BY <1>1, Zenon DEF WithContenders
<1>3. /\ y = [g \in FieldEventFields |-> y[g]] /\ y.contenders = cs
      /\ \A g \in FieldEventFields \ {"contenders"} : y[g] = x[g]
  BY <1>2 DEF IsField, FieldEventFields
<1>4. \A id \in DOMAIN cs : IsContender(cs[id])
  BY <1>1 DEF IsField
<1>5. /\ cs = [id \in DOMAIN cs |-> cs[id]] /\ DOMAIN cs = DOMAIN x.contenders \cup DOMAIN f
      /\ \A id \in DOMAIN cs : cs[id] = IF id \in DOMAIN f THEN f[id] ELSE x.contenders[id]
  BY <1>1
<1>6. IsField(y)
  BY <1>3, <1>4, <1>5 DEF IsField
<1> QED BY <1>3, <1>5, <1>6

\* The contender that contenders[id] creates.
LEMMA DefaultIsContender ==
    ASSUME NEW x, IsField(x), NEW id
    PROVE  /\ IsContender(Contender(x, id))
           /\ id \in DOMAIN x.contenders => Contender(x, id) = x.contenders[id]
           /\ id \notin DOMAIN x.contenders =>
                /\ Contender(x, id).nInputOdds = 0 /\ Contender(x, id).odds = NoCounts
                /\ \A o \in FieldOutcomes : Contender(x, id).bets[o] = 0
BY DEF Contender, DefaultContender, IsContender, IsField, ContenderFields, NoCounts

\* y is x but for what counts the bets.
CountersOnly(x, y) ==
    /\ IsField(y) /\ DOMAIN x.contenders \subseteq DOMAIN y.contenders
    /\ \A g \in FieldEventFields \ {"contenders"} : y[g] = x[g]
    /\ \A id \in DOMAIN y.contenders : \A g \in {"nInputOdds", "nModifier", "odds"} :
         y.contenders[id][g] = Contender(x, id)[g]

\* Counting leaves odds fresh.
LEMMA CountersOnlyFresh ==
    ASSUME OddsFromInputs, NEW x, NEW y, Fresh(x), CountersOnly(x, y)
    PROVE  Fresh(y)
<1>1. IsField(x) /\ IsField(y)
  BY DEF Fresh, CountersOnly
<1>2. ASSUME NEW id \in DOMAIN x.contenders
      PROVE  /\ id \in DOMAIN y.contenders
             /\ y.contenders[id].nInputOdds = x.contenders[id].nInputOdds
             /\ y.contenders[id].nModifier = x.contenders[id].nModifier
             /\ y.contenders[id].odds = x.contenders[id].odds
  BY <1>1, DefaultIsContender DEF CountersOnly
<1>3. ASSUME NEW id \in DOMAIN y.contenders, id \notin DOMAIN x.contenders
      PROVE  y.contenders[id].nInputOdds = 0 /\ y.contenders[id].odds = NoCounts
  BY <1>1, <1>3, DefaultIsContender DEF CountersOnly
<1>4. Priced(x) = Priced(y)
  BY <1>2, <1>3 DEF Priced
<1>5. y.nMarginPercent = x.nMarginPercent /\ y.nMarketType = x.nMarketType
  BY DEF CountersOnly, FieldEventFields
<1>6. SameInputs(x, y)
  BY <1>2, <1>4, <1>5 DEF SameInputs, Priced
<1> QED BY <1>1, <1>2, <1>3, <1>6, StillFresh

\* One contender with other counters.
LEMMA ContenderCounts ==
    ASSUME NEW x, IsField(x), NEW id, NEW c, IsContender(c), NEW y, y = WithContender(x, id, c),
           \A g \in {"nInputOdds", "nModifier", "odds"} : c[g] = Contender(x, id)[g]
    PROVE  /\ CountersOnly(x, y) /\ DOMAIN y.contenders = DOMAIN x.contenders \cup {id}
           /\ y.contenders[id] = c /\ \A j \in DOMAIN x.contenders : j # id => y.contenders[j] = x.contenders[j]
<1>1. PICK f : f = [j \in {id} |-> c]
  OBVIOUS
<1>2. DOMAIN f = {id} /\ f[id] = c /\ f = [j \in DOMAIN f |-> f[j]] /\ \A j \in DOMAIN f : IsContender(f[j])
  BY <1>1
<1>3. y = WithContenders(x, f)
  BY <1>1 DEF WithContender
<1>4. /\ IsField(y) /\ DOMAIN y.contenders = DOMAIN x.contenders \cup DOMAIN f
      /\ \A g \in FieldEventFields \ {"contenders"} : y[g] = x[g]
      /\ \A j \in DOMAIN y.contenders : y.contenders[j] = IF j \in DOMAIN f THEN f[j] ELSE x.contenders[j]
  BY <1>2, <1>3, WithContendersIs
<1>5. ASSUME NEW j \in DOMAIN y.contenders, NEW g \in {"nInputOdds", "nModifier", "odds"}
      PROVE  y.contenders[j][g] = Contender(x, j)[g]
  <2>1. CASE j = id
    BY <1>2, <1>4, <2>1
  <2>2. CASE j # id
    BY <1>2, <1>4, <2>2, DefaultIsContender
  <2> QED BY <2>1, <2>2
<1> QED BY <1>2, <1>4, <1>5 DEF CountersOnly

\* The liability of a bet,
LEMMA AddLiabilityCounts ==
    ASSUME NEW x, IsField(x), NEW leg, NEW payout, NEW y, y = AddFieldLiability(x, leg, payout)
    PROVE  /\ CountersOnly(x, y) /\ DOMAIN y.contenders = DOMAIN x.contenders \cup {leg.contender}
           /\ \A j \in DOMAIN y.contenders : y.contenders[j].bets = Contender(x, j).bets
<1>1. PICK c : c = Contender(x, leg.contender)
  OBVIOUS
<1>2. PICK l : l = [c.liability EXCEPT ![leg.outcome] = @ + payout \div COIN]
  OBVIOUS
<1>3. PICK d : d = [c EXCEPT !.liability = l]
  OBVIOUS
<1>4. IsContender(c)
  BY <1>1, DefaultIsContender
<1>5. IsContender(d) /\ d.bets = c.bets /\ \A g \in {"nInputOdds", "nModifier", "odds"} : d[g] = c[g]
  BY <1>3, <1>4 DEF IsContender, ContenderFields
<1>6. y = WithContender(x, leg.contender, d)
  BY <1>1, <1>2, <1>3, Zenon DEF AddFieldLiability
<1>7. PICK id : id = leg.contender
  OBVIOUS
<1>8. /\ CountersOnly(x, y) /\ DOMAIN y.contenders = DOMAIN x.contenders \cup {id}
      /\ y.contenders[id] = d /\ \A j \in DOMAIN x.contenders : j # id => y.contenders[j] = x.contenders[j]
  BY <1>1, <1>5, <1>6, <1>7, ContenderCounts
<1>9. ASSUME NEW j \in DOMAIN y.contenders PROVE y.contenders[j].bets = Contender(x, j).bets
  BY <1>1, <1>5, <1>7, <1>8, DefaultIsContender
<1> QED BY <1>7, <1>8, <1>9

\* and its counters.
LEMMA CountBetCounts ==
    ASSUME NEW x, IsField(x), NEW leg, NEW y, y = CountFieldBet(x, leg)
    PROVE  /\ CountersOnly(x, y) /\ DOMAIN y.contenders = DOMAIN x.contenders \cup {leg.contender}
           /\ \A j \in DOMAIN y.contenders : \A o \in FieldOutcomes : y.contenders[j].bets[o] =
                IF j = leg.contender /\ o = leg.outcome THEN Contender(x, j).bets[o] + 1 ELSE Contender(x, j).bets[o]
<1>1. PICK c, id, q : c = Contender(x, leg.contender) /\ id = leg.contender /\ q = leg.outcome
  OBVIOUS
<1>2. IsContender(c)
  BY <1>1, DefaultIsContender
<1>3. PICK b : b = [c.bets EXCEPT ![q] = @ + 1]
  OBVIOUS
<1>4. PICK d : d = [c EXCEPT !.bets = b]
  OBVIOUS
<1>5. /\ b = [o \in FieldOutcomes |-> b[o]]
      /\ \A o \in FieldOutcomes : b[o] = IF o = q THEN c.bets[o] + 1 ELSE c.bets[o]
  BY <1>2, <1>3 DEF IsContender
<1>6. IsContender(d) /\ d.bets = b /\ \A g \in {"nInputOdds", "nModifier", "odds"} : d[g] = c[g]
  BY <1>2, <1>4, <1>5 DEF IsContender, ContenderFields
<1>7. y = WithContender(x, id, d)
  BY <1>1, <1>3, <1>4, Zenon DEF CountFieldBet
<1>8. /\ CountersOnly(x, y) /\ DOMAIN y.contenders = DOMAIN x.contenders \cup {id}
      /\ y.contenders[id] = d /\ \A j \in DOMAIN x.contenders : j # id => y.contenders[j] = x.contenders[j]
  BY <1>1, <1>6, <1>7, ContenderCounts
<1>9. ASSUME NEW j \in DOMAIN y.contenders, NEW o \in FieldOutcomes
      PROVE  y.contenders[j].bets[o] = IF j = id /\ o = q THEN Contender(x, j).bets[o] + 1 ELSE Contender(x, j).bets[o]
  BY <1>1, <1>5, <1>6, <1>8, DefaultIsContender
<1> QED BY <1>1, <1>8, <1>9

\* The legs of a parlay, counted at once.
LEMMA FieldLegsCount ==
    ASSUME NEW e, IsField(cache.fieldEvents[e]), NEW legs, NEW n, NEW y, y = WithFieldLegs(e, legs, n)
    PROVE  LET x == cache.fieldEvents[e]
               on == {i \in 1 .. n : legs[i].event = e}
           IN  /\ CountersOnly(x, y)
               /\ on = {} => y = x
               /\ on # {} =>
                    /\ DOMAIN y.contenders = DOMAIN x.contenders \cup {legs[i].contender : i \in on}
                    /\ \A i \in on : \A o \in FieldOutcomes : y.contenders[legs[i].contender].bets[o] =
                         Contender(x, legs[i].contender).bets[o]
                           + Cardinality({j \in on : legs[j].contender = legs[i].contender /\ legs[j].outcome = o})
                    /\ \A j \in DOMAIN x.contenders :
                         (\A i \in on : legs[i].contender # j) => y.contenders[j] = x.contenders[j]
<1>1. PICK x : x = cache.fieldEvents[e]
  OBVIOUS
<1> DEFINE on == {i \in 1 .. n : legs[i].event = e}
           Count(id, o) == Cardinality({i \in on : legs[i].contender = id /\ legs[i].outcome = o})
           New(id) == [Contender(x, id) EXCEPT !.bets = [o \in FieldOutcomes |-> @[o] + Count(id, o)]]
<1>i. IsField(x)
  BY <1>1
<1>2. CASE on = {}
  <2>1. y = x
    BY <1>1, <1>2 DEF WithFieldLegs
  <2>2. CountersOnly(x, x)
    BY <1>i, DefaultIsContender DEF CountersOnly
  <2> QED BY <1>1, <1>2, <2>1, <2>2
<1>3. CASE on # {}
  <2>1. PICK f : f = [id \in {legs[i].contender : i \in on} |-> New(id)]
    OBVIOUS
  <2>2. y = WithContenders(x, f)
    BY <1>1, <1>3, <2>1, Zenon DEF WithFieldLegs
  <2>3. ASSUME NEW id
        PROVE  /\ IsContender(New(id)) /\ \A o \in FieldOutcomes : New(id).bets[o] = Contender(x, id).bets[o] + Count(id, o)
               /\ \A g \in {"nInputOdds", "nModifier", "odds"} : New(id)[g] = Contender(x, id)[g]
    <3>1. PICK c : c = Contender(x, id)
      OBVIOUS
    <3>2. PICK b : b = [o \in FieldOutcomes |-> c.bets[o] + Count(id, o)]
      OBVIOUS
    <3>3. PICK d : d = New(id)
      OBVIOUS
    <3>4. IsContender(c)
      BY <1>i, <3>1, DefaultIsContender
    <3>5. d = [c EXCEPT !.bets = b]
      BY <3>1, <3>2, <3>3, <3>4 DEF IsContender, ContenderFields
    <3>6. \A o \in FieldOutcomes : b[o] = c.bets[o] + Count(id, o)
      BY <3>2
    <3>7. b = [o \in FieldOutcomes |-> b[o]]
      BY <3>2
    <3> HIDE DEF Count, New
    <3>8. IsContender(d) /\ d.bets = b /\ \A g \in {"nInputOdds", "nModifier", "odds"} : d[g] = c[g]
      BY <3>4, <3>5, <3>7 DEF IsContender, ContenderFields
    <3> QED BY <3>1, <3>3, <3>6, <3>8
  <2> HIDE DEF New, Count
  <2>4. f = [id \in DOMAIN f |-> f[id]] /\ DOMAIN f = {legs[i].contender : i \in on} /\ \A id \in DOMAIN f : f[id] = New(id)
    BY <2>1
  <2>5. \A id \in DOMAIN f : IsContender(f[id])
    BY <2>3, <2>4
  <2>6. /\ IsField(y) /\ DOMAIN y.contenders = DOMAIN x.contenders \cup DOMAIN f
        /\ \A g \in FieldEventFields \ {"contenders"} : y[g] = x[g]
        /\ \A id \in DOMAIN y.contenders : y.contenders[id] = IF id \in DOMAIN f THEN f[id] ELSE x.contenders[id]
    BY <1>i, <2>2, <2>4, <2>5, WithContendersIs
  <2>7. ASSUME NEW id \in DOMAIN y.contenders, NEW g \in {"nInputOdds", "nModifier", "odds"}
        PROVE  y.contenders[id][g] = Contender(x, id)[g]
    <3>1. CASE id \in DOMAIN f
      BY <2>3, <2>4, <2>6, <3>1
    <3>2. CASE id \notin DOMAIN f
      BY <1>i, <2>6, <3>2, DefaultIsContender
    <3> QED BY <3>1, <3>2
  <2>8. CountersOnly(x, y)
    BY <2>6, <2>7 DEF CountersOnly
  <2>9. ASSUME NEW i \in on, NEW o \in FieldOutcomes
        PROVE  y.contenders[legs[i].contender].bets[o] = Contender(x, legs[i].contender).bets[o] + Count(legs[i].contender, o)
    <3>1. PICK id : id = legs[i].contender
      OBVIOUS
    <3>2. id \in DOMAIN f
      BY <2>4, <3>1
    <3>3. y.contenders[id] = New(id)
      BY <2>4, <2>6, <3>2
    <3>4. New(id).bets[o] = Contender(x, id).bets[o] + Count(id, o)
      BY <2>3
    <3> QED BY <3>1, <3>3, <3>4
  <2>10. ASSUME NEW j \in DOMAIN x.contenders, \A i \in on : legs[i].contender # j PROVE y.contenders[j] = x.contenders[j]
    BY <2>4, <2>6, <2>10
  <2> HIDE DEF on
  <2> QED BY <1>1, <1>3, <2>4, <2>6, <2>8, <2>9, <2>10 DEF on, Count
<1> QED BY <1>2, <1>3

\* The contenders of y have the bets that those of x have.
SameBets(x, y) ==
    /\ DOMAIN x.contenders \subseteq DOMAIN y.contenders
    /\ \A id \in DOMAIN y.contenders : y.contenders[id].bets = Contender(x, id).bets

\* Calculating odds leaves the bets.
LEMMA CalcKeepsBets ==
    ASSUME NEW x, IsField(x), NEW mid, IsField(mid), SameBets(x, mid)
    PROVE  SameBets(x, CalcOdds(mid))
<1>1. PICK y : y = CalcOdds(mid)
  OBVIOUS
<1>2. DOMAIN y.contenders = DOMAIN mid.contenders
  BY <1>1, CalcOddsIs
<1>3. ASSUME NEW id \in DOMAIN mid.contenders PROVE y.contenders[id].bets = mid.contenders[id].bets
  <2>1. PICK c, odds : c = mid.contenders[id] /\ odds = OddsNow(mid, id)
    OBVIOUS
  <2>2. y.contenders[id] = [c EXCEPT !.odds = odds] /\ IsContender(c)
    BY <1>1, <2>1, CalcOddsIs DEF IsField
  <2> QED BY <2>1, <2>2 DEF IsContender, ContenderFields
<1> QED BY <1>1, <1>2, <1>3 DEF SameBets

\* Contenders put in with their bets.
LEMMA PutWithBets ==
    ASSUME NEW x, IsField(x), NEW f, f = [id \in DOMAIN f |-> f[id]],
           \A id \in DOMAIN f : IsContender(f[id]) /\ f[id].bets = Contender(x, id).bets
    PROVE  IsField(WithContenders(x, f)) /\ SameBets(x, WithContenders(x, f))
<1>1. PICK y : y = WithContenders(x, f)
  OBVIOUS
<1>2. /\ IsField(y) /\ DOMAIN y.contenders = DOMAIN x.contenders \cup DOMAIN f
      /\ \A id \in DOMAIN y.contenders : y.contenders[id] = IF id \in DOMAIN f THEN f[id] ELSE x.contenders[id]
  BY <1>1, WithContendersIs
<1>3. ASSUME NEW id \in DOMAIN y.contenders PROVE y.contenders[id].bets = Contender(x, id).bets
  BY <1>2, DefaultIsContender
<1> QED BY <1>1, <1>2, <1>3 DEF SameBets

\* The event that the odds are calculated for anew by an update.
Inputs(x, out, mid) == IsField(mid) /\ SameBets(x, mid) /\ UpdatedField(x, out) = CalcOdds(mid)

LEMMA UpdateInputs ==
    ASSUME NEW x, IsField(x), NEW out, out.type \in FieldUpdates, out.type # "fZeroing"
    PROVE  \E mid : Inputs(x, out, mid)
<1>1. CASE out.type = "fUpdateOdds"
  <2>1. PICK f : f = [id \in DOMAIN out.inputs |->
                        [Contender(x, id) EXCEPT !.nInputOdds = out.inputs[id], !.odds = NoCounts]]
    OBVIOUS
  <2>2. UpdatedField(x, out) = CalcOdds(WithContenders(x, f))
    BY <1>1, <2>1, Zenon DEF UpdatedField
  <2>3. ASSUME NEW id \in DOMAIN f PROVE IsContender(f[id]) /\ f[id].bets = Contender(x, id).bets
    <3>1. PICK c, n : c = Contender(x, id) /\ n = out.inputs[id]
      OBVIOUS
    <3>2. IsContender(c) /\ f[id] = [c EXCEPT !.nInputOdds = n, !.odds = NoCounts]
      BY <2>1, <3>1, DefaultIsContender
    <3> QED BY <3>1, <3>2 DEF IsContender, ContenderFields
  <2>4. f = [id \in DOMAIN f |-> f[id]]
    BY <2>1
  <2>5. IsField(WithContenders(x, f)) /\ SameBets(x, WithContenders(x, f))
    BY <2>3, <2>4, PutWithBets
  <2> QED BY <2>2, <2>5 DEF Inputs
<1>2. CASE out.type = "fUpdateModifiers"
  <2>1. PICK f : f = [id \in DOMAIN out.inputs |-> [Contender(x, id) EXCEPT !.nModifier = out.inputs[id]]]
    OBVIOUS
  <2>2. UpdatedField(x, out) = CalcOdds(WithContenders(x, f))
    BY <1>2, <2>1, Zenon DEF UpdatedField
  <2>3. ASSUME NEW id \in DOMAIN f PROVE IsContender(f[id]) /\ f[id].bets = Contender(x, id).bets
    <3>1. PICK c, n : c = Contender(x, id) /\ n = out.inputs[id]
      OBVIOUS
    <3>2. IsContender(c) /\ f[id] = [c EXCEPT !.nModifier = n]
      BY <2>1, <3>1, DefaultIsContender
    <3> QED BY <3>1, <3>2 DEF IsContender, ContenderFields
  <2>4. f = [id \in DOMAIN f |-> f[id]]
    BY <2>1
  <2>5. IsField(WithContenders(x, f)) /\ SameBets(x, WithContenders(x, f))
    BY <2>3, <2>4, PutWithBets
  <2> QED BY <2>2, <2>5 DEF Inputs
<1>3. CASE out.type = "fUpdateMargin"
  <2>1. PICK n : n = out.nMarginPercent
    OBVIOUS
  <2>2. PICK mid : mid = [x EXCEPT !.nMarginPercent = n]
    OBVIOUS
  <2>3. UpdatedField(x, out) = CalcOdds(mid)
    BY <1>3, <2>1, <2>2, Zenon DEF UpdatedField
  <2>4. mid = [g \in FieldEventFields |-> mid[g]] /\ mid.contenders = x.contenders
    BY <2>2 DEF IsField, FieldEventFields
  <2>5. IsField(mid)
    BY <2>4 DEF IsField
  <2>6. \A id \in DOMAIN x.contenders : Contender(x, id) = x.contenders[id]
    BY DEF Contender
  <2>7. SameBets(x, mid)
    BY <2>4, <2>6 DEF SameBets
  <2> QED BY <2>3, <2>5, <2>7 DEF Inputs
<1> QED BY <1>1, <1>2, <1>3 DEF FieldUpdates

\* Zeroing takes the input odds and the odds away.
LEMMA ZeroedIs ==
    ASSUME NEW x, IsField(x), NEW out, out.type = "fZeroing", NEW y, y = UpdatedField(x, out)
    PROVE  /\ IsField(y) /\ SameBets(x, y)
           /\ \A id \in DOMAIN y.contenders : y.contenders[id].nInputOdds = 0 /\ y.contenders[id].odds = NoCounts
<1>1. PICK cs : cs = [id \in DOMAIN x.contenders |-> [x.contenders[id] EXCEPT !.nInputOdds = 0, !.odds = NoCounts]]
  OBVIOUS
<1>2. y = [x EXCEPT !.contenders = cs]
  BY <1>1, Zenon DEF UpdatedField
<1>3. y = [g \in FieldEventFields |-> y[g]] /\ y.contenders = cs
  BY <1>2 DEF IsField, FieldEventFields
<1>4. ASSUME NEW id \in DOMAIN cs
      PROVE  /\ IsContender(cs[id]) /\ cs[id].nInputOdds = 0 /\ cs[id].odds = NoCounts
             /\ cs[id].bets = Contender(x, id).bets
  <2>1. PICK c : c = x.contenders[id]
    OBVIOUS
  <2>2. cs[id] = [c EXCEPT !.nInputOdds = 0, !.odds = NoCounts] /\ IsContender(c) /\ c = Contender(x, id)
    BY <1>1, <2>1, DefaultIsContender DEF IsField
  <2> QED BY <2>2 DEF IsContender, ContenderFields
<1>5. DOMAIN cs = DOMAIN x.contenders /\ cs = [id \in DOMAIN cs |-> cs[id]]
  BY <1>1
<1> QED BY <1>3, <1>4, <1>5 DEF IsField, SameBets

\* Every update leaves the bets as they are,
LEMMA UpdatedBets ==
    ASSUME NEW x, IsField(x), NEW out, out.type \in FieldUpdates
    PROVE  IsField(UpdatedField(x, out)) /\ SameBets(x, UpdatedField(x, out))
<1>1. CASE out.type # "fZeroing"
  <2>1. PICK mid : Inputs(x, out, mid)
    BY <1>1, UpdateInputs
  <2> QED BY <2>1, CalcOddsIs, CalcKeepsBets DEF Inputs
<1>2. CASE out.type = "fZeroing"
  BY <1>2, ZeroedIs
<1> QED BY <1>1, <1>2

\* and the odds fresh.
LEMMA UpdatedFresh ==
    ASSUME OddsFromInputs, NEW x, Fresh(x), NEW out, out.type \in FieldUpdates
    PROVE  Fresh(UpdatedField(x, out))
<1>f. IsField(x)
  BY DEF Fresh
<1>1. CASE out.type # "fZeroing"
  <2>1. PICK mid : Inputs(x, out, mid)
    BY <1>f, <1>1, UpdateInputs
  <2> QED BY <2>1, CalcFresh DEF Inputs
<1>2. CASE out.type = "fZeroing"
  <2>1. PICK y : y = UpdatedField(x, out)
    OBVIOUS
  <2>2. /\ IsField(y)
        /\ \A id \in DOMAIN y.contenders : y.contenders[id].nInputOdds = 0 /\ y.contenders[id].odds = NoCounts
    BY <1>f, <1>2, <2>1, ZeroedIs
  <2>3. ASSUME NEW id \in DOMAIN y.contenders PROVE y.contenders[id].odds = OddsNow(y, id)
    <3>1. \A o \in FieldOutcomes : MarketOdds(y, id, o) = 0
      BY <2>2, <2>3 DEF OddsFromInputs
    <3> QED BY <2>2, <3>1 DEF OddsNow, NoCounts
  <2> QED BY <2>1, <2>2, <2>3 DEF Fresh
<1> QED BY <1>1, <1>2

\* A new event has contenders without bets.
NewContenders(out) == [id \in DOMAIN out.inputs |-> [DefaultContender EXCEPT !.nInputOdds = out.inputs[id]]]

\* The event that its odds are calculated for.
NewInputs(out) ==
    [nStartTime |-> out.nStartTime, nStage |-> out.nStage, nMarketType |-> out.nMarketType,
     nMarginPercent |-> out.nMarginPercent, contenders |-> NewContenders(out)]

\* The event that is saved.
NewField(out) == CalcOdds(NewInputs(out))

\* It has fresh odds and no bets.
LEMMA NewFieldIs ==
    ASSUME NEW out
    PROVE  /\ IsField(NewInputs(out)) /\ IsField(NewField(out))
           /\ \A id \in DOMAIN NewField(out).contenders : NewField(out).contenders[id].bets = NoCounts
<1>1. PICK cs, x : cs = NewContenders(out) /\ x = NewInputs(out)
  OBVIOUS
<1>2. ASSUME NEW id \in DOMAIN cs PROVE IsContender(cs[id]) /\ cs[id].bets = NoCounts
  <2>1. PICK n : n = out.inputs[id]
    OBVIOUS
  <2>2. cs[id] = [DefaultContender EXCEPT !.nInputOdds = n]
    BY <1>1, <2>1 DEF NewContenders
  <2> QED BY <2>2 DEF DefaultContender, IsContender, ContenderFields, NoCounts
<1>3. cs = [id \in DOMAIN cs |-> cs[id]]
  BY <1>1 DEF NewContenders
<1>4. x.contenders = cs /\ x = [g \in FieldEventFields |-> x[g]]
  BY <1>1 DEF NewInputs, FieldEventFields
<1>5. IsField(x)
  BY <1>2, <1>3, <1>4 DEF IsField
<1>6. SameBets(x, x)
  BY <1>5, DefaultIsContender DEF SameBets
<1>7. PICK y : y = CalcOdds(x)
  OBVIOUS
<1>8. IsField(y) /\ SameBets(x, y) /\ DOMAIN y.contenders = DOMAIN x.contenders
  BY <1>5, <1>6, <1>7, CalcKeepsBets, CalcOddsIs
<1>9. ASSUME NEW id \in DOMAIN y.contenders PROVE y.contenders[id].bets = NoCounts
  BY <1>2, <1>4, <1>5, <1>8, DefaultIsContender DEF SameBets
<1> QED BY <1>1, <1>5, <1>7, <1>8, <1>9 DEF NewField

\* Databases, records and views in which every field event is fresh.
FreshEvents(db) == \A e \in DOMAIN db : Fresh(db[e])
FreshRecord(s)  == \E n \in Nat : \A i \in DOMAIN s : s[i].kind = "field" => i \in 1 .. n /\ Fresh(s[i].event)
FreshUndos(u)   == \A k \in DOMAIN u : FreshRecord(u[k].vUndos)
FreshView(v)    == FreshEvents(v.fieldEvents) /\ FreshUndos(v.undos)

\* The greatest of some numbers up to n is one of them.
LEMMA MaxBelow ==
    ASSUME NEW n \in Nat, NEW S, S \subseteq 1 .. n, S # {}
    PROVE  Max(S) \in S
<1>s. \A x \in S : x \in Nat /\ n - x \in Nat
  OBVIOUS
<1>1. PICK T : T = {y \in Nat : \E x \in S : y = n - x}
  OBVIOUS
<1>2. T \subseteq Nat /\ T # {}
  <2>1. PICK x : x \in S
    OBVIOUS
  <2>2. n - x \in T
    BY <1>s, <1>1, <2>1
  <2> QED BY <1>1, <2>2
<1>3. PICK m \in T : \A y \in T : m <= y
  BY <1>2, LeastNatural
<1>4. PICK x \in S : m = n - x
  BY <1>1
<1>5. \A y \in S : x >= y
  <2> TAKE y \in S
  <2>1. n - y \in T
    BY <1>s, <1>1
  <2>2. n - x <= n - y
    BY <1>3, <1>4, <2>1
  <2>3. x \in Nat /\ y \in Nat
    BY <1>s
  <2> QED BY <2>2, <2>3
<1> QED BY <1>5 DEF Max

\* Restoring from fresh records.
LEMMA FreshRestore ==
    ASSUME NEW db, FreshEvents(db), NEW s, FreshRecord(s)
    PROVE  FreshEvents(RestoreEvents(db, s, "field"))
<1> DEFINE Saved(e) == {i \in DOMAIN s : s[i].kind = "field" /\ s[i].id = e}
<1>1. PICK n \in Nat : \A i \in DOMAIN s : s[i].kind = "field" => i \in 1 .. n /\ Fresh(s[i].event)
  BY DEF FreshRecord
<1>2. ASSUME NEW e \in DOMAIN db, Saved(e) # {} PROVE Fresh(s[Max(Saved(e))].event)
  <2>1. Saved(e) \subseteq 1 .. n
    BY <1>1
  <2>2. Max(Saved(e)) \in Saved(e)
    BY <1>2, <2>1, MaxBelow
  <2> QED BY <1>1, <2>2
<1>3. RestoreEvents(db, s, "field") =
        [e \in DOMAIN db |-> IF Saved(e) = {} THEN db[e] ELSE s[Max(Saved(e))].event]
  BY DEF RestoreEvents
<1> HIDE DEF Saved
<1> QED BY <1>2, <1>3 DEF FreshEvents

\* A record about peerless events only.
LEMMA NoFieldRecord ==
    ASSUME NEW s, \A i \in DOMAIN s : s[i].kind # "field"
    PROVE  FreshRecord(s)
<1>1. 0 \in Nat
  OBVIOUS
<1> QED BY <1>1 DEF FreshRecord

\* A record with one field event.
LEMMA OneRecord ==
    ASSUME NEW x, Fresh(x), NEW e
    PROVE  FreshRecord(<<FieldUndo(e, x)>>)
<1>1. PICK s : s = <<FieldUndo(e, x)>>
  OBVIOUS
<1>2. DOMAIN s = 1 .. 1 /\ s[1].event = x
  BY <1>1 DEF FieldUndo
<1>3. \A i \in DOMAIN s : s[i].kind = "field" => i \in 1 .. 1 /\ Fresh(s[i].event)
  BY <1>2
<1> QED BY <1>1, <1>3 DEF FreshRecord

\* One record more,
LEMMA RecordAdded ==
    ASSUME NEW u, FreshUndos(u), NEW k, NEW h, NEW s, FreshRecord(s)
    PROVE  FreshUndos(Put(u, k, [height |-> h, vUndos |-> s]))
BY DEF FreshUndos, Put

\* or fewer.
LEMMA FewerRecords ==
    ASSUME NEW u, FreshUndos(u), NEW S, S \subseteq DOMAIN u
    PROVE  FreshUndos(Restrict(u, S))
BY DEF FreshUndos, Restrict

\* What SaveBettingUndo leaves.
LEMMA FreshSaved ==
    ASSUME FreshView(cache), NEW c, IsView(c), FreshView(c), NEW s, FreshRecord(s), AdvanceWithUndo(c, s)
    PROVE  FreshView(cache') /\ view' = view
<1>1. CASE UndoKey \in DOMAIN c.undos
  BY <1>1 DEF AdvanceWithUndo, Abort
<1>2. CASE UndoKey \notin DOMAIN c.undos
  <2>1. PICK k, h : k = UndoKey /\ h = BlkHeight
    OBVIOUS
  <2>2. PICK u : u = Put(c.undos, k, [height |-> h, vUndos |-> s])
    OBVIOUS
  <2>3. cache' = [c EXCEPT !.undos = u] /\ view' = view
    BY <1>2, <2>1, <2>2, Zenon DEF AdvanceWithUndo, Advance
  <2>4. FreshUndos(u)
    BY <2>2, RecordAdded DEF FreshView
  <2>5. cache'.fieldEvents = c.fieldEvents /\ cache'.undos = u
    BY <2>3 DEF IsView, Databases
  <2> QED BY <2>3, <2>4, <2>5 DEF FreshView
<1> QED BY <1>1, <1>2

\* What UndoEventChanges restores,
LEMMA FreshUndone ==
    ASSUME NEW c, IsView(c), FreshView(c), NEW k, k \in DOMAIN c.undos
    PROVE  FreshView(UndoEventChanges(c, k))
<1>1. PICK s : s = c.undos[k].vUndos
  OBVIOUS
<1>2. GetBettingUndo(c, k) = s /\ FreshRecord(s)
  BY <1>1 DEF GetBettingUndo, FreshView, FreshUndos
<1>3. PICK d : d = UndoEventChanges(c, k)
  OBVIOUS
<1>4. d.fieldEvents = RestoreEvents(c.fieldEvents, s, "field") /\ d.undos = DbErase(c.undos, k)
  BY <1>2, <1>3 DEF UndoEventChanges, IsView, Databases
<1>5. FreshEvents(d.fieldEvents)
  BY <1>2, <1>4, FreshRestore DEF FreshView
<1>6. FreshUndos(d.undos)
  BY <1>4, FewerRecords DEF FreshView, DbErase
<1> QED BY <1>3, <1>5, <1>6 DEF FreshView

\* in a step that does.
LEMMA FreshReverted ==
    ASSUME FreshView(cache), IsView(cache), NEW after, RevertOr(after),
           \A d \in {"fieldEvents", "undos"} : after[d] = UndoEventChanges(cache, UndoKey)[d]
    PROVE  FreshView(cache') /\ view' = view
<1>1. CASE UndoKey \in DOMAIN cache.undos
  <2>1. FreshView(UndoEventChanges(cache, UndoKey))
    BY <1>1, FreshUndone
  <2>2. cache' = after /\ view' = view
    BY <1>1 DEF RevertOr, Advance
  <2> QED BY <2>1, <2>2 DEF FreshView
<1>2. CASE UndoKey \notin DOMAIN cache.undos
  BY <1>2 DEF RevertOr, Abort
<1> QED BY <1>1, <1>2

\* Any change that leaves both databases alone.
LEMMA FreshSame ==
    ASSUME NEW v, FreshView(v), NEW w, w.fieldEvents = v.fieldEvents, w.undos = v.undos
    PROVE  FreshView(w)
BY DEF FreshView

\* Outputs about peerless events save and restore no field event.
LEMMA FreshPeerless ==
    ASSUME IsView(cache), FreshView(cache), PeerlessStep
    PROVE  FreshView(cache') /\ view' = view
<1>one. ASSUME NEW e, NEW x PROVE FreshRecord(<<PeerlessUndo(e, x)>>)
  <2>1. PICK s : s = <<PeerlessUndo(e, x)>>
    OBVIOUS
  <2>2. \A i \in DOMAIN s : s[i].kind # "field"
    BY <2>1 DEF PeerlessUndo
  <2> QED BY <2>1, <2>2, NoFieldRecord
<1>save. ASSUME NEW c, IsView(c), c.fieldEvents = cache.fieldEvents, c.undos = cache.undos,
                NEW s, FreshRecord(s), AdvanceWithUndo(c, s)
         PROVE  FreshView(cache') /\ view' = view
  BY <1>save, FreshSame, FreshSaved
<1>plain. ASSUME Advance(cache) PROVE FreshView(cache') /\ view' = view
  BY <1>plain DEF Advance
<1>1. CASE ProcessPlBet
  <2>1. CASE Advance(cache)
    BY <2>1, <1>plain
  <2>2. CASE ~Advance(cache)
    <3>1. PICK x, b, e : AdvanceWithUndo([cache EXCEPT !.events = x, !.bets = b], <<PeerlessUndo(e, cache.events[e])>>)
      BY <1>1, <2>2 DEF ProcessPlBet
    <3>2. PICK c : c = [cache EXCEPT !.events = x, !.bets = b]
      OBVIOUS
    <3>3. IsView(c) /\ c.fieldEvents = cache.fieldEvents /\ c.undos = cache.undos
      BY <3>2 DEF IsView, Databases
    <3> QED BY <3>1, <3>2, <3>3, <1>one, <1>save
  <2> QED BY <2>1, <2>2
<1>2. CASE ProcessPlParlayBet
  <2>1. CASE Advance(cache)
    BY <2>1, <1>plain
  <2>2. CASE ~Advance(cache)
    <3>1. PICK done : done = CountLegs(Out.legs)
      OBVIOUS
    <3>2. PICK x, b : AdvanceWithUndo([cache EXCEPT !.events = x, !.bets = b], done.undos)
      BY <1>2, <2>2, <3>1 DEF ProcessPlParlayBet
    <3>3. PICK c : c = [cache EXCEPT !.events = x, !.bets = b]
      OBVIOUS
    <3>4. IsView(c) /\ c.fieldEvents = cache.fieldEvents /\ c.undos = cache.undos
      BY <3>3 DEF IsView, Databases
    <3>5. \A i \in DOMAIN done.undos : done.undos[i].kind # "field"
      BY <3>1 DEF CountLegs, PeerlessUndo
    <3> QED BY <3>2, <3>3, <3>4, <3>5, NoFieldRecord, <1>save
  <2> QED BY <2>1, <2>2
<1>3. CASE ProcessPlZeroing
  <2>1. CASE Advance(cache)
    BY <2>1, <1>plain
  <2>2. CASE ~Advance(cache)
    <3>1. PICK done : done = ZeroEvents(Out.events)
      OBVIOUS
    <3>2. PICK x : AdvanceWithUndo([cache EXCEPT !.events = x], done.undos)
      BY <1>3, <2>2, <3>1 DEF ProcessPlZeroing
    <3>3. PICK c : c = [cache EXCEPT !.events = x]
      OBVIOUS
    <3>4. IsView(c) /\ c.fieldEvents = cache.fieldEvents /\ c.undos = cache.undos
      BY <3>3 DEF IsView, Databases
    <3>5. \A i \in DOMAIN done.undos : done.undos[i].kind # "field"
      BY <3>1 DEF ZeroEvents, PeerlessUndo
    <3> QED BY <3>2, <3>3, <3>4, <3>5, NoFieldRecord, <1>save
  <2> QED BY <2>1, <2>2
<1>4. CASE \E type \in PlUpdates : ProcessPlUpdate(type)
  <2>1. CASE Advance(cache)
    BY <2>1, <1>plain
  <2>2. CASE ~Advance(cache)
    <3>1. PICK e : e = Out.event
      OBVIOUS
    <3>2. PICK x : x = [cache.events EXCEPT ![e].info = ExtractDataFromTx(@, Out)]
      OBVIOUS
    <3>3. PICK c : c = [cache EXCEPT !.events = x]
      OBVIOUS
    <3>4. AdvanceWithUndo(c, <<PeerlessUndo(e, cache.events[e])>>)
      BY <1>4, <2>2, <3>1, <3>2, <3>3, Zenon DEF ProcessPlUpdate
    <3>5. IsView(c) /\ c.fieldEvents = cache.fieldEvents /\ c.undos = cache.undos
      BY <3>3 DEF IsView, Databases
    <3> QED BY <3>4, <3>5, <1>one, <1>save
  <2> QED BY <2>1, <2>2
<1>5. CASE ProcessMapping \/ UndoMapping
  BY <1>5, FreshSame DEF ProcessMapping, UndoMapping, Advance, Abort, IsView, Databases
<1>6. CASE ProcessPlEvent \/ UndoPlEvent
  BY <1>6, FreshSame DEF ProcessPlEvent, UndoPlEvent, Advance, IsView, Databases
<1>7. CASE ProcessPlResult \/ UndoPlResult
  BY <1>7, FreshSame DEF ProcessPlResult, UndoPlResult, Advance, AdvanceWithResult, IsView, Databases
<1>8. ASSUME NEW type, UndoPeerlessBet(type) PROVE FreshView(cache') /\ view' = view
  <2>1. PICK mid : mid = UndoEventChanges(cache, UndoKey)
    OBVIOUS
  <2>2. IsView(mid)
    BY <2>1, UndoneView
  <2>3. PICK b : b = DbErase(mid.bets, BetKey)
    OBVIOUS
  <2>4. PICK c : c = [mid EXCEPT !.bets = b]
    OBVIOUS
  <2>5. Advance(cache) \/ RevertOr(c)
    BY <1>8, <2>1, <2>3, <2>4, Zenon DEF UndoPeerlessBet
  <2>6. \A d \in {"fieldEvents", "undos"} : c[d] = mid[d]
    BY <2>2, <2>4 DEF IsView, Databases
  <2> QED BY <2>1, <2>5, <2>6, <1>plain, FreshReverted
<1>9. ASSUME NEW type, UndoPlUpdate(type) PROVE FreshView(cache') /\ view' = view
  BY <1>9, <1>plain, FreshReverted DEF UndoPlUpdate
<1>10. CASE UndoPlZeroing
  BY <1>10, <1>plain, FreshReverted DEF UndoPlZeroing
<1> QED BY <1>1, <1>2, <1>3, <1>4, <1>5, <1>6, <1>7, <1>8, <1>9, <1>10 DEF PeerlessStep

\* The legs of a field parlay are a list.
FieldLists ==
    \A tx \in Txs : \A i \in DOMAIN tx.outs : tx.outs[i].type = "fParlayBet" => IsSeq(tx.outs[i].legs)

\* One fresh event more.
LEMMA FreshPut ==
    ASSUME NEW db, FreshEvents(db), NEW e, NEW x, Fresh(x)
    PROVE  FreshEvents(Put(db, e, x)) /\ FreshEvents(DbWrite(db, e, x)) /\ FreshEvents(DbUpdate(db, e, x))
BY DEF FreshEvents, Put, DbWrite, DbUpdate

\* The events and the records that a field parlay leaves.
LEMMA FreshFieldLegs ==
    ASSUME OddsFromInputs, FreshEvents(cache.fieldEvents), NEW legs, IsSeq(legs)
    PROVE  FreshEvents(CountFieldLegs(legs).fieldEvents) /\ FreshRecord(CountFieldLegs(legs).undos)
<1>1. PICK P : P = {i \in DOMAIN legs : legs[i].event \in DOMAIN view.fieldEvents \cap DOMAIN cache.fieldEvents}
  OBVIOUS
<1>2. DOMAIN legs = 1 .. Len(legs) /\ Len(legs) \in Nat
  BY DEF IsSeq
<1>i. 1 \in Int /\ Len(legs) \in Int /\ P \subseteq 1 .. Len(legs) /\ P \subseteq Nat
  BY <1>1, <1>2
<1>k. IsFiniteSet(1 .. Len(legs))
  BY <1>i, FS_Interval
<1>3. IsFiniteSet(P)
  BY <1>i, <1>k, FS_Subset
<1>4. PICK n : n = Cardinality(P)
  OBVIOUS
<1>5. n \in Nat
  BY <1>3, <1>4, FS_CardinalityType
<1>7. PICK known : known = At(legs, P)
  OBVIOUS
<1>8. DOMAIN known = 1 .. n /\ \A i \in DOMAIN known : \E x \in P : known[i] = legs[x]
  <2>1. DOMAIN known = 1 .. Cardinality(P)
    BY <1>i, <1>3, <1>7, AtElements
  <2>2. TakenFrom(known, legs, P)
    BY <1>i, <1>3, <1>7, AtElements
  <2> QED BY <1>4, <2>1, <2>2 DEF TakenFrom
<1>a. \A i \in DOMAIN known : known[i].event \in DOMAIN cache.fieldEvents
  BY <1>1, <1>8
<1>9. ASSUME NEW e \in DOMAIN cache.fieldEvents, NEW m PROVE Fresh(WithFieldLegs(e, known, m))
  <2>1. Fresh(cache.fieldEvents[e]) /\ IsField(cache.fieldEvents[e])
    BY DEF FreshEvents, Fresh
  <2>2. PICK y : y = WithFieldLegs(e, known, m)
    OBVIOUS
  <2>3. CountersOnly(cache.fieldEvents[e], y)
    BY <2>1, <2>2, FieldLegsCount
  <2> QED BY <2>1, <2>2, <2>3, CountersOnlyFresh
<1>10. PICK done : done = CountFieldLegs(legs)
  OBVIOUS
<1>11. /\ done.fieldEvents = [e \in DOMAIN cache.fieldEvents |-> WithFieldLegs(e, known, Len(known))]
       /\ done.undos = [i \in DOMAIN known |-> FieldUndo(known[i].event, WithFieldLegs(known[i].event, known, i - 1))]
  BY <1>1, <1>7, <1>10 DEF CountFieldLegs
<1>12. FreshEvents(done.fieldEvents)
  BY <1>9, <1>11 DEF FreshEvents
<1>13. \A i \in DOMAIN done.undos : done.undos[i].kind = "field" => i \in 1 .. n /\ Fresh(done.undos[i].event)
  BY <1>8, <1>a, <1>9, <1>11 DEF FieldUndo
<1> QED BY <1>5, <1>10, <1>12, <1>13 DEF FreshRecord

\* Outputs about field events.
LEMMA FreshFieldStep ==
    ASSUME OddsFromInputs, FieldLists, TypeOK, FreshView(cache), FieldStep
    PROVE  FreshView(cache') /\ view' = view
<1>v. IsView(cache)
  BY DEF TypeOK
<1>plain. ASSUME Advance(cache) PROVE FreshView(cache') /\ view' = view
  BY <1>plain DEF Advance
<1>1. CASE ProcessFBet
  <2>1. CASE Advance(cache)
    BY <2>1, <1>plain
  <2>2. CASE ~Advance(cache)
    <3>1. PICK leg : leg = Out.legs[1]
      OBVIOUS
    <3>2. PICK e, x : e = leg.event /\ x = cache.fieldEvents[e]
      OBVIOUS
    <3>3. e \in DOMAIN cache.fieldEvents
      BY <1>1, <2>2, <3>1, <3>2 DEF ProcessFBet
    <3>4. PICK w, b : AdvanceWithUndo([cache EXCEPT
                          !.fieldEvents = DbUpdate(@, e, CountFieldBet(AddFieldLiability(x, leg, w), leg)),
                          !.fieldBets = b], <<FieldUndo(e, x)>>)
      BY <1>1, <2>2, <3>1, <3>2, Zenon DEF ProcessFBet
    <3>5. PICK y : y = AddFieldLiability(x, leg, w)
      OBVIOUS
    <3>6. PICK z : z = CountFieldBet(y, leg)
      OBVIOUS
    <3>7. Fresh(x) /\ IsField(x)
      BY <3>2, <3>3 DEF FreshView, FreshEvents, Fresh
    <3>8. Fresh(y) /\ IsField(y)
      <4>1. CountersOnly(x, y)
        BY <3>5, <3>7, AddLiabilityCounts
      <4> QED BY <3>7, <4>1, CountersOnlyFresh DEF Fresh
    <3>9. Fresh(z)
      <4>1. CountersOnly(y, z)
        BY <3>6, <3>8, CountBetCounts
      <4> QED BY <3>8, <4>1, CountersOnlyFresh
    <3>10. PICK db : db = DbUpdate(cache.fieldEvents, e, z)
      OBVIOUS
    <3>11. FreshEvents(db)
      BY <3>9, <3>10, FreshPut DEF FreshView
    <3>12. PICK c : c = [cache EXCEPT !.fieldEvents = db, !.fieldBets = b]
      OBVIOUS
    <3>13. AdvanceWithUndo(c, <<FieldUndo(e, x)>>)
      BY <3>4, <3>5, <3>6, <3>10, <3>12, Zenon
    <3>14. IsView(c) /\ c.fieldEvents = db /\ c.undos = cache.undos
      BY <1>v, <3>12 DEF IsView, Databases
    <3>15. FreshView(c)
      BY <3>11, <3>14 DEF FreshView
    <3>16. FreshRecord(<<FieldUndo(e, x)>>)
      BY <3>7, OneRecord
    <3> QED BY <3>13, <3>14, <3>15, <3>16, FreshSaved
  <2> QED BY <2>1, <2>2
<1>2. CASE ProcessFParlayBet
  <2>1. CASE Advance(cache)
    BY <2>1, <1>plain
  <2>2. CASE ~Advance(cache)
    <3>1. PICK legs, done : legs = Out.legs /\ done = CountFieldLegs(legs)
      OBVIOUS
    <3>2. PICK b : AdvanceWithUndo([cache EXCEPT !.fieldEvents = done.fieldEvents, !.fieldBets = b], done.undos)
      BY <1>2, <2>2, <3>1, Zenon DEF ProcessFParlayBet
    <3>3. Tx \in Txs /\ pos.out \in DOMAIN Tx.outs /\ Out.type = "fParlayBet"
      BY <1>2 DEF ProcessFParlayBet, Processing, Handles, TypeOK, Tx
    <3>4. IsSeq(legs)
      BY <3>1, <3>3 DEF FieldLists, Out
    <3>5. FreshEvents(done.fieldEvents) /\ FreshRecord(done.undos)
      BY <3>1, <3>4, FreshFieldLegs DEF FreshView
    <3>6. PICK c : c = [cache EXCEPT !.fieldEvents = done.fieldEvents, !.fieldBets = b]
      OBVIOUS
    <3>7. IsView(c) /\ c.fieldEvents = done.fieldEvents /\ c.undos = cache.undos
      BY <1>v, <3>6 DEF IsView, Databases
    <3>8. FreshView(c)
      BY <3>5, <3>7 DEF FreshView
    <3> QED BY <3>2, <3>5, <3>6, <3>7, <3>8, FreshSaved
  <2> QED BY <2>1, <2>2
<1>3. CASE ProcessFEvent
  <2>1. CASE Advance(cache)
    BY <2>1, <1>plain
  <2>2. CASE ~Advance(cache)
    <3>1. PICK x, e : x = NewField(Out) /\ e = Out.event
      OBVIOUS
    <3>2. PICK db : db = DbWrite(cache.fieldEvents, e, x)
      OBVIOUS
    <3>3. PICK c : c = [cache EXCEPT !.fieldEvents = db]
      OBVIOUS
    <3>4. Advance(c)
      BY <1>3, <2>2, <3>1, <3>2, <3>3, Zenon DEF ProcessFEvent, NewField, NewInputs, NewContenders
    <3>5. Fresh(x)
      BY <3>1, NewFieldIs, CalcFresh DEF NewField
    <3>6. FreshEvents(db)
      BY <3>2, <3>5, FreshPut DEF FreshView
    <3>7. c.fieldEvents = db /\ c.undos = cache.undos
      BY <1>v, <3>3 DEF IsView, Databases
    <3> QED BY <3>4, <3>6, <3>7 DEF FreshView, Advance
  <2> QED BY <2>1, <2>2
<1>4. CASE ProcessFResult \/ UndoFResult
  BY <1>v, <1>4, FreshSame DEF ProcessFResult, UndoFResult, Advance, AdvanceWithResult, IsView, Databases
<1>5. ASSUME NEW type \in FieldUpdates, ProcessFUpdate(type) PROVE FreshView(cache') /\ view' = view
  <2>1. CASE Advance(cache)
    BY <2>1, <1>plain
  <2>2. CASE ~Advance(cache)
    <3>1. PICK e, x : e = Out.event /\ x = cache.fieldEvents[e]
      OBVIOUS
    <3>2. PICK out : out = Out
      OBVIOUS
    <3>3. e \in DOMAIN cache.fieldEvents /\ out.type \in FieldUpdates
      BY <1>5, <2>2, <3>1, <3>2 DEF ProcessFUpdate, Processing, Handles
    <3>4. PICK db : db = [cache.fieldEvents EXCEPT ![e] = UpdatedField(@, out)]
      OBVIOUS
    <3>5. PICK c : c = [cache EXCEPT !.fieldEvents = db]
      OBVIOUS
    <3>6. AdvanceWithUndo(c, <<FieldUndo(e, x)>>)
      BY <1>5, <2>2, <3>1, <3>2, <3>4, <3>5, Zenon DEF ProcessFUpdate
    <3>7. Fresh(x)
      BY <3>1, <3>3 DEF FreshView, FreshEvents
    <3>8. Fresh(UpdatedField(x, out))
      BY <3>3, <3>7, UpdatedFresh
    <3>9. FreshEvents(db)
      BY <3>1, <3>4, <3>8 DEF FreshView, FreshEvents
    <3>10. IsView(c) /\ c.fieldEvents = db /\ c.undos = cache.undos
      BY <1>v, <3>5 DEF IsView, Databases
    <3>11. FreshView(c)
      BY <3>9, <3>10 DEF FreshView
    <3>12. FreshRecord(<<FieldUndo(e, x)>>)
      BY <3>7, OneRecord
    <3> QED BY <3>6, <3>10, <3>11, <3>12, FreshSaved
  <2> QED BY <2>1, <2>2
<1>6. ASSUME NEW type, UndoFieldBet(type) PROVE FreshView(cache') /\ view' = view
  <2>1. PICK mid : mid = UndoEventChanges(cache, UndoKey)
    OBVIOUS
  <2>2. IsView(mid)
    BY <1>v, <2>1, UndoneView
  <2>3. PICK b : b = DbErase(mid.fieldBets, BetKey)
    OBVIOUS
  <2>4. PICK c : c = [mid EXCEPT !.fieldBets = b]
    OBVIOUS
  <2>5. Advance(cache) \/ RevertOr(c)
    BY <1>6, <2>1, <2>3, <2>4, Zenon DEF UndoFieldBet
  <2>6. \A d \in {"fieldEvents", "undos"} : c[d] = mid[d]
    BY <2>2, <2>4 DEF IsView, Databases
  <2> QED BY <1>v, <2>1, <2>5, <2>6, <1>plain, FreshReverted
<1>7. ASSUME NEW type, UndoFUpdate(type) PROVE FreshView(cache') /\ view' = view
  BY <1>v, <1>7, <1>plain, FreshReverted DEF UndoFUpdate
<1>8. CASE UndoFEvent
  <2>1. CASE Advance(cache)
    BY <2>1, <1>plain
  <2>2. CASE ~Advance(cache)
    <3>1. PICK db : db = DbErase(cache.fieldEvents, Out.event)
      OBVIOUS
    <3>2. cache' = [cache EXCEPT !.fieldEvents = db] /\ view' = view
      BY <1>8, <2>2, <3>1, Zenon DEF UndoFEvent, Advance
    <3>3. FreshEvents(db)
      BY <3>1 DEF FreshView, FreshEvents, DbErase, Restrict
    <3>4. cache'.fieldEvents = db /\ cache'.undos = cache.undos
      BY <1>v, <3>2 DEF IsView, Databases
    <3> QED BY <3>2, <3>3, <3>4 DEF FreshView
  <2> QED BY <2>1, <2>2
<1> QED BY <1>1, <1>2, <1>3, <1>4, <1>5, <1>6, <1>7, <1>8 DEF FieldStep

\* Outputs about games leave field events alone.
LEMMA FreshGames ==
    ASSUME IsView(cache), FreshView(cache), GamesStep
    PROVE  FreshView(cache') /\ view' = view
<1>1. CASE ProcessCgBet \/ ProcessQgBet \/ ProcessCgEvent \/ ProcessCgResult
  BY <1>1, FreshSame DEF ProcessCgBet, ProcessQgBet, ProcessCgEvent, ProcessCgResult, Advance,
                         AdvanceWithResult, IsView, Databases
<1>2. CASE UndoCgBet \/ UndoQgBet \/ UndoCgEvent \/ UndoCgResult
  BY <1>2, FreshSame DEF UndoCgBet, UndoQgBet, UndoCgEvent, UndoCgResult, EraseOr, Abort, Advance, IsView, Databases
<1> QED BY <1>1, <1>2 DEF GamesStep

(* The inductive invariant of the odds: not only the events are fresh, in both
   views, but also those in the undo records, since a reorganisation puts them
   back without calculating anything. *)
FreshInv == FreshView(view) /\ FreshView(cache)

\* Settling leaves the field events and the records.
LEMMA FreshBegin ==
    ASSUME IsView(view), FreshInv, NEW time, NEW proof, BeginConnect(time, proof)
    PROVE  FreshView(cache') /\ view' = view
<1>1. CASE view.lastHeight # TipHeight
  BY <1>1 DEF BeginConnect, Abort, FreshInv
<1>2. CASE view.lastHeight = TipHeight
  <2>1. PICK due : due = GetBettingPayouts(view, Last(chain), TipHeight + 1)
    OBVIOUS
  <2>2. StartBlock(time, proof, due)
    BY <1>2, <2>1 DEF BeginConnect
  <2>3. PICK b1, b2, b3, b4 : due.view = [view EXCEPT !.bets = b1, !.chainGamesLottoBets = b2,
                                                      !.quickGamesBets = b3, !.fieldBets = b4]
    BY <2>1 DEF GetBettingPayouts, AllPayouts
  <2>4. PICK c : c = due.view
    OBVIOUS
  <2>5. IsView(c) /\ c.fieldEvents = view.fieldEvents /\ c.undos = view.undos
    BY <2>3, <2>4 DEF IsView, Databases
  <2>6. cache'.fieldEvents = c.fieldEvents /\ cache'.undos = c.undos /\ view' = view
    BY <2>2, <2>4, <2>5 DEF StartBlock, SavePayoutsInfo, IsView, Databases
  <2> QED BY <2>5, <2>6, FreshSame DEF FreshInv
<1> QED BY <1>1, <1>2

\* Ending a block prunes records.
LEMMA FreshEnd ==
    ASSUME IsView(cache), FreshView(cache), EndConnect
    PROVE  FreshView(cache') /\ view' = cache'
<1>1. PICK h : h = BlkHeight
  OBVIOUS
<1>2. PICK u : u = Restrict(cache.undos, {k \in DOMAIN cache.undos : cache.undos[k].height >= h - MaxUndoDepth})
  OBVIOUS
<1>3. PICK pruned : pruned = [cache EXCEPT !.undos = u]
  OBVIOUS
<1>4. PruneOlderUndos(cache, h - MaxUndoDepth) = pruned
  BY <1>2, <1>3, Zenon DEF PruneOlderUndos
<1>5. PICK mid : mid \in {cache, pruned} /\ cache' = [mid EXCEPT !.lastHeight = h] /\ view' = cache'
  BY <1>1, <1>4 DEF EndConnect
<1>6. FreshUndos(u)
  BY <1>2, FewerRecords DEF FreshView
<1>7. IsView(pruned) /\ pruned.fieldEvents = cache.fieldEvents /\ pruned.undos = u
  BY <1>3 DEF IsView, Databases
<1>8. IsView(mid) /\ FreshView(mid)
  BY <1>5, <1>6, <1>7 DEF FreshView
<1>9. cache'.fieldEvents = mid.fieldEvents /\ cache'.undos = mid.undos
  BY <1>5, <1>8 DEF IsView, Databases
<1> QED BY <1>5, <1>8, <1>9, FreshSame

\* Opening the settled bets again leaves the field events and the records.
LEMMA FreshBack ==
    ASSUME IsView(view), FreshInv, BeginDisconnect
    PROVE  FreshView(cache') /\ view' = view
<1>1. CASE Abort
  BY <1>1 DEF Abort, FreshInv
<1>2. CASE ~Abort
  <2>1. PICK ids : ids = chain[Len(chain) - 1].vResultIDs
    OBVIOUS
  <2>2. PICK h : h = TipHeight
    OBVIOUS
  <2>3. PICK a : a = UndoPLBetPayouts(view, ids, h)
    OBVIOUS
  <2>4. PICK b : b = UndoQGBetPayouts(a, h)
    OBVIOUS
  <2>5. cache' = UndoPayoutsInfo(b, h) /\ view' = view
    BY <1>2, <2>1, <2>2, <2>3, <2>4 DEF BeginDisconnect
  <2>6. IsView(a) /\ a.fieldEvents = view.fieldEvents /\ a.undos = view.undos
    BY <2>3 DEF UndoPLBetPayouts, IsView, Databases
  <2>7. IsView(b) /\ b.fieldEvents = view.fieldEvents /\ b.undos = view.undos
    BY <2>4, <2>6 DEF UndoQGBetPayouts, IsView, Databases
  <2>8. cache'.fieldEvents = b.fieldEvents /\ cache'.undos = b.undos
    BY <2>5, <2>7 DEF UndoPayoutsInfo, IsView, Databases
  <2> QED BY <2>5, <2>7, <2>8, FreshSame DEF FreshInv
<1> QED BY <1>1, <1>2

\* Every step.
LEMMA FreshStep ==
    ASSUME OddsFromInputs, FieldLists, TypeOK, FreshInv, [Next]_vars
    PROVE  FreshInv'
<1>v. IsView(view) /\ IsView(cache)
  BY DEF TypeOK
<1>1. CASE \E time \in BlockTimes, proof \in Proofs : BeginConnect(time, proof)
  <2>1. FreshView(cache') /\ view' = view
    BY <1>v, <1>1, FreshBegin
  <2> QED BY <2>1 DEF FreshInv
<1>2. CASE RejectBlock
  BY <1>2 DEF RejectBlock, FreshInv
<1>3. CASE \E tx \in Txs : TakeTx(tx)
  BY <1>3 DEF TakeTx, FreshInv
<1>4. CASE EndConnect
  <2>1. FreshView(cache') /\ view' = cache'
    BY <1>v, <1>4, FreshEnd DEF FreshInv
  <2> QED BY <2>1 DEF FreshInv
<1>5. CASE BeginDisconnect
  <2>1. FreshView(cache') /\ view' = view
    BY <1>v, <1>5, FreshBack
  <2> QED BY <2>1 DEF FreshInv
<1>6. CASE EndDisconnect
  <2>1. cache'.fieldEvents = cache.fieldEvents /\ cache'.undos = cache.undos /\ view' = cache'
    BY <1>v, <1>6 DEF EndDisconnect, IsView, Databases
  <2>2. FreshView(cache')
    BY <2>1, FreshSame DEF FreshInv
  <2> QED BY <2>1, <2>2 DEF FreshInv
<1>7. CASE SkipOutput
  BY <1>7 DEF SkipOutput, Advance, FreshInv
<1>8. CASE PeerlessStep \/ FieldStep \/ GamesStep
  <2>1. FreshView(cache') /\ view' = view
    BY <1>v, <1>8, FreshPeerless, FreshFieldStep, FreshGames DEF FreshInv
  <2> QED BY <2>1 DEF FreshInv
<1>9. CASE UNCHANGED vars
  BY <1>9 DEF vars, FreshInv
<1> QED BY <1>1, <1>2, <1>3, <1>4, <1>5, <1>6, <1>7, <1>8, <1>9 DEF Next, Connect, Disconnect

(* The stored odds of every field event are those that CalcOdds would give now,
   for any bets, updates, zeroings, settlements and reorganisations: every
   handler that changes an input calculates them again, ProcessBettingTx may
   save contenders whose odds it leaves (CountFieldBet), and UndoEventChanges
   puts back events without calculating (CFieldEventDB::CalcOdds). *)
THEOREM FieldOddsFreshCorrect ==
    OddsFromInputs /\ FieldLists /\ FreshView(BaseView) => (Spec => []FieldOddsFresh)
<1> SUFFICES ASSUME OddsFromInputs, FieldLists, FreshView(BaseView) PROVE Spec => []FieldOddsFresh
  OBVIOUS
<1>1. Init => FreshInv
  BY DEF Init, FreshInv
<1>2. TypeOK /\ FreshInv /\ [Next]_vars => FreshInv'
  BY FreshStep
<1>3. FreshInv => FieldOddsFresh
  BY FreshCalc DEF FreshInv, FreshView, FreshEvents, FieldOddsFresh
<1> QED BY <1>1, <1>2, <1>3, ChainTypeCorrect, PTL DEF Spec
=============================================================================
