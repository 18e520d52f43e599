----------------------- MODULE ChainActivation_proofs -----------------------
(***************************************************************************)
(* Proofs about ChainActivation, for every tree of blocks, whichever of    *)
(* them fail or get a chain lock, and any number of commands and restarts: *)
(* the failure flags of the index have their causes, no block of the       *)
(* active chain is marked, the candidates are the ones there should be,    *)
(* ActivateBestChain lets go of cs_main only after progress, and when      *)
(* nobody has anything left to do, the tip is the best usable block and    *)
(* holds the locked one, in whatever order the threads take cs_main.       *)
(*                                                                         *)
(* All but the first two of these suppose that no block fails with         *)
(* BLOCK_CACHE_MISSING_PREV: that failure empties the candidates.          *)
(***************************************************************************)
EXTENDS ChainActivation, BlockIndex_proofs

OpTypes ==
    [pc : {"idle", "outer", "choose", "step", "release", "invalidate"}, by : {"net", "sched"},
     most : Blocks \cup {None}, newTip : Blocks \cup {None}, start : Blocks \cup {None},
     old : Blocks \cup {None}, moved : BOOLEAN, block : Blocks \cup {None},
     mark : Blocks \cup {None}, waiting : SUBSET Blocks]

\* What the thread that holds m_cs_chainstate keeps while others have cs_main:
\* pindexMostWork stays clear and ahead of the tip, and what InvalidateBlock
\* is going to mark is not below the tip once the block is disconnected.
OpSound ==
    /\ op \in OpTypes
    /\ op.pc \in {"idle", "invalidate"} => op.most = None
    /\ op.most # None =>
          Clear(op.most, ix) /\ (op.most = ix.tip \/ op.most \notin Chain[ix.tip])
    /\ op.pc = "step" => op.most # None /\ op.most # ix.tip
    /\ op.pc = "invalidate" =>
          /\ op.block \in Blocks \ {Genesis} /\ op.mark \in Blocks
          /\ op.mark = op.block \/ op.mark \notin Chain[ix.tip]

\* The chain lock handler works on blocks.
LocksSound ==
    /\ lock \in [best : Blocks \cup {None}, index : Blocks \cup {None}, enforced : BOOLEAN]
    /\ clsig \in {<<>>} \cup (Blocks \X BOOLEAN)
    /\ sched \in [job : {"none", "clsig", "tip"}, pc : {"none", "enforce", "check", "activate"},
                  block : Blocks \cup {None}]
    /\ sched.pc = "enforce" => sched.block \in Blocks

AInv == IndexSound(ix) /\ OpSound /\ LocksSound

LEMMA AInvInit == Init => AInv
<1> SUFFICES ASSUME Init PROVE AInv
  OBVIOUS
<1>1. IndexSound(ix)
  BY GenesisSound DEF Init
<1>2. Idle \in OpTypes /\ Idle.pc = "idle" /\ Idle.most = None
  BY DEF Idle, OpTypes
<1>3. OpSound
  BY <1>2 DEF Init, OpSound
<1>4. LocksSound
  <2>1. FALSE \in BOOLEAN
    BY Zenon
  <2> QED BY <2>1 DEF Init, LocksSound, NoJob
<1> QED BY <1>1, <1>3, <1>4 DEF AInv

\* Others than the thread with m_cs_chainstate neither move the tip nor mark a
\* block of a clear chain.
LEMMA OthersKeep ==
    ASSUME AInv, IndexSound(ix'), KeepsClear(ix, ix'), ix'.tip = ix.tip, op' = op
    PROVE  OpSound'
BY DEF AInv, OpSound, OpTypes, KeepsClear

LEMMA LateHeaderKeeps ==
    ASSUME LocksSound, NEW b \in Blocks, LateHeader(b) \/ UNCHANGED lock, UNCHANGED <<clsig, sched>>
    PROVE  LocksSound'
<1>1. lock' \in [best : Blocks \cup {None}, index : Blocks \cup {None}, enforced : BOOLEAN]
  <2>1. FALSE \in BOOLEAN
    BY Zenon
  <2> QED BY <2>1 DEF LateHeader, LocksSound
<1> QED BY <1>1 DEF LocksSound

LEMMA ProcessHeaderKeeps ==
    ASSUME AInv, NEW b \in Blocks \ {Genesis}, ProcessHeader(b)
    PROVE  AInv'
<1> DEFINE conflicts == HasConflictingChainLock(b)
<1>1. conflicts \in BOOLEAN
  BY Zenon DEF HasConflictingChainLock
<1>2. Parent[b] \in ix.known /\ ix' = AcceptBlockHeader(b, ix, conflicts)
  BY DEF ProcessHeader
<1>3. IndexSound(ix') /\ KeepsClear(ix, ix') /\ ix'.tip = ix.tip
  <2> HIDE DEF conflicts
  <2> QED BY <1>1, <1>2, HeaderSound DEF AInv
<1>4. OpSound'
  BY <1>3, OthersKeep DEF ProcessHeader
<1>5. LocksSound'
  BY LateHeaderKeeps DEF ProcessHeader, AInv
<1> QED BY <1>3, <1>4, <1>5 DEF AInv

LEMMA ProcessNewBlockKeeps ==
    ASSUME AInv, NEW b \in Blocks \ {Genesis}, NEW requested \in BOOLEAN, ProcessNewBlock(b, requested)
    PROVE  AInv'
<1> DEFINE conflicts == HasConflictingChainLock(b)
           s == AcceptBlockHeader(b, ix, conflicts)
           accepted == HeaderAccepted(b, ix, conflicts)
           ignored == b \in s.data \/ (~requested /\ ChainWork[b] < ChainWork[s.tip])
<1>1. conflicts \in BOOLEAN
  BY Zenon DEF HasConflictingChainLock
<1>2. Parent[b] \in ix.known
  BY DEF ProcessNewBlock
<1>3. \/ ix' = s
      \/ accepted /\ ~ignored /\ ix' = [s EXCEPT !.failedValid = @ \cup {b}]
      \/ accepted /\ ~ignored /\ ix' \in ReceivedBlockTransactions(b, s)
  BY Zenon DEF ProcessNewBlock
<1>4. /\ IndexSound(s) /\ KeepsClear(ix, s) /\ s.tip = ix.tip
      /\ accepted => b \in s.known
  <2> HIDE DEF conflicts
  <2> QED BY <1>1, <1>2, HeaderSound DEF AInv
<1>5. ~ignored => b \notin s.data
  OBVIOUS
<1> HIDE DEF s, accepted, ignored
<1>6. IndexSound(ix') /\ KeepsClear(s, ix') /\ ix'.tip = s.tip
  <2>1. CASE ix' = s
    BY <1>4, <2>1 DEF KeepsClear
  <2>2. CASE accepted /\ ~ignored /\ ix' = [s EXCEPT !.failedValid = @ \cup {b}]
    BY <1>4, <1>5, <2>2, ContextBadSound
  <2>3. CASE accepted /\ ~ignored /\ ix' \in ReceivedBlockTransactions(b, s)
    BY <1>4, <2>3, ReceivedSound
  <2> QED BY <1>3, <2>1, <2>2, <2>3
<1>7. KeepsClear(ix, ix') /\ ix'.tip = ix.tip
  BY <1>4, <1>6 DEF KeepsClear
<1>8. OpSound'
  BY <1>6, <1>7, OthersKeep DEF ProcessNewBlock
<1>9. LocksSound'
  <2>1. (LateHeader(b) \/ UNCHANGED lock) /\ UNCHANGED <<clsig, sched>>
    BY Zenon DEF ProcessNewBlock
  <2> QED BY <2>1, LateHeaderKeeps DEF AInv
<1> QED BY <1>6, <1>8, <1>9 DEF AInv

LEMMA PreciousKeeps ==
    ASSUME AInv, NEW b \in Blocks, Precious(b)
    PROVE  AInv'
<1>1. IndexSound(ix') /\ KeepsClear(ix, ix') /\ ix'.tip = ix.tip
  BY PreciousSound DEF Precious, AInv
<1> QED BY <1>1, OthersKeep DEF Precious, AInv, lockVars, LocksSound

LEMMA ReconsiderKeeps ==
    ASSUME AInv, NEW b \in Blocks, Reconsider(b)
    PROVE  AInv'
<1>1. IndexSound(ix') /\ KeepsClear(ix, ix') /\ ix'.tip = ix.tip
  BY ResetSound DEF Reconsider, AInv
<1> QED BY <1>1, OthersKeep DEF Reconsider, AInv, lockVars, LocksSound

-----------------------------------------------------------------------------
LEMMA ActivateKeeps ==
    ASSUME AInv, Activate
    PROVE  AInv'
<1>1. \/ op' = [Idle EXCEPT !.pc = "outer"]
      \/ op' = [Idle EXCEPT !.pc = "outer", !.by = "sched"]
  BY DEF Activate
<1>2. op' \in OpTypes /\ op'.pc = "outer" /\ op'.most = None
  BY <1>1 DEF Idle, OpTypes
<1> QED BY <1>2 DEF Activate, AInv, OpSound, LocksSound, lockVars

LEMMA TakeMainKeeps ==
    ASSUME AInv, TakeMain
    PROVE  AInv'
<1>1. op' \in OpTypes /\ op'.pc = "choose" /\ op'.most = op.most
  BY DEF TakeMain, AInv, OpSound, OpTypes, IndexSound, Indexes
<1> QED BY <1>1 DEF TakeMain, AInv, OpSound, LocksSound, lockVars

LEMMA FindUnusableKeeps ==
    ASSUME AInv, FindUnusable
    PROVE  AInv'
<1>1. BestCandidate(ix) \in Blocks
  BY BestCandidateIs DEF FindUnusable, AInv, IndexSound, Indexes
<1>2. IndexSound(ix') /\ ix'.tip = ix.tip
  BY <1>1, DropChainSound DEF FindUnusable, AInv
<1> QED BY <1>2 DEF FindUnusable, AInv, OpSound, LocksSound, lockVars

\* What FindMostWorkChain returns is clear: the rest of its chain is part of the
\* active one.
LEMMA FindMostWorkKeeps ==
    ASSUME AInv, FindMostWork
    PROVE  AInv'
<1> DEFINE most == IF op.most # None THEN op.most
                   ELSE IF ix.candidates = {} THEN None ELSE BestCandidate(ix)
<1>0. /\ op \in OpTypes /\ op.pc = "choose" /\ ix.tip \in Blocks /\ ix \in Indexes
      /\ op.most = None /\ ix.candidates # {} => Unusable(BestCandidate(ix), ix) = {}
      /\ op' = IF most \in {None, ix.tip}
                THEN [op EXCEPT !.most = most, !.pc = "release"]
                ELSE [op EXCEPT !.most = most, !.pc = "step", !.old = ix.tip]
      /\ UNCHANGED <<ix, due, lockVars, tipScheduled, regressed, bounds>>
  BY DEF FindMostWork, AInv, OpSound, IndexSound, Indexes
<1>1. /\ most \in Blocks \cup {None}
      /\ most # None => Clear(most, ix) /\ (most = ix.tip \/ most \notin Chain[ix.tip])
  <2>1. CASE op.most # None
    BY <1>0, <2>1 DEF AInv, OpSound, OpTypes
  <2>2. CASE op.most = None /\ ix.candidates = {}
    BY <2>2
  <2>3. CASE op.most = None /\ ix.candidates # {}
    <3>1. most = BestCandidate(ix) /\ most \in ix.candidates /\ most \in Blocks
      BY <1>0, <2>3, BestCandidateIs DEF Indexes
    <3>2. Unusable(most, ix) = {}
      BY <1>0, <2>3, <3>1
    <3>3. Chain[most] \subseteq Blocks
      BY <3>1, ChainDef
    <3> HIDE DEF most
    <3>4. Clear(most, ix)
      BY <3>2, <3>3 DEF Unusable, Clear, AInv, IndexSound
    <3> QED BY <3>1, <3>4 DEF AInv, IndexSound, CandidatesAhead
  <2> QED BY <2>1, <2>2, <2>3
<1> HIDE DEF most
<1>2. /\ op' \in OpTypes /\ op'.most = most
      /\ op'.pc = IF most \in {None, ix.tip} THEN "release" ELSE "step"
  BY <1>0, <1>1 DEF OpTypes
<1>3. OpSound'
  BY <1>0, <1>1, <1>2 DEF OpSound
<1> QED BY <1>0, <1>3 DEF AInv, LocksSound, lockVars

LEMMA DisconnectTipKeeps ==
    ASSUME AInv, DisconnectTip
    PROVE  AInv'
<1>0. /\ op.pc = "step" /\ op.most \in Blocks /\ ix.tip \in Blocks /\ ix.tip \notin Chain[op.most]
      /\ op.most \notin Chain[ix.tip] /\ ix' = [ix EXCEPT !.tip = Parent[@]] /\ op' = op
  BY DEF DisconnectTip, AInv, OpSound, OpTypes, IndexSound, Indexes
<1>1. ix.tip # Genesis
  BY <1>0, ChainHolds
<1>2. IndexSound(ix') /\ KeepsClear(ix, ix')
  BY <1>0, <1>1, DisconnectSound DEF AInv
<1>3. /\ ix'.tip = Parent[ix.tip] /\ Parent[ix.tip] \in Blocks
      /\ Chain[ix.tip] = {ix.tip} \cup Chain[Parent[ix.tip]]
  BY <1>0, <1>1, ChainDef, TreeAssumption DEF AInv, IndexSound, Indexes
<1>4. op.most \notin Chain[ix'.tip] /\ op.most # ix'.tip
  BY <1>0, <1>3, ChainHolds
<1>5. OpSound'
  BY <1>0, <1>2, <1>4 DEF AInv, OpSound, KeepsClear
<1> QED BY <1>2, <1>5 DEF DisconnectTip, AInv, LocksSound, lockVars

\* The end of a step, with pindexMostWork kept or forgotten.
LEMMA StepEndKeeps ==
    ASSUME AInv, op.pc = "step", IndexSound(ix'), NEW most \in Blocks \cup {None},
           most # None => Clear(most, ix') /\ (most = ix'.tip \/ most \notin Chain[ix'.tip]),
           StepEnd(ix', most)
    PROVE  OpSound'
<1>1. ix'.tip \in Blocks /\ TRUE \in BOOLEAN
  BY DEF IndexSound, Indexes
<1> DEFINE pc == IF Worse(ix'.tip, op.start, ix') THEN "choose" ELSE "release"
<1>2. pc \in {"choose", "release"}
  OBVIOUS
<1>3. op' = [op EXCEPT !.moved = TRUE, !.newTip = ix'.tip, !.most = most, !.old = None, !.pc = pc]
  BY DEF StepEnd
<1> HIDE DEF pc
<1>4. op' \in OpTypes /\ op'.most = most /\ op'.pc = pc
  BY <1>1, <1>2, <1>3 DEF AInv, OpSound, OpTypes
<1> QED BY <1>2, <1>4 DEF OpSound

LEMMA ConnectTipKeeps ==
    ASSUME AInv, ConnectTip
    PROVE  AInv'
<1> DEFINE b == CHOOSE x \in Chain[op.most] \ Chain[ix.tip] : Parent[x] = ix.tip
<1>0. /\ op.pc = "step" /\ op.most \in Blocks /\ ix.tip \in Blocks /\ ix.tip \in Chain[op.most]
      /\ op.most \notin Chain[ix.tip] /\ Clear(op.most, ix) /\ op \in OpTypes
  BY DEF ConnectTip, AInv, OpSound, OpTypes, IndexSound, Indexes
<1>1. b \in Chain[op.most] \ Chain[ix.tip] /\ Parent[b] = ix.tip
  BY <1>0, NextExists
<1>2. \/ ix' = InvalidBlockFound(b, ix) /\ StepEnd(ix', None)
      \/ ix' = [ix EXCEPT !.candidates = {}] /\ StepEnd(ix', None)
      \/ /\ ix' = Connected(b, ix)
         /\ \/ StepEnd(ix', op.most)
            \/ b # op.most /\ UNCHANGED op
  BY Zenon DEF ConnectTip
<1>3. UNCHANGED <<due, lockVars, tipScheduled, regressed, bounds>>
  BY DEF ConnectTip
<1> HIDE DEF b
<1>4. b \in Blocks /\ Clear(b, ix)
  BY <1>0, <1>1, ChainHolds DEF Clear
<1>5. CASE ix' = InvalidBlockFound(b, ix) /\ StepEnd(ix', None)
  <2>1. IndexSound(ix')
    BY <1>1, <1>4, <1>5, InvalidFoundSound DEF AInv
  <2>2. OpSound'
    BY <1>0, <1>5, <2>1, StepEndKeeps
  <2> QED BY <1>3, <2>1, <2>2 DEF AInv, LocksSound, lockVars
<1>6. CASE ix' = [ix EXCEPT !.candidates = {}] /\ StepEnd(ix', None)
  <2>1. IndexSound(ix')
    BY <1>6, CandidatesSound DEF AInv
  <2>2. OpSound'
    BY <1>0, <1>6, <2>1, StepEndKeeps
  <2> QED BY <1>3, <2>1, <2>2 DEF AInv, LocksSound, lockVars
<1>7. CASE /\ ix' = Connected(b, ix)
           /\ StepEnd(ix', op.most) \/ (b # op.most /\ UNCHANGED op)
  <2>1. IndexSound(ix') /\ KeepsClear(ix, ix') /\ ix'.tip = b
    BY <1>4, <1>7, ConnectedSound DEF AInv
  <2>2. Clear(op.most, ix') /\ (op.most = b \/ op.most \notin Chain[b])
    BY <1>0, <1>1, <2>1, ChainWorkGrows DEF KeepsClear
  <2>3. CASE StepEnd(ix', op.most)
    BY <1>0, <2>1, <2>2, <2>3, StepEndKeeps, <1>3 DEF AInv, LocksSound, lockVars
  <2>4. CASE b # op.most /\ UNCHANGED op
    <3>1. OpSound'
      BY <1>0, <2>1, <2>2, <2>4 DEF AInv, OpSound
    <3> QED BY <1>3, <2>1, <3>1 DEF AInv, LocksSound, lockVars
  <2> QED BY <1>7, <2>3, <2>4
<1> QED BY <1>2, <1>5, <1>6, <1>7

LEMMA ReleaseMainKeeps ==
    ASSUME AInv, ReleaseMain
    PROVE  AInv'
<1>1. /\ ix' = ix /\ lock' = lock /\ clsig' = clsig
      /\ op' = Idle \/ op' = [op EXCEPT !.pc = "outer", !.start = None, !.moved = FALSE]
      /\ sched' = NoJob \/ sched' = sched
  BY DEF ReleaseMain, JobEnd
<1>2. Idle \in OpTypes /\ Idle.pc = "idle" /\ Idle.most = None
  BY DEF Idle, OpTypes
<1>3. op' = Idle \/ (op' \in OpTypes /\ op'.pc = "outer" /\ op'.most = op.most)
  BY <1>1 DEF AInv, OpSound, OpTypes
<1>4. OpSound'
  BY <1>1, <1>2, <1>3 DEF AInv, OpSound
<1>5. LocksSound'
  BY <1>1 DEF AInv, LocksSound, NoJob
<1> QED BY <1>1, <1>4, <1>5 DEF AInv

-----------------------------------------------------------------------------
LEMMA InvalidateKeeps ==
    ASSUME AInv, NEW b \in Blocks, Invalidate(b)
    PROVE  AInv'
<1> DEFINE W == {c \in Connectable(ix) \ Chain[ix.tip] : ~Worse(c, Parent[b], ix)}
<1>1. W \in SUBSET Blocks
  BY DEF AInv, IndexSound, Indexes, Connectable
<1>2. /\ op' = [Idle EXCEPT !.pc = "invalidate", !.block = b, !.mark = b, !.waiting = W]
      /\ b \in Blocks \ {Genesis}
      /\ UNCHANGED <<ix, lockVars>>
  BY DEF Invalidate
<1> HIDE DEF W
<1>3. /\ op' \in OpTypes /\ op'.pc = "invalidate" /\ op'.most = None
      /\ op'.block = b /\ op'.mark = b
  BY <1>1, <1>2 DEF Idle, OpTypes
<1>4. OpSound'
  BY <1>2, <1>3 DEF OpSound
<1> QED BY <1>2, <1>4 DEF AInv, LocksSound, lockVars

\* InvalidateBlock never turns BLOCK_FAILED_VALID into BLOCK_FAILED_CHILD: the
\* block below the tip is clear.
LEMMA InvalidateTipIs ==
    ASSUME AInv, InvalidateTip
    PROVE  /\ op.pc = "invalidate" /\ ix.tip # Genesis
           /\ \E better \in SUBSET op.waiting :
                 /\ \A c \in better : ~Worse(c, Parent[ix.tip], ix)
                 /\ ix' = [ix EXCEPT !.tip = Parent[ix.tip], !.failedValid = @ \cup {ix.tip},
                               !.candidates = (@ \ {ix.tip}) \cup {Parent[ix.tip]} \cup better]
                 /\ op' = [op EXCEPT !.mark = ix.tip, !.waiting = @ \ better]
<1> DEFINE prev == Parent[ix.tip]
           better == {c \in op.waiting : ~Worse(c, prev, ix)}
           swap == prev = op.mark /\ op.mark \in ix.failedValid
           gone == IF swap THEN {op.mark} ELSE {}
<1>0. /\ op.pc = "invalidate" /\ op.block \in Chain[ix.tip] /\ op.block \in Blocks \ {Genesis}
      /\ op \in OpTypes /\ op.waiting \in SUBSET Blocks /\ ix \in Indexes /\ ix.tip \in Blocks
      /\ op.most = None
  BY DEF InvalidateTip, AInv, OpSound, OpTypes, IndexSound, Indexes
<1>1. /\ ix' = [ix EXCEPT !.tip = prev, !.failedValid = (@ \cup {ix.tip}) \ gone,
                          !.failedChild = @ \cup gone,
                          !.candidates = (@ \ {ix.tip}) \cup {prev} \cup better]
      /\ op' = [op EXCEPT !.mark = ix.tip, !.waiting = @ \ better]
      /\ UNCHANGED lockVars
  BY Zenon DEF InvalidateTip
<1>2. ix.tip # Genesis /\ prev \in Chain[ix.tip]
  <2>1. ix.tip # Genesis
    BY <1>0, ChainDef
  <2>2. prev \in Blocks /\ Chain[ix.tip] = {ix.tip} \cup Chain[prev]
    BY <1>0, <2>1, ChainDef, TreeAssumption
  <2> QED BY <2>1, <2>2, ChainHolds
<1>3. ~swap
  BY <1>2 DEF AInv, IndexSound, Clear, Failed
<1>4. better \in SUBSET op.waiting /\ \A c \in better : ~Worse(c, Parent[ix.tip], ix)
  BY <1>0
<1>5. ix' = [ix EXCEPT !.tip = Parent[ix.tip], !.failedValid = @ \cup {ix.tip},
                       !.candidates = (@ \ {ix.tip}) \cup {Parent[ix.tip]} \cup better]
  <2> HIDE DEF better, swap
  <2> QED BY <1>0, <1>1, <1>3 DEF Indexes
<1> HIDE DEF better, swap, prev
<1> QED BY <1>0, <1>1, <1>2, <1>4, <1>5

LEMMA InvalidateTipKeeps ==
    ASSUME AInv, InvalidateTip
    PROVE  AInv'
<1>0. /\ op.pc = "invalidate" /\ op.block \in Blocks \ {Genesis} /\ op \in OpTypes
      /\ op.waiting \in SUBSET Blocks /\ op.most = None /\ ix.tip \in Blocks
  BY DEF InvalidateTip, AInv, OpSound, OpTypes, IndexSound, Indexes
<1>1. PICK better \in SUBSET op.waiting :
        /\ \A c \in better : ~Worse(c, Parent[ix.tip], ix)
        /\ ix' = [ix EXCEPT !.tip = Parent[ix.tip], !.failedValid = @ \cup {ix.tip},
                      !.candidates = (@ \ {ix.tip}) \cup {Parent[ix.tip]} \cup better]
        /\ op' = [op EXCEPT !.mark = ix.tip, !.waiting = @ \ better]
  BY InvalidateTipIs
<1>2. ix.tip # Genesis /\ better \in SUBSET Blocks
  BY <1>0, InvalidateTipIs
<1>3. IndexSound(ix') /\ ix.tip \notin Chain[ix'.tip]
  BY <1>1, <1>2, InvalidateTipSound DEF AInv
<1>4. /\ op' \in OpTypes /\ op'.pc = "invalidate" /\ op'.most = None
      /\ op'.block = op.block /\ op'.mark = ix.tip
  BY <1>0, <1>1 DEF OpTypes
<1>5. OpSound'
  BY <1>0, <1>3, <1>4 DEF OpSound
<1>6. UNCHANGED lockVars
  BY DEF InvalidateTip
<1> QED BY <1>3, <1>5, <1>6 DEF AInv, LocksSound, lockVars

LEMMA InvalidateEndKeeps ==
    ASSUME AInv, InvalidateEnd
    PROVE  AInv'
<1>1. op.mark \in Blocks /\ op.mark \notin Chain[ix.tip]
  BY DEF InvalidateEnd, AInv, OpSound
<1> DEFINE s == InvalidBlockFound(op.mark, ix)
<1>2. IndexSound(s)
  BY <1>1, InvalidFoundSound DEF AInv
<1>3. ix' = AddCandidates(s) /\ op' = Idle /\ UNCHANGED lockVars
  BY DEF InvalidateEnd
<1> HIDE DEF s
<1>4. IndexSound(ix')
  BY <1>2, <1>3, AddCandidatesSound
<1>5. Idle \in OpTypes /\ Idle.pc = "idle" /\ Idle.most = None
  BY DEF Idle, OpTypes
<1> QED BY <1>3, <1>4, <1>5 DEF AInv, OpSound, LocksSound, lockVars

-----------------------------------------------------------------------------
LEMMA SeeChainLockKeeps ==
    ASSUME AInv, NEW b \in Locks, SeeChainLock(b)
    PROVE  AInv'
<1>1. b \in Blocks
  BY FaultsAssumption
<1>2. clsig' \in Blocks \X BOOLEAN
  <2>1. CASE b \in ix.known
    <3>1. clsig' = <<b, TRUE>>
      BY <2>1 DEF SeeChainLock
    <3> QED BY <1>1, <3>1
  <2>2. CASE b \notin ix.known
    <3>1. (b \in ix.known) = FALSE
      BY <2>2
    <3>2. clsig' = <<b, FALSE>>
      BY <3>1, Zenon DEF SeeChainLock
    <3> QED BY <1>1, <3>2
  <2> QED BY <2>1, <2>2
<1>3. UNCHANGED <<ix, op, lock, sched>>
  BY DEF SeeChainLock
<1> QED BY <1>2, <1>3 DEF AInv, OpSound, LocksSound

LEMMA StoreChainLockKeeps ==
    ASSUME AInv, StoreChainLock
    PROVE  AInv'
<1>1. clsig[1] \in Blocks
  BY DEF StoreChainLock, AInv, LocksSound
<1>2. /\ \/ lock' = [best |-> clsig[1], index |-> clsig[1], enforced |-> FALSE]
         \/ lock' = [lock EXCEPT !.best = clsig[1]]
      /\ clsig' = <<>> /\ UNCHANGED <<ix, op, sched>>
  BY DEF StoreChainLock
<1>3. lock' \in [best : Blocks \cup {None}, index : Blocks \cup {None}, enforced : BOOLEAN]
  <2>1. CASE lock' = [best |-> clsig[1], index |-> clsig[1], enforced |-> FALSE]
    BY <1>1, <2>1
  <2>2. CASE lock' = [lock EXCEPT !.best = clsig[1]]
    BY <1>1, <2>2 DEF AInv, LocksSound
  <2> QED BY <1>2, <2>1, <2>2
<1> QED BY <1>2, <1>3 DEF AInv, OpSound, LocksSound

LEMMA BeginEnforceKeeps ==
    ASSUME AInv, NEW job \in {"clsig", "tip"}, BeginEnforce(job)
    PROVE  AInv'
<1>1. /\ UNCHANGED <<ix, op, lock, clsig>>
      /\ \/ UNCHANGED sched
         \/ lock.index # None /\ sched' = [job |-> job, pc |-> "enforce", block |-> lock.index]
  BY DEF BeginEnforce
<1> QED BY <1>1 DEF AInv, OpSound, LocksSound

LEMMA EnforceKeeps ==
    ASSUME AInv, Enforce
    PROVE  AInv'
<1>1. IndexSound(ix')
  BY EnforceSound DEF Enforce, AInv, LocksSound
<1>2. OpSound'
  BY <1>1 DEF Enforce, AInv, OpSound
<1>3. /\ \E e \in BOOLEAN : lock' = [lock EXCEPT !.enforced = e]
      /\ sched' = [sched EXCEPT !.pc = "check"] /\ UNCHANGED clsig
  <2>1. (lock.enforced \/ lock.index = sched.block) \in BOOLEAN
    BY Zenon
  <2> QED BY <2>1, Zenon DEF Enforce
<1>4. lock' \in [best : Blocks \cup {None}, index : Blocks \cup {None}, enforced : BOOLEAN]
  BY <1>3 DEF AInv, LocksSound
<1> QED BY <1>1, <1>2, <1>3, <1>4 DEF AInv, LocksSound

LEMMA EnforceCheckKeeps ==
    ASSUME AInv, EnforceCheck
    PROVE  AInv'
<1>1. /\ UNCHANGED <<ix, op, lock, clsig>>
      /\ sched' = NoJob \/ sched' = [sched EXCEPT !.pc = "activate"]
  BY DEF EnforceCheck, JobEnd
<1> QED BY <1>1 DEF AInv, OpSound, LocksSound, NoJob

LEMMA RestartKeeps ==
    ASSUME AInv, Restart
    PROVE  AInv'
<1>1. IndexSound(ix')
  BY StartupSound DEF Restart, AInv
<1>2. OpSound'
  BY <1>1 DEF Restart, AInv, OpSound
<1>3. FALSE \in BOOLEAN
  BY Zenon
<1> QED BY <1>1, <1>2, <1>3 DEF Restart, AInv, LocksSound

LEMMA AInvStep == AInv /\ [Next]_vars => AInv'
<1> SUFFICES ASSUME AInv, [Next]_vars PROVE AInv'
  OBVIOUS
<1>1. CASE ActivateStep
  BY <1>1, ActivateKeeps, TakeMainKeeps, FindUnusableKeeps, FindMostWorkKeeps,
     DisconnectTipKeeps, ConnectTipKeeps, ReleaseMainKeeps, Zenon DEF ActivateStep
<1>2. CASE InvalidateStep
  BY <1>2, InvalidateTipKeeps, InvalidateEndKeeps, Zenon DEF InvalidateStep
<1>3. CASE LockStep
  BY <1>3, StoreChainLockKeeps, BeginEnforceKeeps, EnforceKeeps, EnforceCheckKeeps, Zenon
     DEF LockStep
<1>4. CASE Arrival
  BY <1>4, ProcessHeaderKeeps, ProcessNewBlockKeeps, SeeChainLockKeeps, Zenon DEF Arrival
<1>5. CASE Operator
  BY <1>5, PreciousKeeps, ReconsiderKeeps, InvalidateKeeps, RestartKeeps, Zenon DEF Operator
<1>6. CASE UNCHANGED vars
  BY <1>6 DEF vars, AInv, OpSound, LocksSound
<1> QED BY <1>1, <1>2, <1>3, <1>4, <1>5, <1>6 DEF Next

LEMMA Invariance == Spec => []AInv
BY AInvInit, AInvStep, PTL DEF Spec

-----------------------------------------------------------------------------
\* Every block of m_failed_blocks is BLOCK_FAILED_VALID, as AcceptBlockHeader
\* asserts, for every tree of blocks and every order of the calls.
THEOREM ListedAreFailed == Spec => []FailedListed
<1>1. AInv => FailedListed
  BY DEF AInv, IndexSound, FailedListed
<1> QED BY <1>1, Invariance, PTL

\* A block with a failure flag has an ancestor, or is itself one, that is
\* BLOCK_FAILED_VALID, as CheckBlockIndex asserts: reconsiderblock, restarts and
\* enforcing a chain lock leave no flag without its cause.
THEOREM FailuresHaveCauses == Spec => []FailedHasCause
<1>1. AInv => FailedHasCause
  BY CauseFound DEF AInv, FailedHasCause
<1> QED BY <1>1, Invariance, PTL

\* No block of the active chain is failed or conflicting, not even while
\* ActivateBestChain or InvalidateBlock is between two of its steps.
THEOREM ChainStaysUsable == Spec => []ActiveChainUsable
<1>1. AInv => ActiveChainUsable
  BY DEF AInv, IndexSound, Clear, ActiveChainUsable
<1> QED BY <1>1, Invariance, PTL

-----------------------------------------------------------------------------
\* ActivateBestChain has cs_main.
HoldsMain == op.pc \in {"choose", "step", "release"}

\* The candidates are linked and not behind the tip all the time.  That none is
\* missing holds while cs_main is free, and for what does not sort before
\* starting_tip while ActivateBestChain has it: it may have disconnected blocks,
\* but goes on until the tip does not sort before starting_tip any more.  Until
\* it connects a block, the tip is not better than starting_tip.
CInv ==
    /\ LinksSound(ix)
    /\ op.most # None => op.most \in ix.linked
    /\ op.pc = "invalidate" => op.waiting \subseteq ix.linked
    /\ HoldsMain => op.start \in ix.linked
    /\ op.pc = "choose" \/ (op.pc = "step" /\ ix.tip \notin Chain[op.most])
          => ~Worse(op.start, ix.tip, ix)
    /\ op.pc \in {"idle", "outer"} /\ ~regressed => Complete(ix, ix.tip)
    /\ HoldsMain /\ ~regressed => Complete(ix, op.start)

LEMMA CInvInit == Init => CInv
<1> SUFFICES ASSUME Init PROVE CInv
  OBVIOUS
<1>1. ix = GenesisIndex /\ op.pc = "idle" /\ op.most = None /\ op.waiting = {} /\ ix.tip = Genesis
  BY DEF Init, Idle, GenesisIndex
<1> QED BY <1>1, GenesisLinks DEF CInv, HoldsMain

\* A call that takes cs_main and leaves the thread with m_cs_chainstate alone.
LEMMA OthersKeepC ==
    ASSUME CInv, MainFree, op' = op, LinksSound(ix'), ix.linked \subseteq ix'.linked,
           ~regressed' => ~regressed,
           ~regressed' /\ Complete(ix, ix.tip) => Complete(ix', ix'.tip)
    PROVE  CInv'
BY DEF CInv, HoldsMain, MainFree

LEMMA MarksKeepC ==
    ASSUME AInv, CInv, MainFree, op' = op, regressed' = regressed, OnlyMarks(ix, ix')
    PROVE  CInv'
<1>1. LinksSound(ix') /\ \A from : Complete(ix, from) => Complete(ix', from)
  BY MarksKeep DEF AInv, IndexSound, CInv
<1>2. ix'.linked = ix.linked /\ ix'.tip = ix.tip
  BY DEF OnlyMarks
<1> QED BY <1>1, <1>2, OthersKeepC

LEMMA ProcessHeaderC ==
    ASSUME AInv, CInv, NEW b \in Blocks \ {Genesis}, ProcessHeader(b)
    PROVE  CInv'
<1> DEFINE conflicts == HasConflictingChainLock(b)
<1>1. conflicts \in BOOLEAN
  BY Zenon DEF HasConflictingChainLock
<1>2. /\ Parent[b] \in ix.known /\ ix' = AcceptBlockHeader(b, ix, conflicts)
      /\ MainFree /\ op' = op /\ regressed' = regressed
  BY DEF ProcessHeader
<1> HIDE DEF conflicts
<1>3. OnlyMarks(ix, ix')
  BY <1>1, <1>2, HeaderMarks DEF AInv
<1> QED BY <1>2, <1>3, MarksKeepC

\* The cases of ProcessNewBlock.
LEMMA ProcessNewBlockCases ==
    ASSUME AInv, NEW b \in Blocks \ {Genesis}, NEW requested \in BOOLEAN, ProcessNewBlock(b, requested)
    PROVE  \E s : /\ IndexSound(s) /\ OnlyMarks(ix, s) /\ s.failedValid = ix.failedValid
                  /\ \A c \in s.conflicting \ ix.conflicting : HasConflictingChainLock(c)
                  /\ \/ ix' = s
                     \/ ix' = [s EXCEPT !.failedValid = @ \cup {b}] /\ due' = due
                     \/ /\ b \in s.known \ s.data /\ due' = TRUE
                        /\ ix' \in ReceivedBlockTransactions(b, s)
<1> DEFINE conflicts == HasConflictingChainLock(b)
           s == AcceptBlockHeader(b, ix, conflicts)
           accepted == HeaderAccepted(b, ix, conflicts)
           ignored == b \in s.data \/ (~requested /\ ChainWork[b] < ChainWork[s.tip])
<1>1. conflicts \in BOOLEAN
  BY Zenon DEF HasConflictingChainLock
<1>2. Parent[b] \in ix.known
  BY DEF ProcessNewBlock
<1>3. \/ ix' = s
      \/ ix' = [s EXCEPT !.failedValid = @ \cup {b}] /\ due' = due
      \/ accepted /\ ~ignored /\ due' = TRUE /\ ix' \in ReceivedBlockTransactions(b, s)
  BY Zenon DEF ProcessNewBlock
<1>4. IndexSound(s) /\ (accepted => b \in s.known) /\ OnlyMarks(ix, s) /\ s.failedValid = ix.failedValid
  <2> HIDE DEF conflicts
  <2> QED BY <1>1, <1>2, HeaderSound, HeaderMarks DEF AInv
<1>5. ~ignored => b \notin s.data
  OBVIOUS
<1>6. \A c \in s.conflicting \ ix.conflicting : HasConflictingChainLock(c)
  BY HeaderConflicts DEF AInv
<1> HIDE DEF s, accepted, ignored
<1> QED BY <1>3, <1>4, <1>5, <1>6

LEMMA ProcessNewBlockC ==
    ASSUME AInv, CInv, NEW b \in Blocks \ {Genesis}, NEW requested \in BOOLEAN,
           ProcessNewBlock(b, requested)
    PROVE  CInv'
<1>1. PICK s : /\ IndexSound(s) /\ OnlyMarks(ix, s)
               /\ \/ ix' = s
                  \/ ix' = [s EXCEPT !.failedValid = @ \cup {b}] /\ due' = due
                  \/ /\ b \in s.known \ s.data /\ due' = TRUE
                     /\ ix' \in ReceivedBlockTransactions(b, s)
  BY ProcessNewBlockCases
<1>2. MainFree /\ op' = op /\ regressed' = regressed
  BY Zenon DEF ProcessNewBlock
<1>3. /\ LinksSound(s) /\ s.linked = ix.linked /\ s.tip = ix.tip /\ s \in Indexes
      /\ Complete(ix, ix.tip) => Complete(s, s.tip)
  BY <1>1, MarksKeep DEF OnlyMarks, AInv, IndexSound, CInv
<1>4. /\ LinksSound(ix') /\ s.linked \subseteq ix'.linked
      /\ Complete(s, s.tip) => Complete(ix', ix'.tip)
  <2>1. CASE ix' = s
    BY <1>3, <2>1
  <2>2. CASE ix' = [s EXCEPT !.failedValid = @ \cup {b}]
    <3>1. OnlyMarks(s, ix')
      BY <1>1, <2>2, ContextBadMarks
    <3> QED BY <1>3, <3>1, MarksKeep DEF OnlyMarks
  <2>3. CASE b \in s.known \ s.data /\ ix' \in ReceivedBlockTransactions(b, s)
    BY <1>1, <1>3, <2>3, ReceivedLinks
  <2> QED BY <1>1, <2>1, <2>2, <2>3
<1> QED BY <1>2, <1>3, <1>4, OthersKeepC

LEMMA PreciousC ==
    ASSUME AInv, CInv, NEW b \in Blocks, Precious(b)
    PROVE  CInv'
<1>1. /\ LinksSound(ix') /\ ix'.linked = ix.linked
      /\ Complete(ix, ix.tip) /\ ~(b = ix.tip /\ ix.seq[b] < ix'.seq[b]) => Complete(ix', ix'.tip)
  BY PreciousLinks DEF Precious, AInv, CInv
<1>2. MainFree /\ op' = op /\ regressed' = (regressed \/ (b = ix.tip /\ ix.seq[b] < ix'.seq[b]))
  BY DEF Precious
<1>3. /\ ~regressed' => ~regressed
      /\ ~regressed' => ~(b = ix.tip /\ ix.seq[b] < ix'.seq[b])
  BY <1>2, Zenon
<1> QED BY <1>1, <1>2, <1>3, OthersKeepC

LEMMA ReconsiderC ==
    ASSUME AInv, CInv, NEW b \in Blocks, Reconsider(b)
    PROVE  CInv'
<1>1. /\ LinksSound(ix') /\ ix'.linked = ix.linked
      /\ Complete(ix, ix.tip) => Complete(ix', ix'.tip)
  BY ResetLinks DEF Reconsider, AInv, CInv
<1> QED BY <1>1, OthersKeepC DEF Reconsider

-----------------------------------------------------------------------------
LEMMA ActivateC ==
    ASSUME AInv, CInv, Activate
    PROVE  CInv'
<1>1. \/ op' = [Idle EXCEPT !.pc = "outer"]
      \/ op' = [Idle EXCEPT !.pc = "outer", !.by = "sched"]
  BY DEF Activate
<1>2. op'.pc = "outer" /\ op'.most = None /\ op'.waiting = {}
  BY <1>1 DEF Idle
<1>3. op.pc = "idle" /\ ix' = ix /\ regressed' = regressed
  BY DEF Activate
<1> QED BY <1>2, <1>3 DEF CInv, HoldsMain

LEMMA TakeMainC ==
    ASSUME AInv, CInv, TakeMain
    PROVE  CInv'
<1>1. /\ op'.pc = "choose" /\ op'.most = op.most /\ op'.start = ix.tip
      /\ op.pc = "outer" /\ ix' = ix /\ regressed' = regressed
  BY DEF TakeMain, AInv, OpSound, OpTypes
<1>2. ~Worse(ix.tip, ix.tip, ix)
  BY WorseTotal DEF AInv, IndexSound, Indexes
<1> QED BY <1>1, <1>2 DEF CInv, HoldsMain, LinksSound

LEMMA FindUnusableC ==
    ASSUME AInv, CInv, FindUnusable
    PROVE  CInv'
<1>1. BestCandidate(ix) \in ix.candidates
  BY BestCandidateIs DEF FindUnusable, AInv, IndexSound
<1>2. OnlyMarks(ix, ix')
  BY <1>1, DropChainMarks DEF FindUnusable, AInv, CInv
<1>3. LinksSound(ix') /\ \A from : Complete(ix, from) => Complete(ix', from)
  BY <1>2, MarksKeep DEF AInv, IndexSound, CInv
<1>4. /\ ix'.linked = ix.linked /\ ix'.tip = ix.tip /\ ix'.seq = ix.seq
      /\ op' = op /\ regressed' = regressed /\ op.pc = "choose"
  BY <1>2 DEF OnlyMarks, FindUnusable
<1>5. ~Worse(op.start, ix.tip, ix) => ~Worse(op.start, ix'.tip, ix')
  BY <1>4, WorseSame
<1> QED BY <1>3, <1>4, <1>5 DEF CInv, HoldsMain

LEMMA FindMostWorkC ==
    ASSUME AInv, CInv, FindMostWork
    PROVE  CInv'
<1> DEFINE most == IF op.most # None THEN op.most
                   ELSE IF ix.candidates = {} THEN None ELSE BestCandidate(ix)
<1>1. /\ op \in OpTypes /\ op.pc = "choose"
      /\ op' = IF most \in {None, ix.tip}
                THEN [op EXCEPT !.most = most, !.pc = "release"]
                ELSE [op EXCEPT !.most = most, !.pc = "step", !.old = ix.tip]
      /\ ix' = ix /\ regressed' = regressed
  BY DEF FindMostWork, AInv, OpSound
<1>2. most # None => most \in ix.linked
  BY BestCandidateIs DEF CInv, LinksSound, AInv, IndexSound
<1> HIDE DEF most
<1>3. /\ op'.pc \in {"release", "step"} /\ op'.most = most
      /\ op'.start = op.start /\ op'.waiting = op.waiting
  BY <1>1 DEF OpTypes
<1> QED BY <1>1, <1>2, <1>3 DEF CInv, HoldsMain

LEMMA DisconnectTipC ==
    ASSUME AInv, CInv, DisconnectTip
    PROVE  CInv'
<1>0. /\ op.pc = "step" /\ op.most \in Blocks /\ ix.tip \in Blocks /\ ix.tip \notin Chain[op.most]
      /\ ix' = [ix EXCEPT !.tip = Parent[@]] /\ op' = op /\ regressed' = regressed
  BY DEF DisconnectTip, AInv, OpSound, OpTypes, IndexSound, Indexes
<1>1. ix.tip # Genesis
  BY <1>0, ChainHolds
<1>2. /\ LinksSound(ix')
      /\ \A from \in Blocks : ~Worse(from, ix.tip, ix) /\ Complete(ix, from)
            => ~Worse(from, ix'.tip, ix') /\ Complete(ix', from)
      /\ ix'.linked = ix.linked
  BY <1>0, <1>1, DisconnectLinks DEF AInv, CInv, IndexSound, Indexes
<1>3. op.start \in Blocks /\ ~Worse(op.start, ix.tip, ix)
  BY <1>0 DEF CInv, HoldsMain, AInv, IndexSound, Indexes
<1>4. ~Worse(op.start, ix'.tip, ix')
  <2>1. /\ ix'.tip = Parent[ix.tip] /\ ix'.seq = ix.seq /\ Parent[ix.tip] \in Chain[ix.tip]
        /\ ix \in Indexes
    BY <1>0, <1>1, ChainDef, ChainHolds, TreeAssumption DEF AInv, IndexSound, Indexes
  <2>2. ~Worse(ix.tip, Parent[ix.tip], ix) /\ Parent[ix.tip] \in Blocks
    BY <1>0, <2>1, AncestorNotBetter
  <2>3. ~Worse(op.start, Parent[ix.tip], ix)
    BY <1>0, <1>3, <2>1, <2>2, WorseOrders
  <2> QED BY <2>1, <2>3, WorseSame
<1> QED BY <1>0, <1>2, <1>3, <1>4 DEF CInv, HoldsMain

\* The end of a step.
LEMMA StepEndC ==
    ASSUME AInv, CInv, op.pc = "step", ix' \in Indexes, LinksSound(ix'), ix'.linked = ix.linked,
           NEW most, most = None \/ most \in ix.linked, StepEnd(ix', most), regressed' = regressed,
           ~regressed => Complete(ix', op.start)
    PROVE  CInv'
<1> DEFINE pc == IF Worse(ix'.tip, op.start, ix') THEN "choose" ELSE "release"
<1>1. op' = [op EXCEPT !.moved = TRUE, !.newTip = ix'.tip, !.most = most, !.old = None, !.pc = pc]
  BY DEF StepEnd
<1>2. op'.most = most /\ op'.pc = pc /\ op'.start = op.start /\ op'.waiting = op.waiting
  BY <1>1 DEF AInv, OpSound, OpTypes
<1>3. op.start \in ix.linked /\ op.start \in Blocks /\ ix'.tip \in Blocks
  BY DEF CInv, HoldsMain, AInv, IndexSound, Indexes
<1>4. op'.pc = "choose" => ~Worse(op.start, ix'.tip, ix')
  BY <1>2, <1>3, WorseOrders
<1>5. op'.pc \in {"choose", "release"}
  BY <1>2
<1> HIDE DEF pc
<1> QED BY <1>2, <1>3, <1>4, <1>5 DEF CInv, HoldsMain

LEMMA ConnectTipC ==
    ASSUME CacheMissed = {}, AInv, CInv, ConnectTip
    PROVE  CInv'
<1> DEFINE b == CHOOSE x \in Chain[op.most] \ Chain[ix.tip] : Parent[x] = ix.tip
<1>0. /\ op.pc = "step" /\ op.most \in Blocks /\ ix.tip \in Blocks /\ ix.tip \in Chain[op.most]
      /\ op.most \notin Chain[ix.tip] /\ op \in OpTypes
      /\ op.most \in ix.linked /\ op.start \in Blocks
  <2>1. op.start \in ix.linked /\ op.pc = "step"
    BY DEF ConnectTip, CInv, HoldsMain
  <2> QED BY <2>1 DEF ConnectTip, AInv, OpSound, OpTypes, IndexSound, Indexes, CInv
<1>1. b \in Chain[op.most] \ Chain[ix.tip] /\ Parent[b] = ix.tip
  BY <1>0, NextExists
<1>2. \/ ix' = InvalidBlockFound(b, ix) /\ StepEnd(ix', None)
      \/ /\ ix' = Connected(b, ix)
         /\ StepEnd(ix', op.most) \/ UNCHANGED op
  <2>1. b \notin CacheMissed
    OBVIOUS
  <2> QED BY <2>1, Zenon DEF ConnectTip
<1>3. regressed' = regressed
  BY DEF ConnectTip
<1> HIDE DEF b
<1>4. b \in Blocks /\ b \in ix.linked /\ b # Genesis
  BY <1>0, <1>1, ChainHolds DEF CInv, LinksSound
<1>5. ~regressed => Complete(ix, op.start)
  BY <1>0 DEF CInv, HoldsMain
<1>6. CASE ix' = InvalidBlockFound(b, ix) /\ StepEnd(ix', None)
  <2>1. OnlyMarks(ix, ix')
    BY <1>4, <1>6, InvalidFoundMarks DEF AInv
  <2>2. LinksSound(ix') /\ (Complete(ix, op.start) => Complete(ix', op.start))
    BY <2>1, MarksKeep DEF AInv, IndexSound, CInv
  <2>3. ix' \in Indexes /\ ix'.linked = ix.linked
    BY <2>1 DEF OnlyMarks
  <2> QED BY <1>0, <1>3, <1>5, <1>6, <2>2, <2>3, StepEndC
<1>7. CASE ix' = Connected(b, ix) /\ (StepEnd(ix', op.most) \/ UNCHANGED op)
  <2>1. /\ LinksSound(ix') /\ ix'.tip = b
        /\ Complete(ix, op.start) => Complete(ix', op.start)
    BY <1>0, <1>1, <1>4, <1>7, ConnectedLinks DEF AInv, CInv
  <2>2. ix' \in Indexes /\ ix'.linked = ix.linked
    BY <1>4, <1>7 DEF Connected, PruneBlockIndexCandidates, AInv, IndexSound, Indexes
  <2>3. CASE StepEnd(ix', op.most)
    BY <1>0, <1>3, <1>5, <2>1, <2>2, <2>3, StepEndC
  <2>4. CASE UNCHANGED op
    <3>1. ix'.tip \in Chain[op.most]
      BY <1>1, <2>1
    <3> QED BY <1>0, <1>3, <1>5, <2>1, <2>2, <2>4, <3>1 DEF CInv, HoldsMain
  <2> QED BY <1>7, <2>3, <2>4
<1> QED BY <1>2, <1>6, <1>7

LEMMA ReleaseMainC ==
    ASSUME AInv, CInv, ReleaseMain
    PROVE  CInv'
<1>1. /\ ix' = ix /\ op.pc = "release" /\ regressed' = (regressed \/ Worse(ix.tip, op.start, ix))
      /\ op' = Idle \/ op' = [op EXCEPT !.pc = "outer", !.start = None, !.moved = FALSE]
  BY DEF ReleaseMain
<1>2. op'.pc \in {"idle", "outer"} /\ (op'.most = None \/ op'.most = op.most)
  <2>1. CASE op' = Idle
    BY <2>1 DEF Idle
  <2>2. CASE op' = [op EXCEPT !.pc = "outer", !.start = None, !.moved = FALSE]
    BY <2>2 DEF AInv, OpSound, OpTypes
  <2> QED BY <1>1, <2>1, <2>2
<1>3. ASSUME ~regressed' PROVE Complete(ix, ix.tip)
  <2>1. ~regressed /\ ~Worse(ix.tip, op.start, ix)
    BY <1>1, <1>3, Zenon
  <2>2. Complete(ix, op.start) /\ op.start \in Blocks /\ ix.tip \in Blocks /\ ix \in Indexes
    BY <1>1, <2>1 DEF CInv, HoldsMain, AInv, IndexSound, Indexes
  <2>3. \A b \in Blocks : ~Worse(b, ix.tip, ix) => ~Worse(b, op.start, ix)
    BY <2>1, <2>2, WorseOrders
  <2>4. Connectable(ix) \subseteq Blocks
    BY <2>2 DEF Connectable, Indexes
  <2> QED BY <2>2, <2>3, <2>4 DEF Complete
<1> QED BY <1>1, <1>2, <1>3 DEF CInv, HoldsMain

-----------------------------------------------------------------------------
LEMMA InvalidateC ==
    ASSUME AInv, CInv, NEW b \in Blocks, Invalidate(b)
    PROVE  CInv'
<1> DEFINE W == {c \in Connectable(ix) \ Chain[ix.tip] : ~Worse(c, Parent[b], ix)}
<1>1. W \subseteq ix.linked
  BY DEF Connectable
<1>2. /\ op' = [Idle EXCEPT !.pc = "invalidate", !.block = b, !.mark = b, !.waiting = W]
      /\ ix' = ix
  BY DEF Invalidate
<1> HIDE DEF W
<1>3. op'.pc = "invalidate" /\ op'.most = None /\ op'.waiting = W
  BY <1>2 DEF Idle
<1> QED BY <1>1, <1>2, <1>3 DEF CInv, HoldsMain

LEMMA InvalidateTipC ==
    ASSUME AInv, CInv, InvalidateTip
    PROVE  CInv'
<1>0. op.pc = "invalidate" /\ op \in OpTypes /\ op.most = None /\ ix.tip # Genesis
  BY InvalidateTipIs DEF AInv, OpSound
<1>1. PICK better \in SUBSET op.waiting :
        /\ \A c \in better : ~Worse(c, Parent[ix.tip], ix)
        /\ ix' = [ix EXCEPT !.tip = Parent[ix.tip], !.failedValid = @ \cup {ix.tip},
                      !.candidates = (@ \ {ix.tip}) \cup {Parent[ix.tip]} \cup better]
        /\ op' = [op EXCEPT !.mark = ix.tip, !.waiting = @ \ better]
  BY InvalidateTipIs
<1>2. better \in SUBSET ix.linked
  BY <1>0 DEF CInv
<1>3. LinksSound(ix') /\ ix'.linked = ix.linked
  BY <1>0, <1>1, <1>2, InvalidateTipLinks DEF AInv, CInv
<1>4. op'.pc = "invalidate" /\ op'.most = None /\ op'.waiting \subseteq op.waiting
  BY <1>0, <1>1 DEF OpTypes
<1>5. op'.waiting \subseteq ix'.linked
  BY <1>0, <1>3, <1>4 DEF CInv
<1> QED BY <1>3, <1>4, <1>5 DEF CInv, HoldsMain

LEMMA InvalidateEndC ==
    ASSUME AInv, CInv, InvalidateEnd
    PROVE  CInv'
<1>1. op.mark \in Blocks /\ op.mark \notin Chain[ix.tip]
  BY DEF InvalidateEnd, AInv, OpSound
<1> DEFINE s == InvalidBlockFound(op.mark, ix)
<1>2. IndexSound(s) /\ OnlyMarks(ix, s)
  BY <1>1, InvalidFoundSound, InvalidFoundMarks DEF AInv
<1>3. ix' = AddCandidates(s) /\ op' = Idle
  BY DEF InvalidateEnd
<1> HIDE DEF s
<1>4. LinksSound(s)
  BY <1>2, MarksKeep DEF AInv, IndexSound, CInv
<1>5. LinksSound(ix') /\ Complete(ix', ix'.tip)
  BY <1>2, <1>3, <1>4, AddCandidatesLinks
<1>6. op'.pc = "idle" /\ op'.most = None /\ op'.waiting = {}
  BY <1>3 DEF Idle
<1> QED BY <1>5, <1>6 DEF CInv, HoldsMain

LEMMA EnforceC ==
    ASSUME AInv, CInv, Enforce
    PROVE  CInv'
<1>1. /\ sched.block \in Blocks /\ ix' = EnforceBlock(sched.block, ix) /\ op' = op /\ op.pc = "idle"
      /\ regressed' = (regressed /\ ToMarkConflicting(sched.block, ix) = {})
  BY DEF Enforce, AInv, LocksSound
<1>2. /\ LinksSound(ix') /\ ix'.linked = ix.linked
      /\ Complete(ix, ix.tip) \/ ToMarkConflicting(sched.block, ix) # {} => Complete(ix', ix'.tip)
  BY <1>1, EnforceLinks DEF AInv, CInv
<1>3. ~regressed' => ~regressed \/ ToMarkConflicting(sched.block, ix) # {}
  BY <1>1, Zenon
<1> QED BY <1>1, <1>2, <1>3 DEF CInv, HoldsMain

LEMMA RestartC ==
    ASSUME AInv, CInv, Restart
    PROVE  CInv'
<1>1. LinksSound(ix') /\ Complete(ix', ix'.tip)
  BY StartupLinks DEF Restart, AInv
<1>2. op' = op /\ op.pc = "idle" /\ op.most = None
  BY DEF Restart, AInv, OpSound
<1> QED BY <1>1, <1>2 DEF CInv, HoldsMain

LEMMA LockStepsC ==
    ASSUME CInv, UNCHANGED <<ix, op, regressed>>
    PROVE  CInv'
BY DEF CInv, HoldsMain

LEMMA CInvStep == CacheMissed = {} /\ AInv /\ CInv /\ [Next]_vars => CInv'
<1> SUFFICES ASSUME CacheMissed = {}, AInv, CInv, [Next]_vars PROVE CInv'
  OBVIOUS
<1>1. CASE ActivateStep
  BY <1>1, ActivateC, TakeMainC, FindUnusableC, FindMostWorkC, DisconnectTipC, ConnectTipC,
     ReleaseMainC, Zenon DEF ActivateStep
<1>2. CASE InvalidateStep
  BY <1>2, InvalidateTipC, InvalidateEndC, Zenon DEF InvalidateStep
<1>3. CASE LockStep
  <2>1. ASSUME StoreChainLock \/ (\E job \in {"clsig", "tip"} : BeginEnforce(job)) \/ EnforceCheck
        PROVE  UNCHANGED <<ix, op, regressed>>
    BY <2>1 DEF StoreChainLock, BeginEnforce, EnforceCheck
  <2> QED BY <1>3, <2>1, LockStepsC, EnforceC, Zenon DEF LockStep
<1>4. CASE Arrival
  <2>1. ASSUME NEW b \in Locks, SeeChainLock(b) PROVE UNCHANGED <<ix, op, regressed>>
    BY <2>1 DEF SeeChainLock
  <2> QED BY <1>4, <2>1, LockStepsC, ProcessHeaderC, ProcessNewBlockC, Zenon DEF Arrival
<1>5. CASE Operator
  BY <1>5, PreciousC, ReconsiderC, InvalidateC, RestartC, Zenon DEF Operator
<1>6. CASE UNCHANGED vars
  BY <1>6, LockStepsC DEF vars
<1> QED BY <1>1, <1>2, <1>3, <1>4, <1>5, <1>6 DEF Next

LEMMA CInvariance == CacheMissed = {} => (Spec => []CInv)
<1> SUFFICES ASSUME CacheMissed = {} PROVE Spec => []CInv
  OBVIOUS
<1>1. AInv /\ CInv /\ [Next]_vars => CInv'
  BY CInvStep
<1> QED BY <1>1, CInvInit, Invariance, PTL DEF Spec

\* What CheckBlockIndex asserts of setBlockIndexCandidates: whenever cs_main is
\* free and InvalidateBlock is not at work, a usable block is a candidate unless
\* it sorts before the tip, and no other block is.
THEOREM CandidatesCorrect == CacheMissed = {} => (Spec => []CandidatesExact)
<1> SUFFICES ASSUME CacheMissed = {} PROVE Spec => []CandidatesExact
  OBVIOUS
<1>1. ASSUME AInv, CInv PROVE CandidatesExact
  <2> SUFFICES ASSUME MainFree, op.pc # "invalidate", ~regressed, NEW b \in ix.known
               PROVE  IF b \in ix.linked /\ ~Worse(b, ix.tip, ix)
                      THEN b \in Usable => b \in ix.candidates
                      ELSE b \notin ix.candidates
    BY DEF CandidatesExact
  <2>1. Complete(ix, ix.tip)
    BY <1>1 DEF CInv, MainFree
  <2>2. b \in Usable => b \in UsableBlocks(ix)
    BY DEF Usable, UsableBlocks
  <2>3. b \in Usable => b \in Connectable(ix) \ ix.conflicting
    BY <1>1, <2>2, UsableConnectable DEF AInv
  <2>4. b \in ix.candidates => b \in ix.linked /\ ~Worse(b, ix.tip, ix)
    BY <1>1 DEF CInv, LinksSound
  <2> QED BY <2>1, <2>3, <2>4 DEF Complete
<1>2. AInv /\ CInv => CandidatesExact
  BY <1>1
<1> QED BY <1>2, CInvariance, Invariance, PTL

-----------------------------------------------------------------------------
\* No usable block that does not sort before from is better than m.
BestAbove(m, from, s) ==
    \A b \in UsableBlocks(s) : ~Worse(b, from, s) => ~Worse(m, b, s)

\* The scheduler is not between EnforceBlock, which may have moved the tip, and
\* the ActivateBestChain that it calls because of that.
Settled ==
    sched.pc \in {"none", "enforce"} \/ (sched.pc = "check" /\ sched.block \in Chain[ix.tip])

\* As long as nobody owes a call of ActivateBestChain, the tip is the best, and
\* pindexMostWork is the best of what does not sort before where the turn of
\* the outer loop began: whoever makes a block usable or changes the order sets
\* due.  The loop ends when the tip is pindexMostWork.
BInv ==
    /\ op.pc = "outer" => ~op.moved
    /\ op.pc \in {"choose", "release"} => ix.tip = IF op.moved THEN op.newTip ELSE op.start
    /\ op.pc = "release" /\ ~op.moved /\ ~regressed => op.most = ix.tip
    /\ op.pc = "outer" /\ op.most # None /\ ~due /\ ~regressed => BestAbove(op.most, ix.tip, ix)
    /\ HoldsMain /\ op.most # None /\ ~due /\ ~regressed => BestAbove(op.most, op.start, ix)
    /\ op.pc = "idle" /\ ~due /\ ~regressed /\ Settled => BestAbove(ix.tip, Genesis, ix)

\* Genesis sorts before everything else, or is it.
LEMMA GenesisWorst ==
    ASSUME NEW s \in Indexes, NEW b \in Blocks
    PROVE  ~Worse(b, Genesis, s)
BY AncestorNotBetter, ChainHolds

LEMMA BestKept ==
    ASSUME NEW s, NEW t, t.seq = s.seq, UsableBlocks(t) \subseteq UsableBlocks(s),
           NEW m, NEW from, BestAbove(m, from, s)
    PROVE  BestAbove(m, from, t)
BY WorseSame DEF BestAbove

LEMMA BInvInit == Init => BInv
<1> SUFFICES ASSUME Init PROVE BInv
  OBVIOUS
<1>1. op.pc = "idle" /\ ix.tip = Genesis /\ ix.linked = {Genesis} /\ ix \in Indexes
  BY GenesisSound DEF Init, Idle, GenesisIndex, IndexSound
<1>2. UsableBlocks(ix) \subseteq {Genesis}
  BY <1>1 DEF UsableBlocks
<1>3. BestAbove(ix.tip, Genesis, ix)
  BY <1>1, <1>2, WorseTotal, TreeAssumption DEF BestAbove
<1> QED BY <1>1, <1>3 DEF BInv, HoldsMain

\* A call that makes nothing usable and leaves the thread with m_cs_chainstate,
\* the tip and the order alone; and one after which ActivateBestChain is due.
LEMMA OthersKeepB ==
    ASSUME BInv, MainFree, op' = op, sched' = sched, ~due' => ~due, ~regressed' => ~regressed,
           ix'.seq = ix.seq, ix'.tip = ix.tip, UsableBlocks(ix') \subseteq UsableBlocks(ix)
    PROVE  BInv'
<1>1. \A m, from : BestAbove(m, from, ix) => BestAbove(m, from, ix')
  BY BestKept
<1>2. Settled' => Settled
  BY DEF Settled
<1> QED BY <1>1, <1>2 DEF BInv, HoldsMain, MainFree

LEMMA DueKeepsB ==
    ASSUME BInv, MainFree, op' = op, due'
    PROVE  BInv'
BY DEF BInv, HoldsMain, MainFree

LEMMA ProcessHeaderB ==
    ASSUME AInv, CInv, BInv, NEW b \in Blocks \ {Genesis}, ProcessHeader(b)
    PROVE  BInv'
<1> DEFINE conflicts == HasConflictingChainLock(b)
<1>1. conflicts \in BOOLEAN
  BY Zenon DEF HasConflictingChainLock
<1>2. /\ Parent[b] \in ix.known /\ ix' = AcceptBlockHeader(b, ix, conflicts)
      /\ MainFree /\ op' = op /\ regressed' = regressed /\ due' = due /\ sched' = sched
  BY DEF ProcessHeader
<1> HIDE DEF conflicts
<1>3. OnlyMarks(ix, ix')
  BY <1>1, <1>2, HeaderMarks DEF AInv
<1>4. UsableBlocks(ix') \subseteq UsableBlocks(ix) /\ ix'.tip = ix.tip /\ ix'.seq = ix.seq
  BY <1>3, MarksKeep DEF AInv, IndexSound, CInv, OnlyMarks
<1> QED BY <1>2, <1>4, OthersKeepB

LEMMA ProcessNewBlockB ==
    ASSUME AInv, CInv, BInv, NEW b \in Blocks \ {Genesis}, NEW requested \in BOOLEAN,
           ProcessNewBlock(b, requested)
    PROVE  BInv'
<1>1. PICK s : /\ IndexSound(s) /\ OnlyMarks(ix, s)
               /\ \/ ix' = s
                  \/ ix' = [s EXCEPT !.failedValid = @ \cup {b}] /\ due' = due
                  \/ /\ b \in s.known \ s.data /\ due' = TRUE
                     /\ ix' \in ReceivedBlockTransactions(b, s)
  BY ProcessNewBlockCases
<1>2. MainFree /\ op' = op /\ regressed' = regressed /\ sched' = sched
  BY Zenon DEF ProcessNewBlock
<1>3. due' = TRUE \/ due' = due
  BY Zenon DEF ProcessNewBlock
<1>4. /\ LinksSound(s) /\ UsableBlocks(s) \subseteq UsableBlocks(ix)
      /\ s.tip = ix.tip /\ s.seq = ix.seq /\ s \in Indexes
  BY <1>1, MarksKeep DEF OnlyMarks, AInv, IndexSound, CInv
<1>5. CASE due' = TRUE
  BY <1>2, <1>5, DueKeepsB
<1>6. CASE ix' = s /\ due' = due
  BY <1>2, <1>4, <1>6, OthersKeepB
<1>7. CASE ix' = [s EXCEPT !.failedValid = @ \cup {b}] /\ due' = due
  <2>1. OnlyMarks(s, ix')
    BY <1>1, <1>7, ContextBadMarks
  <2>2. UsableBlocks(ix') \subseteq UsableBlocks(ix) /\ ix'.tip = ix.tip /\ ix'.seq = ix.seq
    BY <1>4, <2>1, MarksKeep DEF OnlyMarks
  <2> QED BY <1>2, <1>7, <2>2, OthersKeepB
<1> QED BY <1>1, <1>3, <1>5, <1>6, <1>7

-----------------------------------------------------------------------------
LEMMA ActivateB ==
    ASSUME AInv, CInv, BInv, Activate
    PROVE  BInv'
<1>1. \/ op' = [Idle EXCEPT !.pc = "outer"]
      \/ op' = [Idle EXCEPT !.pc = "outer", !.by = "sched"]
  BY DEF Activate
<1>2. op'.pc = "outer" /\ op'.most = None /\ op'.moved = FALSE
  BY <1>1 DEF Idle
<1> QED BY <1>2 DEF BInv, HoldsMain

LEMMA TakeMainB ==
    ASSUME AInv, CInv, BInv, TakeMain
    PROVE  BInv'
<1>1. /\ op'.pc = "choose" /\ op'.most = op.most /\ op'.start = ix.tip /\ op'.moved = op.moved
      /\ op.pc = "outer" /\ ix' = ix /\ regressed' = regressed /\ due' = due
  BY DEF TakeMain, AInv, OpSound, OpTypes
<1> QED BY <1>1 DEF BInv, HoldsMain

LEMMA FindUnusableB ==
    ASSUME AInv, CInv, BInv, FindUnusable
    PROVE  BInv'
<1>1. BestCandidate(ix) \in ix.candidates
  BY BestCandidateIs DEF FindUnusable, AInv, IndexSound
<1>2. OnlyMarks(ix, ix')
  BY <1>1, DropChainMarks DEF FindUnusable, AInv, CInv
<1>3. ix'.tip = ix.tip /\ op' = op /\ op.pc = "choose" /\ op.most = None
  BY <1>2 DEF OnlyMarks, FindUnusable
<1> QED BY <1>3 DEF BInv, HoldsMain

LEMMA FindMostWorkB ==
    ASSUME AInv, CInv, BInv, FindMostWork
    PROVE  BInv'
<1> DEFINE most == IF op.most # None THEN op.most
                   ELSE IF ix.candidates = {} THEN None ELSE BestCandidate(ix)
<1>1. /\ op \in OpTypes /\ op.pc = "choose"
      /\ op' = IF most \in {None, ix.tip}
                THEN [op EXCEPT !.most = most, !.pc = "release"]
                ELSE [op EXCEPT !.most = most, !.pc = "step", !.old = ix.tip]
      /\ ix' = ix /\ regressed' = regressed /\ due' = due
  BY DEF FindMostWork, AInv, OpSound
<1>2. /\ ix \in Indexes /\ ix.tip \in Blocks /\ ix.tip # None /\ ix.candidates \subseteq Blocks
      /\ op.start \in Blocks /\ ~Worse(op.start, ix.tip, ix)
      /\ ~regressed => Complete(ix, op.start)
  BY <1>1, TreeAssumption DEF CInv, HoldsMain, AInv, IndexSound, Indexes
<1>3. ASSUME op.most = None, most # None, ~regressed PROVE BestAbove(most, op.start, ix)
  <2>1. ix.candidates # {} /\ most = BestCandidate(ix)
    BY <1>3
  <2>2. \A c \in ix.candidates : ~Worse(most, c, ix)
    BY <1>2, <2>1, BestCandidateIs
  <2>3. ASSUME NEW b \in UsableBlocks(ix), ~Worse(b, op.start, ix) PROVE b \in ix.candidates
    <3>1. b \in Connectable(ix) \ ix.conflicting
      BY UsableConnectable DEF AInv
    <3>2. b \in Blocks
      BY <1>2, <3>1 DEF Connectable, Indexes
    <3>3. ~Worse(b, ix.tip, ix)
      BY <1>2, <2>3, <3>2, WorseOrders
    <3> QED BY <1>2, <1>3, <2>3, <3>1, <3>3 DEF Complete
  <2> QED BY <2>2, <2>3 DEF BestAbove
<1>4. ASSUME ~op.moved, ~regressed PROVE most # None
  <2>1. ix.tip = op.start
    BY <1>1, <1>4 DEF BInv
  <2>2. ix.tip \in Connectable(ix) \ ix.conflicting
    BY ClearConnectable DEF AInv, IndexSound, CInv, LinksSound
  <2>3. ix.tip \in ix.candidates
    BY <1>2, <1>4, <2>1, <2>2, WorseTotal DEF Complete
  <2>4. BestCandidate(ix) \in ix.candidates
    BY <1>2, <2>3, BestCandidateIs
  <2> QED BY <1>2, <2>3, <2>4, TreeAssumption
<1>5. ASSUME most # None, ~due, ~regressed PROVE BestAbove(most, op.start, ix)
  BY <1>1, <1>3, <1>5 DEF BInv, HoldsMain
<1> HIDE DEF most
<1>6. /\ op'.pc \in {"release", "step"} /\ op'.most = most /\ op'.start = op.start
      /\ op'.moved = op.moved /\ op'.newTip = op.newTip
      /\ op'.pc = "release" => most \in {None, ix.tip}
  BY <1>1 DEF OpTypes
<1> QED BY <1>1, <1>4, <1>5, <1>6 DEF BInv, HoldsMain

LEMMA DisconnectTipB ==
    ASSUME AInv, CInv, BInv, DisconnectTip
    PROVE  BInv'
<1>1. /\ op.pc = "step" /\ ix' = [ix EXCEPT !.tip = Parent[@]] /\ op' = op
      /\ regressed' = regressed /\ due' = due
  BY DEF DisconnectTip
<1>2. ix'.seq = ix.seq /\ UsableBlocks(ix') = UsableBlocks(ix)
  BY <1>1 DEF AInv, IndexSound, Indexes, UsableBlocks
<1>3. \A m, from : BestAbove(m, from, ix) => BestAbove(m, from, ix')
  BY <1>2, BestKept
<1> QED BY <1>1, <1>3 DEF BInv, HoldsMain

LEMMA ConnectTipB ==
    ASSUME CacheMissed = {}, AInv, CInv, BInv, ConnectTip
    PROVE  BInv'
<1> DEFINE b == CHOOSE x \in Chain[op.most] \ Chain[ix.tip] : Parent[x] = ix.tip
<1>1. \/ StepEnd(ix', None)
      \/ /\ ix' = Connected(b, ix)
         /\ StepEnd(ix', op.most) \/ UNCHANGED op
  <2>1. b \notin CacheMissed
    OBVIOUS
  <2> QED BY <2>1, Zenon DEF ConnectTip
<1>2. op.pc = "step" /\ op \in OpTypes /\ regressed' = regressed /\ due' = due
  BY DEF ConnectTip, AInv, OpSound
<1> HIDE DEF b
<1>3. ASSUME NEW most, StepEnd(ix', most)
      PROVE  /\ op'.moved = TRUE /\ op'.newTip = ix'.tip /\ op'.most = most /\ op'.start = op.start
             /\ op'.pc \in {"choose", "release"}
  BY <1>2, <1>3 DEF StepEnd, OpTypes
<1>4. CASE StepEnd(ix', None)
  BY <1>3, <1>4 DEF BInv, HoldsMain
<1>5. CASE ix' = Connected(b, ix) /\ (StepEnd(ix', op.most) \/ UNCHANGED op)
  <2>1. ix'.seq = ix.seq /\ UsableBlocks(ix') = UsableBlocks(ix)
    BY <1>5 DEF Connected, PruneBlockIndexCandidates, AInv, IndexSound, Indexes, UsableBlocks
  <2>2. \A m, from : BestAbove(m, from, ix) => BestAbove(m, from, ix')
    BY <2>1, BestKept
  <2>3. op'.most # None /\ ~due /\ ~regressed => BestAbove(op'.most, op'.start, ix')
    <3>1. op'.most = op.most /\ op'.start = op.start
      BY <1>3, <1>5
    <3> QED BY <1>2, <2>2, <3>1 DEF BInv, HoldsMain
  <2>4. CASE StepEnd(ix', op.most)
    BY <1>2, <1>3, <2>3, <2>4 DEF BInv, HoldsMain
  <2>5. CASE UNCHANGED op
    BY <1>2, <2>3, <2>5 DEF BInv, HoldsMain
  <2> QED BY <1>5, <2>4, <2>5
<1> QED BY <1>1, <1>4, <1>5

LEMMA ReleaseMainB ==
    ASSUME AInv, CInv, BInv, ReleaseMain
    PROVE  BInv'
<1> DEFINE return == ~op.moved \/ op.newTip = op.most
<1>1. /\ ix' = ix /\ op.pc = "release" /\ due' = due
      /\ regressed' = (regressed \/ Worse(ix.tip, op.start, ix))
      /\ op' = IF return THEN Idle
               ELSE [op EXCEPT !.pc = "outer", !.start = None, !.moved = FALSE]
  BY DEF ReleaseMain
<1>2. /\ ix \in Indexes /\ ix.tip \in Blocks /\ op.start \in Blocks /\ None \notin Blocks
      /\ UsableBlocks(ix) \subseteq Blocks /\ op \in OpTypes
  BY <1>1, TreeAssumption DEF CInv, HoldsMain, AInv, OpSound, IndexSound, Indexes, UsableBlocks
<1>3. ASSUME ~regressed' PROVE ~regressed /\ ~Worse(ix.tip, op.start, ix)
  BY <1>1, <1>3, Zenon
<1>4. ASSUME ~regressed', return PROVE op.most = ix.tip
  BY <1>1, <1>3, <1>4 DEF BInv
<1>5. ASSUME ~regressed', ~due, op.most # None PROVE BestAbove(op.most, op.start, ix)
  BY <1>1, <1>3, <1>5 DEF BInv, HoldsMain
<1>6. CASE return
  <2>1. op'.pc = "idle" /\ op'.most = None
    BY <1>1, <1>6 DEF Idle
  <2>2. ASSUME ~regressed', ~due, NEW b \in UsableBlocks(ix) PROVE ~Worse(ix.tip, b, ix)
    <3>1. CASE Worse(b, op.start, ix)
      BY <1>2, <1>3, <2>2, <3>1, WorseOrders
    <3>2. CASE ~Worse(b, op.start, ix)
      BY <1>2, <1>4, <1>5, <1>6, <2>2, <3>2 DEF BestAbove
    <3> QED BY <3>1, <3>2
  <2> QED BY <1>1, <2>1, <2>2 DEF BInv, HoldsMain, BestAbove
<1>7. CASE ~return
  <2>1. op'.pc = "outer" /\ op'.most = op.most /\ op'.moved = FALSE
    BY <1>1, <1>2, <1>7 DEF OpTypes
  <2>2. ASSUME ~regressed', ~due, op.most # None PROVE BestAbove(op.most, ix.tip, ix)
    <3>1. ASSUME NEW b \in UsableBlocks(ix), ~Worse(b, ix.tip, ix) PROVE ~Worse(b, op.start, ix)
      BY <1>2, <1>3, <2>2, <3>1, WorseOrders
    <3> QED BY <1>5, <2>2, <3>1 DEF BestAbove
  <2> QED BY <1>1, <2>1, <2>2 DEF BInv, HoldsMain
<1> QED BY <1>6, <1>7

-----------------------------------------------------------------------------
LEMMA InvalidatesB ==
    ASSUME AInv, BInv, InvalidateStep \/ \E b \in Blocks : Invalidate(b)
    PROVE  BInv'
<1>1. CASE InvalidateEnd
  <2>1. op'.pc = "idle" /\ due' = TRUE
    BY <1>1 DEF InvalidateEnd, Idle
  <2> QED BY <2>1 DEF BInv, HoldsMain
<1>2. CASE InvalidateTip \/ \E b \in Blocks : Invalidate(b)
  <2>1. op'.pc = "invalidate"
    BY <1>2 DEF InvalidateTip, Invalidate, Idle, AInv, OpSound, OpTypes
  <2> QED BY <2>1 DEF BInv, HoldsMain
<1> QED BY <1>1, <1>2 DEF InvalidateStep

LEMMA EnforceB ==
    ASSUME AInv, CInv, BInv, Enforce
    PROVE  BInv'
<1>1. /\ sched.block \in Blocks /\ ix' = EnforceBlock(sched.block, ix) /\ op' = op /\ op.pc = "idle"
      /\ regressed' = (regressed /\ ToMarkConflicting(sched.block, ix) = {}) /\ due' = due
      /\ sched.pc = "enforce" /\ sched'.pc = "check" /\ sched'.block = sched.block
  BY DEF Enforce, AInv, LocksSound
<1>2. /\ sched.block \in Chain[ix.tip] => ix' = ix
      /\ ix'.tip \in Chain[ix.tip] /\ ix.tip \in Blocks
  BY <1>1, EnforceLinks DEF AInv, CInv, IndexSound, Indexes
<1>3. ASSUME Settled' PROVE sched.block \in Chain[ix.tip]
  BY <1>1, <1>2, <1>3, ChainHolds DEF Settled
<1>4. ASSUME sched.block \in Chain[ix.tip], ~regressed' PROVE ~regressed
  <2>1. ToMarkConflicting(sched.block, ix) = {}
    BY <1>1, <1>2, <1>4, ChainHolds DEF ToMarkConflicting
  <2> QED BY <1>1, <1>4, <2>1, Zenon
<1>5. Settled
  BY <1>1 DEF Settled
<1> QED BY <1>1, <1>2, <1>3, <1>4, <1>5 DEF BInv, HoldsMain

\* The steps that leave the index and the thread with m_cs_chainstate alone.
LEMMA SchedulerKeepsB ==
    ASSUME BInv, UNCHANGED <<ix, op, due, regressed>>, Settled' => Settled
    PROVE  BInv'
BY DEF BInv, HoldsMain

LEMMA LockStepB ==
    ASSUME AInv, CInv, BInv, LockStep
    PROVE  BInv'
<1>1. CASE StoreChainLock
  BY <1>1, SchedulerKeepsB DEF StoreChainLock, Settled
<1>2. ASSUME NEW job \in {"clsig", "tip"}, BeginEnforce(job) PROVE BInv'
  BY <1>2, SchedulerKeepsB DEF BeginEnforce, NoJob, Settled
<1>3. CASE EnforceCheck
  <2>1. UNCHANGED <<ix, op, due, regressed>> /\ sched.pc = "check"
    BY <1>3 DEF EnforceCheck
  <2>2. CASE sched.block \in Chain[ix.tip]
    BY <2>1, <2>2, SchedulerKeepsB DEF Settled
  <2>3. CASE sched.block \notin Chain[ix.tip]
    <3>1. sched'.pc = "activate"
      BY <1>3, <2>3 DEF EnforceCheck, AInv, LocksSound
    <3> QED BY <2>1, <3>1, SchedulerKeepsB DEF Settled
  <2> QED BY <2>2, <2>3
<1> QED BY <1>1, <1>2, <1>3, EnforceB, Zenon DEF LockStep

LEMMA BInvStep == CacheMissed = {} /\ AInv /\ CInv /\ BInv /\ [Next]_vars => BInv'
<1> SUFFICES ASSUME CacheMissed = {}, AInv, CInv, BInv, [Next]_vars PROVE BInv'
  OBVIOUS
<1>1. CASE ActivateStep
  BY <1>1, ActivateB, TakeMainB, FindUnusableB, FindMostWorkB, DisconnectTipB, ConnectTipB,
     ReleaseMainB, Zenon DEF ActivateStep
<1>2. CASE InvalidateStep
  BY <1>2, InvalidatesB
<1>3. CASE LockStep
  BY <1>3, LockStepB
<1>4. CASE Arrival
  <2>1. ASSUME NEW b \in Locks, SeeChainLock(b) PROVE BInv'
    BY <2>1, SchedulerKeepsB DEF SeeChainLock, Settled
  <2> QED BY <1>4, <2>1, ProcessHeaderB, ProcessNewBlockB, Zenon DEF Arrival
<1>5. CASE Operator
  <2>1. ASSUME Restart \/ \E b \in Blocks : Precious(b) \/ Reconsider(b)
        PROVE  MainFree /\ op' = op /\ due' = TRUE
    BY <2>1 DEF Restart, Precious, Reconsider, MainFree
  <2> QED BY <1>5, <2>1, DueKeepsB, InvalidatesB, Zenon DEF Operator
<1>6. CASE UNCHANGED vars
  BY <1>6, SchedulerKeepsB DEF vars, Settled, lockVars
<1> QED BY <1>1, <1>2, <1>3, <1>4, <1>5, <1>6 DEF Next

\* When every call of ActivateBestChain that was due has returned and the
\* scheduler is idle, no usable block is better than the tip: the calls that
\* ProcessNewBlock, preciousblock, reconsiderblock, invalidateblock, the chain
\* lock handler and the startup make are enough, wherever they interleave.
THEOREM BestTipCorrect == CacheMissed = {} => (Spec => []TipIsBest)
<1> SUFFICES ASSUME CacheMissed = {} PROVE Spec => []TipIsBest
  OBVIOUS
<1>1. AInv /\ CInv /\ BInv /\ [Next]_vars => BInv'
  BY BInvStep
<1>2. ASSUME AInv, BInv PROVE TipIsBest
  <2> SUFFICES ASSUME Quiet, ~regressed, NEW b \in Usable PROVE ~Worse(ix.tip, b, ix)
    BY DEF TipIsBest
  <2>1. op.pc = "idle" /\ ~due /\ Settled
    BY DEF Quiet, Idle, NoJob, Settled
  <2>2. b \in UsableBlocks(ix) /\ b \in Blocks /\ ix \in Indexes
    BY <1>2 DEF Usable, UsableBlocks, AInv, IndexSound, Indexes
  <2> QED BY <1>2, <2>1, <2>2, GenesisWorst DEF BInv, BestAbove
<1>3. AInv /\ BInv => TipIsBest
  BY <1>2
<1> QED BY <1>1, <1>3, BInvInit, CInvariance, Invariance, PTL DEF Spec

-----------------------------------------------------------------------------
\* The best lock, the one whose block is known and the one that is coming lie on
\* one branch, in the order in which they came.
BranchInv ==
    /\ lock.best # None => lock.best \in Locks
    /\ lock.index # None =>
          lock.index \in Locks /\ lock.best # None /\ lock.index \in Chain[lock.best]
    /\ clsig # <<>> =>
          clsig[1] \in Locks /\ (lock.best # None => lock.best \in Chain[clsig[1]])

LEMMA BranchInvStep == AInv /\ BranchInv /\ [Next]_vars => BranchInv'
<1> SUFFICES ASSUME AInv, BranchInv, [Next]_vars PROVE BranchInv'
  OBVIOUS
<1>0. /\ Locks \subseteq Blocks /\ \A a, b \in Locks : a \in Chain[b] \/ b \in Chain[a]
      /\ lock \in [best : Blocks \cup {None}, index : Blocks \cup {None}, enforced : BOOLEAN]
      /\ None \notin Blocks
  BY FaultsAssumption, TreeAssumption DEF AInv, LocksSound
<1>1. CASE UNCHANGED <<lock, clsig>>
  BY <1>1 DEF BranchInv
<1>2. ASSUME NEW b \in Blocks, LateHeader(b), UNCHANGED clsig PROVE BranchInv'
  <2>1. lock' = lock \/ (lock.best = b /\ lock'.index = b /\ lock'.best = lock.best)
    BY <1>0, <1>2 DEF LateHeader
  <2> QED BY <1>0, <1>2, <2>1, ChainHolds DEF BranchInv
<1>3. ASSUME NEW b \in Locks, SeeChainLock(b) PROVE BranchInv'
  <2>1. /\ clsig'[1] = b /\ lock' = lock
        /\ lock.best # None => Height(b) > Height(lock.best)
    BY <1>3 DEF SeeChainLock
  <2>2. ASSUME lock.best # None PROVE lock.best \in Chain[b]
    <3>1. CASE b \in Chain[lock.best]
      BY <1>0, <2>1, <2>2, <3>1, HeightOrders
    <3> QED BY <1>0, <2>2, <3>1 DEF BranchInv
  <2> QED BY <1>3, <2>1, <2>2 DEF BranchInv
<1>4. CASE StoreChainLock
  <2>1. /\ clsig # <<>> /\ clsig' = <<>> /\ lock'.best = clsig[1]
        /\ lock'.index \in {clsig[1], lock.index}
    BY <1>0, <1>4 DEF StoreChainLock
  <2>2. clsig[1] \in Blocks /\ clsig[1] \in Locks
    BY <1>0, <2>1 DEF BranchInv
  <2>3. lock'.index # None => lock'.index \in Chain[clsig[1]]
    BY <1>0, <2>1, <2>2, ChainHolds DEF BranchInv
  <2> QED BY <1>0, <2>1, <2>2, <2>3 DEF BranchInv
<1>5. CASE Enforce
  <2>1. lock'.best = lock.best /\ lock'.index = lock.index /\ clsig' = clsig
    BY <1>0, <1>5 DEF Enforce
  <2> QED BY <2>1 DEF BranchInv
<1>6. CASE Restart
  BY <1>6 DEF Restart, BranchInv
<1>7. CASE ActivateStep \/ InvalidateStep
  BY <1>1, <1>7 DEF ActivateStep, InvalidateStep, Activate, TakeMain, FindUnusable, FindMostWork,
     DisconnectTip, ConnectTip, ReleaseMain, InvalidateTip, InvalidateEnd, lockVars
<1>8. CASE LockStep
  <2>1. ASSUME (\E job \in {"clsig", "tip"} : BeginEnforce(job)) \/ EnforceCheck
        PROVE  UNCHANGED <<lock, clsig>>
    BY <2>1 DEF BeginEnforce, EnforceCheck
  <2> QED BY <1>1, <1>4, <1>5, <1>8, <2>1, Zenon DEF LockStep
<1>9. CASE Arrival
  <2>1. ASSUME NEW b \in Blocks \ {Genesis},
               ProcessHeader(b) \/ \E requested \in BOOLEAN : ProcessNewBlock(b, requested)
        PROVE  UNCHANGED clsig /\ (LateHeader(b) \/ UNCHANGED lock)
    BY <2>1, Zenon DEF ProcessHeader, ProcessNewBlock
  <2>2. ASSUME NEW b \in Blocks \ {Genesis},
               ProcessHeader(b) \/ \E requested \in BOOLEAN : ProcessNewBlock(b, requested)
        PROVE  BranchInv'
    BY <1>1, <1>2, <2>1, <2>2
  <2> QED BY <1>3, <1>9, <2>2, Zenon DEF Arrival
<1>10. CASE Operator
  <2>1. ASSUME NEW b \in Blocks, Precious(b) \/ Reconsider(b) \/ Invalidate(b)
        PROVE  UNCHANGED <<lock, clsig>>
    BY <2>1 DEF Precious, Reconsider, Invalidate, lockVars
  <2> QED BY <1>1, <1>6, <1>10, <2>1, Zenon DEF Operator
<1>11. CASE UNCHANGED vars
  BY <1>1, <1>11 DEF vars
<1> QED BY <1>7, <1>8, <1>9, <1>10, <1>11 DEF Next

LEMMA BranchInvariance == Spec => []BranchInv
<1>1. Init => BranchInv
  BY DEF Init, BranchInv
<1> QED BY <1>1, BranchInvStep, Invariance, PTL DEF Spec

-----------------------------------------------------------------------------
\* A chain lock has ruled out the chain that the turn began with.
Excused == \E b \in Chain[op.start] : HasConflictingChainLock(b)

\* A block of the chain that the turn began with connects again, and so stays
\* clear, and a candidate, unless a chain lock rules it out.  So what is found
\* to switch to does not sort before starting_tip.
FInv ==
    /\ Chain[ix.tip] \cap ConnectBad = {}
    /\ op.pc \in {"outer", "choose", "release"} /\ op.most # None => ix.tip \in Chain[op.most]
    /\ HoldsMain => Chain[op.start] \cap ConnectBad = {}
    /\ HoldsMain => Clear(op.start, ix) \/ Excused
    /\ HoldsMain /\ op.most # None /\ ~regressed => ~Worse(op.most, op.start, ix) \/ Excused
    /\ op.pc = "release" /\ ~regressed => ~Worse(ix.tip, op.start, ix) \/ Excused

LEMMA FInvInit == Init => FInv
<1> SUFFICES ASSUME Init PROVE FInv
  OBVIOUS
<1>1. ix.tip = Genesis /\ op.pc = "idle"
  BY DEF Init, Idle, GenesisIndex
<1> QED BY <1>1, ChainDef, FaultsAssumption DEF FInv, HoldsMain

\* The calls that leave the thread with m_cs_chainstate and the tip alone.
LEMMA OthersKeepF ==
    ASSUME FInv, MainFree, op' = op, ix'.tip = ix.tip
    PROVE  FInv'
BY DEF FInv, HoldsMain, MainFree

\* The thread with m_cs_chainstate moves the tip down its chain and returns.
LEMMA CutBackF ==
    ASSUME FInv, ix.tip \in Blocks, ix'.tip \in Chain[ix.tip], op'.pc \in {"idle", "invalidate"}
    PROVE  FInv'
<1>1. Chain[ix'.tip] \subseteq Chain[ix.tip]
  BY ChainHolds
<1> QED BY <1>1 DEF FInv, HoldsMain

LEMMA ArrivalF ==
    ASSUME AInv, FInv, NEW b \in Blocks \ {Genesis},
           ProcessHeader(b) \/ \E requested \in BOOLEAN : ProcessNewBlock(b, requested)
    PROVE  FInv'
<1>1. CASE ProcessHeader(b)
  <2> DEFINE conflicts == HasConflictingChainLock(b)
  <2>1. conflicts \in BOOLEAN
    BY Zenon DEF HasConflictingChainLock
  <2>2. Parent[b] \in ix.known /\ ix' = AcceptBlockHeader(b, ix, conflicts) /\ MainFree /\ op' = op
    BY <1>1 DEF ProcessHeader
  <2> HIDE DEF conflicts
  <2> QED BY <2>1, <2>2, HeaderSound, OthersKeepF DEF AInv
<1>2. ASSUME NEW requested \in BOOLEAN, ProcessNewBlock(b, requested) PROVE FInv'
  <2>1. PICK s : /\ IndexSound(s) /\ OnlyMarks(ix, s)
                 /\ \/ ix' = s
                    \/ ix' = [s EXCEPT !.failedValid = @ \cup {b}] /\ due' = due
                    \/ /\ b \in s.known \ s.data /\ due' = TRUE
                       /\ ix' \in ReceivedBlockTransactions(b, s)
    BY <1>2, ProcessNewBlockCases
  <2>2. MainFree /\ op' = op
    BY <1>2, Zenon DEF ProcessNewBlock
  <2>3. ix'.tip = s.tip
    <3>1. CASE ix' = [s EXCEPT !.failedValid = @ \cup {b}]
      BY <2>1, <3>1 DEF IndexSound, Indexes
    <3>2. CASE b \in s.known \ s.data /\ ix' \in ReceivedBlockTransactions(b, s)
      BY <2>1, <3>2, ReceivedSound
    <3> QED BY <2>1, <3>1, <3>2
  <2> QED BY <2>1, <2>2, <2>3, OthersKeepF DEF OnlyMarks
<1> QED BY <1>1, <1>2

LEMMA OperatorF ==
    ASSUME AInv, FInv, Operator
    PROVE  FInv'
<1>1. ASSUME NEW b \in Blocks, Precious(b) PROVE FInv'
  BY <1>1, PreciousSound, OthersKeepF DEF Precious, AInv
<1>2. ASSUME NEW b \in Blocks, Reconsider(b) PROVE FInv'
  BY <1>2, ResetSound, OthersKeepF DEF Reconsider, AInv
<1>3. ASSUME NEW b \in Blocks, Invalidate(b) PROVE FInv'
  <2>1. ix' = ix /\ op'.pc = "invalidate" /\ ix.tip \in Blocks
    BY <1>3 DEF Invalidate, Idle, AInv, IndexSound, Indexes
  <2> QED BY <2>1, CutBackF, ChainHolds
<1>4. CASE Restart
  <2>1. PICK kept \in SUBSET ix.conflicting : ix' = Startup([ix EXCEPT !.conflicting = kept])
    BY <1>4 DEF Restart
  <2> DEFINE t == LoadBlockIndex([ix EXCEPT !.conflicting = kept])
  <2>2. IndexSound(t) /\ t.tip = ix.tip
    BY LoadSound DEF AInv
  <2>3. \/ ix' = t
        \/ Failed(t) # {} /\ ix' = ResetBlockFailureFlags(BestInvalid(t), t)
    BY <2>1 DEF Startup
  <2> HIDE DEF t
  <2>4. ix'.tip = t.tip
    <3>1. Failed(t) # {} => BestInvalid(t) \in Blocks
      BY <2>2, BestInvalidIs DEF IndexSound, Indexes, Failed
    <3> QED BY <2>2, <2>3, <3>1, ResetSound
  <2> QED BY <1>4, <2>2, <2>4, OthersKeepF DEF Restart, MainFree
<1> QED BY <1>1, <1>2, <1>3, <1>4, Zenon DEF Operator

LEMMA InvalidateStepF ==
    ASSUME AInv, FInv, InvalidateStep
    PROVE  FInv'
<1>1. CASE InvalidateTip
  <2>1. /\ op.pc = "invalidate" /\ ix.tip # Genesis /\ ix.tip \in Blocks
        /\ ix'.tip = Parent[ix.tip] /\ op'.pc = op.pc
    BY <1>1, InvalidateTipIs DEF AInv, OpSound, OpTypes, IndexSound, Indexes
  <2>2. Parent[ix.tip] \in Chain[ix.tip]
    BY <2>1, ChainDef, ChainHolds, TreeAssumption
  <2> QED BY <2>1, <2>2, CutBackF
<1>2. CASE InvalidateEnd
  <2>1. op.mark \in Blocks /\ op.mark \notin Chain[ix.tip] /\ op'.pc = "idle"
    BY <1>2 DEF InvalidateEnd, AInv, OpSound, Idle
  <2>2. ix'.tip = ix.tip
    BY <1>2, <2>1, InvalidFoundSound, AddCandidatesSound DEF InvalidateEnd, AInv
  <2> QED BY <2>1, <2>2, CutBackF, ChainHolds DEF AInv, IndexSound, Indexes
<1> QED BY <1>1, <1>2 DEF InvalidateStep

LEMMA LockStepF ==
    ASSUME AInv, CInv, BranchInv, FInv, LockStep
    PROVE  FInv'
<1>1. CASE StoreChainLock
  <2>1. UNCHANGED <<ix, op, regressed>>
    BY <1>1 DEF StoreChainLock
  <2>2. ASSUME HoldsMain, Excused PROVE Excused'
    <3>1. PICK b \in Chain[op.start] : HasConflictingChainLock(b)
      BY <2>2 DEF Excused
    <3>2. /\ clsig # <<>> /\ clsig[1] \in Blocks
          /\ lock'.index \in {clsig[1], lock.index}
      BY <1>1, FaultsAssumption DEF StoreChainLock, BranchInv, AInv, LocksSound
    <3>3. b \in Blocks /\ lock.index \in Chain[clsig[1]] /\ clsig[1] # None
      <4>1. lock.index \in Chain[lock.best] /\ lock.best \in Chain[clsig[1]] /\ lock.best \in Blocks
        BY <3>1, <3>2, FaultsAssumption DEF HasConflictingChainLock, BranchInv
      <4>2. op.start \in Blocks
        BY <2>2 DEF CInv, AInv, IndexSound, Indexes
      <4> QED BY <3>2, <4>1, <4>2, ChainHolds, TreeAssumption
    <3>4. HasConflictingChainLock(b)'
      BY <3>1, <3>2, <3>3, HigherLockConflicts DEF HasConflictingChainLock
    <3> QED BY <2>1, <3>1, <3>4 DEF Excused
  <2> QED BY <2>1, <2>2 DEF FInv, HoldsMain
<1>2. CASE Enforce
  <2>1. /\ sched.block \in Blocks /\ ix' = EnforceBlock(sched.block, ix) /\ op'.pc = "idle"
        /\ ix.tip \in Blocks
    BY <1>2 DEF Enforce, AInv, LocksSound, IndexSound, Indexes
  <2>2. ix'.tip \in Chain[ix.tip]
    BY <2>1, EnforceLinks DEF AInv, CInv
  <2> QED BY <2>1, <2>2, CutBackF
<1>3. ASSUME (\E job \in {"clsig", "tip"} : BeginEnforce(job)) \/ EnforceCheck
      PROVE  UNCHANGED <<ix, op, regressed, lock>>
  BY <1>3 DEF BeginEnforce, EnforceCheck
<1>4. CASE UNCHANGED <<ix, op, regressed, lock>>
  BY <1>4 DEF FInv, HoldsMain, Excused, HasConflictingChainLock
<1> QED BY <1>1, <1>2, <1>3, <1>4, Zenon DEF LockStep

-----------------------------------------------------------------------------
LEMMA SameExcuse ==
    ASSUME op'.start = op.start, lock' = lock
    PROVE  Excused' <=> Excused
BY DEF Excused, HasConflictingChainLock

LEMMA TakeMainF ==
    ASSUME AInv, FInv, TakeMain
    PROVE  FInv'
<1>1. /\ op'.pc = "choose" /\ op'.most = op.most /\ op'.start = ix.tip
      /\ op.pc = "outer" /\ ix' = ix /\ regressed' = regressed
      /\ Clear(ix.tip, ix) /\ ix \in Indexes /\ ix.tip \in Blocks
      /\ op.most \in Blocks \cup {None}
  BY DEF TakeMain, AInv, OpSound, OpTypes, IndexSound, Indexes
<1>2. op.most # None => ~Worse(op.most, ix.tip, ix)
  BY <1>1, AncestorNotBetter DEF FInv
<1> QED BY <1>1, <1>2 DEF FInv, HoldsMain

\* starting_tip is a block.
LEMMA StartIsBlock ==
    ASSUME AInv, CInv, HoldsMain
    PROVE  op.start \in Blocks
BY DEF AInv, CInv, IndexSound, Indexes

LEMMA FindUnusableF ==
    ASSUME AInv, CInv, FInv, FindUnusable
    PROVE  FInv'
<1>1. BestCandidate(ix) \in Blocks
  BY BestCandidateIs DEF FindUnusable, AInv, IndexSound, Indexes
<1>2. KeepsClear(ix, ix') /\ ix'.tip = ix.tip
  BY <1>1, DropChainSound DEF FindUnusable, AInv
<1>3. op.pc = "choose" /\ op.most = None /\ op' = op /\ lock' = lock
  BY DEF FindUnusable, lockVars
<1>4. Clear(op.start, ix) => Clear(op.start, ix')
  BY <1>2, <1>3, StartIsBlock DEF KeepsClear, HoldsMain
<1> QED BY <1>2, <1>3, <1>4, SameExcuse DEF FInv, HoldsMain

LEMMA FindMostWorkF ==
    ASSUME AInv, CInv, FInv, FindMostWork
    PROVE  FInv'
<1> DEFINE most == IF op.most # None THEN op.most
                   ELSE IF ix.candidates = {} THEN None ELSE BestCandidate(ix)
<1>1. /\ op \in OpTypes /\ op.pc = "choose"
      /\ op' = IF most \in {None, ix.tip}
                THEN [op EXCEPT !.most = most, !.pc = "release"]
                ELSE [op EXCEPT !.most = most, !.pc = "step", !.old = ix.tip]
      /\ ix' = ix /\ regressed' = regressed /\ lock' = lock
  BY DEF FindMostWork, AInv, OpSound, lockVars
<1>2. /\ ix \in Indexes /\ ix.tip \in Blocks /\ ix.tip # None
      /\ op.start \in ix.linked /\ ~Worse(op.start, ix.tip, ix)
      /\ ~regressed => Complete(ix, op.start)
  BY <1>1, TreeAssumption DEF CInv, HoldsMain, AInv, IndexSound, Indexes
<1>3. ASSUME Clear(op.start, ix), ~regressed PROVE op.start \in ix.candidates
  <2>1. op.start \in Connectable(ix) \ ix.conflicting
    BY <1>2, <1>3, ClearConnectable DEF AInv
  <2>2. ~Worse(op.start, op.start, ix)
    BY <1>2, WorseTotal DEF Indexes
  <2> QED BY <1>2, <1>3, <2>1, <2>2 DEF Complete
<1>4. ASSUME ~regressed, ~Excused PROVE most # None /\ ~Worse(most, op.start, ix)
  <2>1. CASE op.most # None
    BY <1>1, <1>4, <2>1 DEF FInv, HoldsMain
  <2>2. CASE op.most = None
    <3>1. op.start \in ix.candidates
      BY <1>1, <1>3, <1>4 DEF FInv, HoldsMain
    <3>2. BestCandidate(ix) \in ix.candidates /\ ~Worse(BestCandidate(ix), op.start, ix)
      BY <1>2, <3>1, BestCandidateIs
    <3> QED BY <1>2, <2>2, <3>1, <3>2, TreeAssumption DEF Indexes
  <2> QED BY <2>1, <2>2
<1> HIDE DEF most
<1>5. /\ op'.pc \in {"release", "step"} /\ op'.most = most /\ op'.start = op.start
      /\ op'.pc = "release" => most \in {None, ix.tip}
  BY <1>1 DEF OpTypes
<1>6. ix.tip \in Chain[ix.tip]
  BY <1>2, ChainHolds
<1> QED BY <1>1, <1>4, <1>5, <1>6, SameExcuse DEF FInv, HoldsMain

LEMMA DisconnectTipF ==
    ASSUME AInv, CInv, FInv, DisconnectTip
    PROVE  FInv'
<1>1. /\ op.pc = "step" /\ op.most \in Blocks /\ ix.tip \in Blocks /\ ix.tip \notin Chain[op.most]
      /\ ix' = [ix EXCEPT !.tip = Parent[@]] /\ op' = op /\ regressed' = regressed /\ lock' = lock
  BY DEF DisconnectTip, AInv, OpSound, OpTypes, IndexSound, Indexes, lockVars
<1>2. ix.tip # Genesis
  BY <1>1, ChainHolds
<1>3. KeepsClear(ix, ix')
  BY <1>1, <1>2, DisconnectSound DEF AInv
<1>4. Chain[ix'.tip] \subseteq Chain[ix.tip] /\ ix'.seq = ix.seq
  BY <1>1, <1>2, ChainDef DEF AInv, IndexSound, Indexes
<1>5. Clear(op.start, ix) => Clear(op.start, ix')
  BY <1>1, <1>3, StartIsBlock DEF KeepsClear, HoldsMain
<1>6. Worse(op.most, op.start, ix') <=> Worse(op.most, op.start, ix)
  BY <1>4, WorseSame
<1> QED BY <1>1, <1>4, <1>5, <1>6, SameExcuse DEF FInv, HoldsMain

LEMMA ConnectTipF ==
    ASSUME CacheMissed = {}, AInv, CInv, FInv, ConnectTip
    PROVE  FInv'
<1> DEFINE b == CHOOSE x \in Chain[op.most] \ Chain[ix.tip] : Parent[x] = ix.tip
<1>0. /\ op.pc = "step" /\ op.most \in Blocks /\ ix.tip \in Blocks /\ ix.tip \in Chain[op.most]
      /\ op.most \notin Chain[ix.tip] /\ Clear(op.most, ix) /\ op \in OpTypes
      /\ regressed' = regressed /\ lock' = lock
  BY DEF ConnectTip, AInv, OpSound, OpTypes, IndexSound, Indexes, lockVars
<1>1. b \in Chain[op.most] \ Chain[ix.tip] /\ Parent[b] = ix.tip
  BY <1>0, NextExists
<1>2. \/ /\ HasConflictingChainLock(b) \/ b \in ConnectBad
         /\ ix' = InvalidBlockFound(b, ix) /\ StepEnd(ix', None)
      \/ /\ b \notin ConnectBad /\ ix' = Connected(b, ix)
         /\ StepEnd(ix', op.most) \/ UNCHANGED op
  <2>1. b \notin CacheMissed
    OBVIOUS
  <2> QED BY <2>1, Zenon DEF ConnectTip
<1> HIDE DEF b
<1>3. b \in Blocks /\ Clear(b, ix) /\ b # Genesis /\ Chain[b] = {b} \cup Chain[ix.tip]
  <2>1. b \in Blocks /\ b # Genesis /\ Clear(b, ix)
    BY <1>0, <1>1, ChainHolds DEF Clear
  <2> QED BY <1>1, <2>1, ChainDef
<1>4. op.start \in Blocks
  BY <1>0, StartIsBlock DEF HoldsMain
<1>5. ASSUME NEW most, StepEnd(ix', most)
      PROVE  /\ op'.most = most /\ op'.start = op.start /\ op'.pc \in {"choose", "release"}
             /\ op'.pc = "release" => ~Worse(ix'.tip, op.start, ix')
  BY <1>0, <1>5 DEF StepEnd, OpTypes
<1>6. CASE /\ HasConflictingChainLock(b) \/ b \in ConnectBad
           /\ ix' = InvalidBlockFound(b, ix) /\ StepEnd(ix', None)
  <2>1. /\ ix'.tip = ix.tip /\ ix'.data = ix.data /\ ix'.failedValid = ix.failedValid \cup {b}
        /\ ix'.failedChild = ix.failedChild /\ ix'.conflicting = ix.conflicting
    BY <1>6 DEF InvalidBlockFound, AInv, IndexSound, Indexes
  <2>2. Clear(op.start, ix) => Clear(op.start, ix') \/ Excused
    <3>1. CASE b \in Chain[op.start]
      BY <1>0, <1>6, <3>1 DEF FInv, HoldsMain, Excused
    <3>2. CASE b \notin Chain[op.start]
      BY <2>1, <3>2 DEF Clear, Failed
    <3> QED BY <3>1, <3>2
  <2>3. op'.most = None /\ op'.start = op.start /\ op'.pc \in {"choose", "release"}
    BY <1>5, <1>6
  <2> QED BY <1>0, <1>5, <1>6, <2>1, <2>2, <2>3, SameExcuse DEF FInv, HoldsMain
<1>7. CASE /\ b \notin ConnectBad /\ ix' = Connected(b, ix)
           /\ StepEnd(ix', op.most) \/ UNCHANGED op
  <2>1. KeepsClear(ix, ix') /\ ix'.tip = b
    BY <1>3, <1>7, ConnectedSound DEF AInv
  <2>2. Clear(op.start, ix) => Clear(op.start, ix')
    BY <1>4, <2>1 DEF KeepsClear
  <2>3. ix'.seq = ix.seq
    BY <1>7 DEF Connected, PruneBlockIndexCandidates, AInv, IndexSound, Indexes
  <2>4. Worse(op.most, op.start, ix') <=> Worse(op.most, op.start, ix)
    BY <2>3, WorseSame
  <2>5. /\ op'.most = op.most /\ op'.start = op.start
        /\ op'.pc \in {"choose", "step", "release"}
        /\ op'.pc = "release" => ~Worse(ix'.tip, op'.start, ix')
    BY <1>0, <1>5, <1>7
  <2>6. Chain[ix'.tip] \cap ConnectBad = {} /\ ix'.tip \in Chain[op.most]
    BY <1>1, <1>3, <1>7, <2>1 DEF FInv
  <2> QED BY <1>0, <2>2, <2>4, <2>5, <2>6, SameExcuse DEF FInv, HoldsMain
<1> QED BY <1>2, <1>6, <1>7

LEMMA ReleaseMainF ==
    ASSUME AInv, FInv, ReleaseMain
    PROVE  FInv'
<1>1. /\ ix' = ix /\ op.pc = "release"
      /\ op' = Idle \/ op' = [op EXCEPT !.pc = "outer", !.start = None, !.moved = FALSE]
  BY DEF ReleaseMain
<1>2. op'.pc = "idle" \/ (op'.pc = "outer" /\ op'.most = op.most)
  <2>1. CASE op' = Idle
    BY <2>1 DEF Idle
  <2>2. CASE op' = [op EXCEPT !.pc = "outer", !.start = None, !.moved = FALSE]
    BY <2>2 DEF AInv, OpSound, OpTypes
  <2> QED BY <1>1, <2>1, <2>2
<1> QED BY <1>1, <1>2 DEF FInv, HoldsMain

LEMMA ActivateF ==
    ASSUME FInv, Activate
    PROVE  FInv'
<1>1. \/ op' = [Idle EXCEPT !.pc = "outer"]
      \/ op' = [Idle EXCEPT !.pc = "outer", !.by = "sched"]
  BY DEF Activate
<1>2. op'.pc = "outer" /\ op'.most = None /\ ix' = ix
  BY <1>1 DEF Idle, Activate
<1> QED BY <1>2 DEF FInv, HoldsMain

LEMMA FInvStep == CacheMissed = {} /\ AInv /\ CInv /\ BranchInv /\ FInv /\ [Next]_vars => FInv'
<1> SUFFICES ASSUME CacheMissed = {}, AInv, CInv, BranchInv, FInv, [Next]_vars PROVE FInv'
  OBVIOUS
<1>1. CASE ActivateStep
  BY <1>1, ActivateF, TakeMainF, FindUnusableF, FindMostWorkF, DisconnectTipF, ConnectTipF,
     ReleaseMainF, Zenon DEF ActivateStep
<1>2. CASE InvalidateStep
  BY <1>2, InvalidateStepF
<1>3. CASE LockStep
  BY <1>3, LockStepF
<1>4. ASSUME UNCHANGED <<ix, op, regressed, lock>> PROVE FInv'
  BY <1>4 DEF FInv, HoldsMain, Excused, HasConflictingChainLock
<1>5. CASE Arrival
  <2>1. ASSUME NEW b \in Locks, SeeChainLock(b) PROVE UNCHANGED <<ix, op, regressed, lock>>
    BY <2>1 DEF SeeChainLock
  <2> QED BY <1>4, <1>5, <2>1, ArrivalF, Zenon DEF Arrival
<1>6. CASE Operator
  BY <1>6, OperatorF
<1>7. CASE UNCHANGED vars
  BY <1>4, <1>7 DEF vars
<1> QED BY <1>1, <1>2, <1>3, <1>5, <1>6, <1>7 DEF Next

\* ActivateBestChain does not let go of cs_main with less work on the active
\* chain than it found, as its comment demands, whatever fails to connect on the
\* way, unless a chain lock, which may come in the middle of the turn, has ruled
\* the old chain out.
THEOREM ProgressCorrect == CacheMissed = {} => (Spec => []ForwardProgress)
<1> SUFFICES ASSUME CacheMissed = {} PROVE Spec => []ForwardProgress
  OBVIOUS
<1>1. AInv /\ CInv /\ BranchInv /\ FInv /\ [Next]_vars => FInv'
  BY FInvStep
<1>2. ASSUME AInv, CInv, FInv PROVE ForwardProgress
  <2> SUFFICES ASSUME op.pc = "release", ~regressed, ~Excused
               PROVE  ChainWork[ix.tip] >= ChainWork[op.start]
    BY DEF ForwardProgress, Excused
  <2>1. ~Worse(ix.tip, op.start, ix)
    BY <1>2 DEF FInv
  <2>2. ChainWork[ix.tip] \in Nat /\ ChainWork[op.start] \in Nat
    BY <1>2, StartIsBlock, TreeAssumption DEF HoldsMain, AInv, IndexSound, Indexes
  <2> QED BY <2>1, <2>2 DEF Worse
<1>3. AInv /\ CInv /\ FInv => ForwardProgress
  BY <1>2
<1> QED BY <1>1, <1>3, BranchInvariance, FInvInit, CInvariance, Invariance, PTL DEF Spec

-----------------------------------------------------------------------------
\* No block on the way to one that may get a lock is marked as conflicting, and
\* once EnforceBlock has run for the best lock, the active chain stays on its
\* branch: ConnectTip takes no block that conflicts with it.
HInv ==
    /\ sched.pc # "none" => sched.block \in Locks
    /\ \A l \in Locks : Chain[l] \cap ix.conflicting = {}
    /\ lock.enforced => lock.index \in Locks /\ OneBranch(lock.index, ix.tip)

LEMMA HInvInit == Init => HInv
BY DEF Init, HInv, NoJob, GenesisIndex

\* The tip stays or goes down, and nothing is marked that does not conflict.
LEMMA KeepsH ==
    ASSUME AInv, HInv, sched'.pc # "none" => sched'.block \in Locks,
           \A l \in Locks : Chain[l] \cap (ix'.conflicting \ ix.conflicting) = {},
           ix'.tip \in Chain[ix.tip],
           lock'.enforced => lock.enforced /\ lock'.index = lock.index
    PROVE  HInv'
<1>1. ix.tip \in Blocks /\ Locks \subseteq Blocks
  BY FaultsAssumption DEF AInv, IndexSound, Indexes
<1>2. \A l \in Locks : Chain[l] \cap ix'.conflicting = {}
  BY DEF HInv
<1>3. lock'.enforced => lock'.index \in Locks /\ OneBranch(lock'.index, ix'.tip)
  BY <1>1, BranchBelow DEF HInv
<1> QED BY <1>2, <1>3 DEF HInv

\* The same for steps that leave the tip, the marks and the scheduler alone.
LEMMA SameH ==
    ASSUME AInv, HInv, sched' = sched, ix'.conflicting \subseteq ix.conflicting, ix'.tip = ix.tip,
           lock'.enforced => lock.enforced /\ lock'.index = lock.index
    PROVE  HInv'
<1>1. ix.tip \in Chain[ix.tip]
  BY ChainHolds DEF AInv, IndexSound, Indexes
<1>2. \A l \in Locks : Chain[l] \cap (ix'.conflicting \ ix.conflicting) = {}
  OBVIOUS
<1>3. sched'.pc # "none" => sched'.block \in Locks
  BY DEF HInv
<1>4. ix'.tip \in Chain[ix.tip]
  BY <1>1
<1> QED BY <1>2, <1>3, <1>4, KeepsH

LEMMA ConflictOffBranch ==
    ASSUME BranchInv, NEW b \in Blocks, HasConflictingChainLock(b), NEW l \in Locks
    PROVE  b \notin Chain[l]
<1>1. /\ lock.index \in Locks /\ l \in Blocks /\ lock.index \in Blocks
      /\ Height(b) <= Height(lock.index) /\ b \notin Chain[lock.index]
  BY FaultsAssumption DEF BranchInv, HasConflictingChainLock
<1>2. CASE lock.index \in Chain[l]
  BY <1>1, <1>2, HigherLockConflicts
<1>3. CASE l \in Chain[lock.index]
  BY <1>1, <1>3, ChainHolds
<1> QED BY <1>1, <1>2, <1>3, FaultsAssumption

LEMMA LateHeaderH ==
    ASSUME AInv, NEW b, LateHeader(b) \/ UNCHANGED lock
    PROVE  lock'.enforced => lock.enforced /\ lock'.index = lock.index
<1>1. lock \in [best : Blocks \cup {None}, index : Blocks \cup {None}, enforced : BOOLEAN]
  BY DEF AInv, LocksSound
<1>2. lock' = lock \/ lock' = [lock EXCEPT !.index = b, !.enforced = FALSE]
  BY DEF LateHeader
<1> QED BY <1>1, <1>2

LEMMA ArrivalH ==
    ASSUME AInv, BranchInv, HInv, NEW b \in Blocks \ {Genesis},
           ProcessHeader(b) \/ \E requested \in BOOLEAN : ProcessNewBlock(b, requested)
    PROVE  HInv'
<1>1. ASSUME NEW s, IndexSound(s), OnlyMarks(ix, s), ix'.tip = s.tip, ix'.conflicting = s.conflicting,
             \A c \in s.conflicting \ ix.conflicting : HasConflictingChainLock(c),
             sched' = sched, LateHeader(b) \/ UNCHANGED lock
      PROVE  HInv'
  <2>1. \A l \in Locks : Chain[l] \cap (ix'.conflicting \ ix.conflicting) = {}
    BY <1>1, ConflictOffBranch DEF IndexSound, Indexes
  <2>2. ix'.tip \in Chain[ix.tip]
    BY <1>1, ChainHolds DEF OnlyMarks, AInv, IndexSound, Indexes
  <2>3. lock'.enforced => lock.enforced /\ lock'.index = lock.index
    BY <1>1, LateHeaderH
  <2>4. sched'.pc # "none" => sched'.block \in Locks
    BY <1>1 DEF HInv
  <2> QED BY <2>1, <2>2, <2>3, <2>4, KeepsH
<1>2. CASE ProcessHeader(b)
  <2> DEFINE conflicts == HasConflictingChainLock(b)
  <2>1. conflicts \in BOOLEAN
    BY Zenon DEF HasConflictingChainLock
  <2>2. /\ Parent[b] \in ix.known /\ ix' = AcceptBlockHeader(b, ix, conflicts) /\ sched' = sched
        /\ LateHeader(b) \/ UNCHANGED lock
    BY <1>2 DEF ProcessHeader
  <2>3. \A c \in ix'.conflicting \ ix.conflicting : HasConflictingChainLock(c)
    BY <2>2, HeaderConflicts DEF AInv
  <2>4. IndexSound(ix') /\ OnlyMarks(ix, ix')
    <3> HIDE DEF conflicts
    <3> QED BY <2>1, <2>2, HeaderSound, HeaderMarks DEF AInv
  <2> QED BY <1>1, <2>2, <2>3, <2>4
<1>3. ASSUME NEW requested \in BOOLEAN, ProcessNewBlock(b, requested) PROVE HInv'
  <2>1. PICK s : /\ IndexSound(s) /\ OnlyMarks(ix, s)
                 /\ \A c \in s.conflicting \ ix.conflicting : HasConflictingChainLock(c)
                 /\ \/ ix' = s
                    \/ ix' = [s EXCEPT !.failedValid = @ \cup {b}] /\ due' = due
                    \/ /\ b \in s.known \ s.data /\ due' = TRUE
                       /\ ix' \in ReceivedBlockTransactions(b, s)
    BY <1>3, ProcessNewBlockCases
  <2>2. sched' = sched /\ (LateHeader(b) \/ UNCHANGED lock)
    BY <1>3, Zenon DEF ProcessNewBlock
  <2>3. ix'.tip = s.tip /\ ix'.conflicting = s.conflicting
    <3>1. CASE ix' = [s EXCEPT !.failedValid = @ \cup {b}]
      BY <2>1, <3>1 DEF IndexSound, Indexes
    <3>2. CASE ix' \in ReceivedBlockTransactions(b, s)
      BY <2>1, <3>2 DEF ReceivedBlockTransactions, Linked, IndexSound, Indexes
    <3> QED BY <2>1, <3>1, <3>2
  <2> QED BY <1>1, <2>1, <2>2, <2>3
<1> QED BY <1>2, <1>3

LEMMA OperatorH ==
    ASSUME AInv, HInv, Operator
    PROVE  HInv'
<1>1. ASSUME NEW b \in Blocks, Precious(b) PROVE HInv'
  <2>1. ix'.conflicting = ix.conflicting /\ ix'.tip = ix.tip /\ sched' = sched /\ lock' = lock
    BY <1>1 DEF Precious, PreciousBlock, PruneBlockIndexCandidates, AInv, IndexSound, Indexes, lockVars
  <2> QED BY <2>1, SameH
<1>2. ASSUME NEW b \in Blocks, Reconsider(b) PROVE HInv'
  <2>1. ix'.conflicting = ix.conflicting /\ ix'.tip = ix.tip /\ sched' = sched /\ lock' = lock
    BY <1>2 DEF Reconsider, ResetBlockFailureFlags, AInv, IndexSound, Indexes, lockVars
  <2> QED BY <2>1, SameH
<1>3. ASSUME NEW b \in Blocks, Invalidate(b) PROVE HInv'
  BY <1>3, SameH DEF Invalidate, lockVars
<1>4. CASE Restart
  <2>1. PICK kept \in SUBSET ix.conflicting : ix' = Startup([ix EXCEPT !.conflicting = kept])
    BY <1>4 DEF Restart
  <2> DEFINE t == LoadBlockIndex([ix EXCEPT !.conflicting = kept])
  <2>2. t.tip = ix.tip /\ t.conflicting = kept /\ IndexSound(t)
    <3>1. ix \in Indexes /\ IndexSound(ix)
      BY DEF AInv, IndexSound
    <3>2. t.conflicting = kept
      BY <3>1 DEF LoadBlockIndex, PruneBlockIndexCandidates, Indexes
    <3> HIDE DEF t
    <3> QED BY <3>1, <3>2, LoadSound DEF t
  <2>3. ix' = t \/ ix' = ResetBlockFailureFlags(BestInvalid(t), t)
    BY <2>1 DEF Startup
  <2> HIDE DEF t
  <2>4. ix'.tip = t.tip /\ ix'.conflicting = t.conflicting
    BY <2>2, <2>3 DEF ResetBlockFailureFlags, IndexSound, Indexes
  <2>5. sched' = sched /\ lock'.enforced = FALSE
    BY <1>4 DEF Restart
  <2> QED BY <2>2, <2>4, <2>5, SameH
<1> QED BY <1>1, <1>2, <1>3, <1>4, Zenon DEF Operator

LEMMA InvalidateStepH ==
    ASSUME AInv, HInv, InvalidateStep
    PROVE  HInv'
<1>1. CASE InvalidateTip
  <2>1. /\ ix.tip # Genesis /\ ix.tip \in Blocks /\ ix'.tip = Parent[ix.tip]
        /\ ix'.conflicting = ix.conflicting
    BY <1>1, InvalidateTipIs DEF AInv, IndexSound, Indexes
  <2>2. Parent[ix.tip] \in Chain[ix.tip]
    BY <2>1, ChainDef, ChainHolds, TreeAssumption
  <2>3. sched' = sched /\ lock' = lock
    BY <1>1 DEF InvalidateTip, lockVars
  <2>4. \A l \in Locks : Chain[l] \cap (ix'.conflicting \ ix.conflicting) = {}
    BY <2>1
  <2>5. sched'.pc # "none" => sched'.block \in Locks
    BY <2>3 DEF HInv
  <2> QED BY <2>1, <2>2, <2>3, <2>4, <2>5, KeepsH
<1>2. CASE InvalidateEnd
  <2>1. ix'.conflicting = ix.conflicting /\ ix'.tip = ix.tip /\ sched' = sched /\ lock' = lock
    BY <1>2 DEF InvalidateEnd, AddCandidates, InvalidBlockFound, AInv, IndexSound, Indexes, lockVars
  <2> QED BY <2>1, SameH
<1> QED BY <1>1, <1>2 DEF InvalidateStep

LEMMA LockStepH ==
    ASSUME AInv, CInv, BranchInv, HInv, LockStep
    PROVE  HInv'
<1>0. /\ lock \in [best : Blocks \cup {None}, index : Blocks \cup {None}, enforced : BOOLEAN]
      /\ ix.tip \in Blocks /\ ix.tip \in Chain[ix.tip] /\ Locks \subseteq Blocks
  BY ChainHolds, FaultsAssumption DEF AInv, LocksSound, IndexSound, Indexes
<1>1. CASE StoreChainLock
  <2>1. ix' = ix /\ sched' = sched /\ (lock'.enforced => lock.enforced /\ lock'.index = lock.index)
    BY <1>0, <1>1 DEF StoreChainLock
  <2> QED BY <2>1, SameH
<1>2. ASSUME NEW job \in {"clsig", "tip"}, BeginEnforce(job) PROVE HInv'
  <2>1. ix' = ix /\ lock' = lock /\ (sched' = sched \/ (lock.index # None /\ sched'.block = lock.index))
    BY <1>2 DEF BeginEnforce
  <2> QED BY <2>1 DEF HInv, BranchInv
<1>3. CASE Enforce
  <2>1. /\ sched.block \in Locks /\ ix' = EnforceBlock(sched.block, ix)
        /\ sched'.block = sched.block
        /\ lock'.index = lock.index /\ (lock'.enforced => lock.enforced \/ lock.index = sched.block)
    BY <1>0, <1>3 DEF Enforce, HInv, AInv, LocksSound
  <2>2. /\ OneBranch(sched.block, ix'.tip) /\ ix'.tip \in Chain[ix.tip]
        /\ \A c \in ix'.conflicting \ ix.conflicting :
              c \in Blocks /\ Chain[c] \cap ToMarkConflicting(sched.block, ix) # {}
    BY <1>0, <2>1, EnforceBranch, EnforceLinks DEF AInv, CInv
  <2>3. ASSUME NEW l \in Locks PROVE Chain[l] \cap ix'.conflicting = {}
    <3>1. Chain[l] \cap ToMarkConflicting(sched.block, ix) = {}
      BY <1>0, <2>1, <2>3, MarkedOffBranch, FaultsAssumption DEF AInv, OneBranch
    <3>2. \A c \in Chain[l] : Chain[c] \subseteq Chain[l]
      BY <1>0, ChainHolds
    <3> QED BY <2>2, <3>1, <3>2 DEF HInv
  <2>4. lock'.enforced => lock'.index \in Locks /\ OneBranch(lock'.index, ix'.tip)
    BY <1>0, <2>1, <2>2, BranchBelow DEF HInv
  <2> QED BY <2>1, <2>3, <2>4 DEF HInv
<1>4. CASE EnforceCheck
  <2>1. /\ ix' = ix /\ lock' = lock /\ sched.pc = "check"
        /\ sched' = NoJob \/ sched' = [sched EXCEPT !.pc = "activate"]
    BY <1>4 DEF EnforceCheck, JobEnd
  <2>2. sched'.pc = "none" \/ sched'.block = sched.block
    BY <2>1 DEF NoJob, AInv, LocksSound
  <2> QED BY <2>1, <2>2 DEF HInv
<1> QED BY <1>1, <1>2, <1>3, <1>4, Zenon DEF LockStep

-----------------------------------------------------------------------------
\* A block that does not conflict with the lock keeps the chain on its branch.
LEMMA ConnectOnBranch ==
    ASSUME NEW l \in Blocks, NEW b \in Blocks \ {Genesis}, OneBranch(l, Parent[b]),
           Height(b) <= Height(l) => b \in Chain[l]
    PROVE  OneBranch(l, b)
<1>1. Parent[b] \in Blocks /\ Chain[b] = {b} \cup Chain[Parent[b]] /\ Parent[b] \in Chain[Parent[b]]
  BY ChainDef, ChainHolds, TreeAssumption
<1>2. CASE l \in Chain[Parent[b]]
  BY <1>1, <1>2 DEF OneBranch
<1>3. CASE Parent[b] \in Chain[l] /\ l \notin Chain[Parent[b]]
  <2>1. Height(b) = Height(Parent[b]) + 1
    BY ChildHeight
  <2>2. ~(Height(l) <= Height(Parent[b])) /\ Height(l) \in Int /\ Height(Parent[b]) \in Int
    BY <1>3, HeightOrders
  <2> QED BY <2>1, <2>2 DEF OneBranch
<1> QED BY <1>2, <1>3 DEF OneBranch

LEMMA ConnectTipH ==
    ASSUME CacheMissed = {}, AInv, HInv, ConnectTip
    PROVE  HInv'
<1> DEFINE b == CHOOSE x \in Chain[op.most] \ Chain[ix.tip] : Parent[x] = ix.tip
<1>0. /\ op.most \in Blocks /\ ix.tip \in Blocks /\ ix.tip \in Chain[op.most]
      /\ op.most \notin Chain[ix.tip] /\ sched' = sched /\ lock' = lock
  BY DEF ConnectTip, AInv, OpSound, OpTypes, IndexSound, Indexes, lockVars
<1>1. b \in Chain[op.most] \ Chain[ix.tip] /\ Parent[b] = ix.tip
  BY <1>0, NextExists
<1>2. \/ ix' = InvalidBlockFound(b, ix)
      \/ ~HasConflictingChainLock(b) /\ ix' = Connected(b, ix)
  <2>1. b \notin CacheMissed
    OBVIOUS
  <2> QED BY <2>1, Zenon DEF ConnectTip
<1> HIDE DEF b
<1>3. b \in Blocks \ {Genesis}
  BY <1>0, <1>1, ChainHolds
<1>4. CASE ix' = InvalidBlockFound(b, ix)
  <2>1. ix'.tip = ix.tip /\ ix'.conflicting = ix.conflicting
    BY <1>4 DEF InvalidBlockFound, AInv, IndexSound, Indexes
  <2> QED BY <1>0, <2>1, SameH
<1>5. CASE ~HasConflictingChainLock(b) /\ ix' = Connected(b, ix)
  <2>1. ix'.tip = b /\ ix'.conflicting = ix.conflicting
    BY <1>3, <1>5 DEF Connected, PruneBlockIndexCandidates, AInv, IndexSound, Indexes
  <2>2. ASSUME lock.enforced PROVE OneBranch(lock.index, b)
    <3>1. /\ lock.index \in Blocks /\ lock.index # None /\ OneBranch(lock.index, ix.tip)
      BY <2>2, FaultsAssumption, TreeAssumption DEF HInv
    <3>2. Height(b) <= Height(lock.index) => b \in Chain[lock.index]
      BY <1>5, <3>1 DEF HasConflictingChainLock
    <3> QED BY <1>1, <1>3, <3>1, <3>2, ConnectOnBranch
  <2> QED BY <1>0, <2>1, <2>2 DEF HInv
<1> QED BY <1>2, <1>4, <1>5

LEMMA ActivateStepH ==
    ASSUME CacheMissed = {}, AInv, HInv, ActivateStep
    PROVE  HInv'
<1>1. CASE Activate \/ TakeMain \/ FindMostWork
  <2>1. ix' = ix /\ lock' = lock /\ sched' = sched
    BY <1>1 DEF Activate, TakeMain, FindMostWork, lockVars
  <2> QED BY <2>1, SameH
<1>2. CASE FindUnusable
  <2>1. /\ BestCandidate(ix) \in Blocks /\ ix' = DropChain(BestCandidate(ix), ix)
        /\ Unusable(BestCandidate(ix), ix) # {} /\ lock' = lock /\ sched' = sched
    BY <1>2, BestCandidateIs DEF FindUnusable, AInv, IndexSound, Indexes, lockVars
  <2>2. /\ ix'.tip = ix.tip
        /\ \A c \in ix'.conflicting \ ix.conflicting : Chain[c] \cap ix.conflicting # {}
    BY <2>1, DropChainSound, DropChainConflicts DEF AInv
  <2>3. ix'.tip \in Chain[ix.tip]
    BY <2>2, ChainHolds DEF AInv, IndexSound, Indexes
  <2>4. \A l \in Locks : Chain[l] \cap (ix'.conflicting \ ix.conflicting) = {}
    <3>1. \A l \in Locks : \A c \in Chain[l] : Chain[c] \subseteq Chain[l]
      BY FaultsAssumption, ChainHolds
    <3> QED BY <2>2, <3>1 DEF HInv
  <2>5. sched'.pc # "none" => sched'.block \in Locks
    BY <2>1 DEF HInv
  <2> QED BY <2>1, <2>3, <2>4, <2>5, KeepsH
<1>3. CASE DisconnectTip
  <2>1. /\ op.most \in Blocks /\ ix.tip \in Blocks /\ ix.tip \notin Chain[op.most]
        /\ ix'.tip = Parent[ix.tip] /\ ix'.conflicting = ix.conflicting
        /\ lock' = lock /\ sched' = sched
    BY <1>3 DEF DisconnectTip, AInv, OpSound, OpTypes, IndexSound, Indexes, lockVars
  <2>2. Parent[ix.tip] \in Chain[ix.tip]
    BY <2>1, ChainDef, ChainHolds, TreeAssumption
  <2>3. sched'.pc # "none" => sched'.block \in Locks
    BY <2>1 DEF HInv
  <2>4. \A l \in Locks : Chain[l] \cap (ix'.conflicting \ ix.conflicting) = {}
    BY <2>1
  <2> QED BY <2>1, <2>2, <2>3, <2>4, KeepsH
<1>4. CASE ReleaseMain
  <2>1. ix' = ix /\ lock' = lock /\ (sched' = NoJob \/ sched' = sched)
    BY <1>4 DEF ReleaseMain, JobEnd
  <2> QED BY <2>1 DEF HInv, NoJob
<1> QED BY <1>1, <1>2, <1>3, <1>4, ConnectTipH, Zenon DEF ActivateStep

LEMMA HInvStep == CacheMissed = {} /\ AInv /\ CInv /\ BranchInv /\ HInv /\ [Next]_vars => HInv'
<1> SUFFICES ASSUME CacheMissed = {}, AInv, CInv, BranchInv, HInv, [Next]_vars PROVE HInv'
  OBVIOUS
<1>1. ASSUME UNCHANGED <<ix, lock, sched>> PROVE HInv'
  BY <1>1 DEF HInv
<1>2. CASE Arrival
  <2>1. ASSUME NEW b \in Locks, SeeChainLock(b) PROVE UNCHANGED <<ix, lock, sched>>
    BY <2>1 DEF SeeChainLock
  <2> QED BY <1>1, <1>2, <2>1, ArrivalH, Zenon DEF Arrival
<1>3. CASE UNCHANGED vars
  BY <1>1, <1>3 DEF vars
<1> QED BY <1>2, <1>3, ActivateStepH, InvalidateStepH, LockStepH, OperatorH, Zenon DEF Next

\* When nobody has anything left to do, the active chain holds the block of the
\* best chain lock if EnforceBlock has run for it and its chain is there and not
\* failed, however much work the other chains have and whatever arrives, fails,
\* is invalidated or reconsidered after that.
THEOREM LocksCorrect == CacheMissed = {} => (Spec => []LockHeld)
<1> SUFFICES ASSUME CacheMissed = {} PROVE Spec => []LockHeld
  OBVIOUS
<1>1. AInv /\ CInv /\ BranchInv /\ HInv /\ [Next]_vars => HInv'
  BY HInvStep
<1>2. ASSUME AInv, HInv, TipIsBest PROVE LockHeld
  <2> SUFFICES ASSUME Quiet, ~regressed, lock.enforced, lock.index \in Connectable(ix),
                      Chain[lock.index] \cap ix.failedValid = {}
               PROVE  lock.index \in Chain[ix.tip]
    BY DEF LockHeld
  <2>1. /\ ix \in Indexes /\ lock.index \in Blocks /\ lock.index \in Locks
        /\ OneBranch(lock.index, ix.tip) /\ ix.tip \in Blocks
    BY <1>2, FaultsAssumption DEF AInv, IndexSound, Indexes, HInv
  <2>2. lock.index \in Usable
    BY <1>2, <2>1 DEF Usable, Connectable, HInv
  <2>3. ~Worse(ix.tip, lock.index, ix)
    BY <1>2, <2>2 DEF TipIsBest
  <2>4. ASSUME ix.tip \in Chain[lock.index] PROVE lock.index \in Chain[ix.tip]
    BY <2>1, <2>3, <2>4, AncestorWorse, ChainHolds
  <2> QED BY <2>1, <2>4 DEF OneBranch
<1>3. AInv /\ HInv /\ TipIsBest => LockHeld
  BY <1>2
<1> QED BY <1>1, <1>3, BranchInvariance, HInvInit, BestTipCorrect, CInvariance, Invariance, PTL DEF Spec
=============================================================================
