-------------------------- MODULE ChainActivation --------------------------
(***************************************************************************)
(* Who changes the active chain: ActivateBestChain, InvalidateBlock and    *)
(* EnforceBlock, which exclude each other with m_cs_chainstate, and the    *)
(* arrival of headers and blocks, preciousblock, reconsiderblock and chain *)
(* locks, which take cs_main (the locks only cs) and run whenever the      *)
(* others let go of it.  The scheduler of CChainLocksHandler is one        *)
(* thread, and enforces the best chain lock.                               *)
(*                                                                         *)
(* Chain locks are enforced throughout (spork 19 on, DIP8 active), and the *)
(* blocks that get one lie on one branch: a quorum does not sign a block   *)
(* that conflicts with its best lock.                                      *)
(***************************************************************************)
EXTENDS BlockIndex

CONSTANTS
    ContextBad,     \* the blocks that fail ContextualCheckBlock
    ConnectBad,     \* the blocks that fail ConnectBlock for good
    CacheMissed,    \* the blocks that fail it with BLOCK_CACHE_MISSING_PREV
    Locks,          \* the blocks that a quorum may lock
    Commands,       \* what an operator may call
    MaxCommands,    \* bound on the calls of a behaviour
    MaxRestarts     \* bound on the restarts of a behaviour

ASSUME FaultsAssumption ==
    /\ ContextBad \cup ConnectBad \cup CacheMissed \cup Locks \subseteq Blocks \ {Genesis}
    /\ \A a, b \in Locks : a \in Chain[b] \/ b \in Chain[a]
    /\ Commands \subseteq {"invalidate", "reconsider", "precious"}
    /\ MaxCommands \in Nat /\ MaxRestarts \in Nat

VARIABLES
    ix,             \* the block index
    op,             \* the thread that holds m_cs_chainstate
    due,            \* somebody is about to call ActivateBestChain
    lock,           \* bestChainLock, bestChainLockBlockIndex, and whether
                    \* EnforceBlock has run for the latter (history)
    clsig,          \* the CLSIG between the two halves of ProcessNewChainLock
    sched,          \* the job of the scheduler
    clQueued,       \* the job of a CLSIG is in the scheduler's queue
    tipScheduled,   \* tryLockChainTipScheduled
    regressed,      \* the tip has come to sort before what it was: left so by
                    \* ActivateBestChain, or put back by preciousblock; and the
                    \* candidates have not been collected anew (history)
    commands, restarts

vars == <<ix, op, due, lock, clsig, sched, clQueued, tipScheduled, regressed,
          commands, restarts>>
lockVars == <<lock, clsig, sched, clQueued>>
bounds == <<commands, restarts>>

(***************************************************************************)
(* op.pc of ActivateBestChain is "outer" without cs_main, "choose", "step" *)
(* or "release" with it; most, newTip, start and old are pindexMostWork,   *)
(* pindexNewTip, starting_tip and pindexOldTip.  Of InvalidateBlock it is  *)
(* "invalidate", without cs_main; block, mark and waiting are pindex,      *)
(* to_mark_failed and candidate_blocks_by_work.                            *)
(***************************************************************************)
Idle == [pc |-> "idle", by |-> "net", most |-> None, newTip |-> None, start |-> None,
         old |-> None, moved |-> FALSE, block |-> None, mark |-> None, waiting |-> {}]
NoJob == [job |-> "none", pc |-> "none", block |-> None]

MainFree == op.pc \in {"idle", "outer", "invalidate"}

\* HasConflictingChainLock(Height(b), b).
HasConflictingChainLock(b) ==
    lock.index # None /\ Height(b) <= Height(lock.index) /\ b \notin Chain[lock.index]

Init ==
    /\ ix = GenesisIndex /\ op = Idle /\ due = FALSE
    /\ lock = [best |-> None, index |-> None, enforced |-> FALSE]
    /\ clsig = <<>> /\ sched = NoJob /\ clQueued = FALSE /\ tipScheduled = FALSE
    /\ regressed = FALSE /\ commands = 0 /\ restarts = 0

-----------------------------------------------------------------------------
\* CChainLocksHandler::AcceptedBlockHeader, for a header that is new.
LateHeader(b) ==
    lock' = IF lock.best = b /\ b \notin ix.known
            THEN [lock EXCEPT !.index = b, !.enforced = FALSE] ELSE lock

\* ProcessNewBlockHeaders, one header.
ProcessHeader(b) ==
    /\ MainFree /\ b \notin ix.known /\ Parent[b] \in ix.known
    /\ ix' = AcceptBlockHeader(b, ix, HasConflictingChainLock(b))
    /\ IF HeaderAccepted(b, ix, HasConflictingChainLock(b))
       THEN LateHeader(b) ELSE UNCHANGED lock
    /\ UNCHANGED <<op, due, clsig, sched, clQueued, tipScheduled, regressed, bounds>>

\* ProcessNewBlock up to ActivateBestChain.
ProcessNewBlock(b, requested) ==
    LET s == AcceptBlockHeader(b, ix, HasConflictingChainLock(b))
        accepted == HeaderAccepted(b, ix, HasConflictingChainLock(b))
        ignored == b \in s.data \/ (~requested /\ ChainWork[b] < ChainWork[s.tip])
    IN  /\ MainFree /\ Parent[b] \in ix.known
        /\ CASE ~accepted -> ix' = s /\ UNCHANGED due
             [] accepted /\ ignored -> ix' = s /\ due' = TRUE
             [] accepted /\ ~ignored /\ b \in ContextBad ->
                    ix' = [s EXCEPT !.failedValid = @ \cup {b}] /\ UNCHANGED due
             [] OTHER -> ix' \in ReceivedBlockTransactions(b, s) /\ due' = TRUE
        /\ IF accepted THEN LateHeader(b) ELSE UNCHANGED lock
        /\ UNCHANGED <<op, clsig, sched, clQueued, tipScheduled, regressed, bounds>>

Command(name) ==
    /\ name \in Commands /\ commands < MaxCommands
    /\ commands' = commands + 1 /\ UNCHANGED restarts

\* The RPC preciousblock.  The number that it gives the tip may be higher than
\* the one an earlier call gave it, before the chain grew.
Precious(b) ==
    /\ Command("precious") /\ MainFree /\ b \in ix.known
    /\ ChainWork[b] >= ChainWork[ix.tip]
    /\ ix' = PreciousBlock(b, ix) /\ due' = TRUE
    /\ regressed' = (regressed \/ (b = ix.tip /\ ix.seq[b] < ix'.seq[b]))
    /\ UNCHANGED <<op, lockVars, tipScheduled>>

\* The RPC reconsiderblock.
Reconsider(b) ==
    /\ Command("reconsider") /\ MainFree /\ b \in ix.known
    /\ ix' = ResetBlockFailureFlags(b, ix) /\ due' = TRUE
    /\ UNCHANGED <<op, lockVars, tipScheduled, regressed>>

-----------------------------------------------------------------------------
\* ActivateBestChain takes m_cs_chainstate.
Activate ==
    /\ op.pc = "idle"
    /\ \/ due /\ due' = FALSE /\ op' = [Idle EXCEPT !.pc = "outer"]
       \/ /\ sched.pc = "activate" /\ UNCHANGED due
          /\ op' = [Idle EXCEPT !.pc = "outer", !.by = "sched"]
    /\ UNCHANGED <<ix, lockVars, tipScheduled, regressed, bounds>>

\* It takes cs_main for one turn of the outer loop.
TakeMain ==
    /\ op.pc = "outer"
    /\ op' = [op EXCEPT !.pc = "choose", !.start = ix.tip]
    /\ UNCHANGED <<ix, due, lockVars, tipScheduled, regressed, bounds>>

\* FindMostWorkChain, one turn of its loop: a candidate that cannot be used.
FindUnusable ==
    /\ op.pc = "choose" /\ op.most = None /\ ix.candidates # {}
    /\ Unusable(BestCandidate(ix), ix) # {}
    /\ ix' = DropChain(BestCandidate(ix), ix)
    /\ UNCHANGED <<op, due, lockVars, tipScheduled, regressed, bounds>>

\* FindMostWorkChain returns, if pindexMostWork is not kept from before, and
\* there is a chain to switch to or not.
FindMostWork ==
    /\ op.pc = "choose"
    /\ op.most = None /\ ix.candidates # {} => Unusable(BestCandidate(ix), ix) = {}
    /\ LET most == IF op.most # None THEN op.most
                   ELSE IF ix.candidates = {} THEN None
                   ELSE BestCandidate(ix)
       IN  op' = IF most \in {None, ix.tip}
                 THEN [op EXCEPT !.most = most, !.pc = "release"]
                 ELSE [op EXCEPT !.most = most, !.pc = "step", !.old = ix.tip]
    /\ UNCHANGED <<ix, due, lockVars, tipScheduled, regressed, bounds>>

\* ActivateBestChainStep disconnects what is not below pindexMostWork.
DisconnectTip ==
    /\ op.pc = "step" /\ ix.tip \notin Chain[op.most]
    /\ ix' = [ix EXCEPT !.tip = Parent[@]]
    /\ UNCHANGED <<op, due, lockVars, tipScheduled, regressed, bounds>>

\* Fault: cs_main is let go after every step.
StepEndAtOnce(s, most) ==
    op' = [op EXCEPT !.moved = TRUE, !.newTip = s.tip, !.most = most, !.old = None,
                     !.pc = "release"]

\* The end of ActivateBestChainStep and of a turn of the inner loop, which
\* goes on while the tip sorts before the one it started from.
StepEnd(s, most) ==
    op' = [op EXCEPT !.moved = TRUE, !.newTip = s.tip, !.most = most, !.old = None,
                     !.pc = IF Worse(s.tip, op.start, s) THEN "choose" ELSE "release"]

\* ActivateBestChainStep connects the next block.
ConnectTip ==
    /\ op.pc = "step" /\ ix.tip \in Chain[op.most]
    /\ LET b == CHOOSE x \in Chain[op.most] \ Chain[ix.tip] : Parent[x] = ix.tip
       IN  CASE HasConflictingChainLock(b) \/ b \in ConnectBad ->
                    ix' = InvalidBlockFound(b, ix) /\ StepEnd(ix', None)
             [] ~HasConflictingChainLock(b) /\ b \in CacheMissed ->
                    ix' = [ix EXCEPT !.candidates = {}] /\ StepEnd(ix', None)
             [] OTHER ->
                    /\ ix' = Connected(b, ix)
                    /\ IF ChainWork[b] > ChainWork[op.old] \/ b = op.most
                       THEN StepEnd(ix', op.most) ELSE UNCHANGED op
    /\ UNCHANGED <<due, lockVars, tipScheduled, regressed, bounds>>

\* The scheduler's job ends.
JobEnd(signal) ==
    /\ sched' = NoJob
    /\ tipScheduled' = ((tipScheduled \/ signal) /\ sched.job # "tip")

\* Fault: it returns after one turn.
ReleaseMainOnce ==
    /\ op.pc = "release"
    /\ LET signal == op.moved /\ ix.tip \notin Chain[op.start]
       IN  /\ op' = Idle
           /\ IF op.by = "sched" THEN JobEnd(signal)
              ELSE tipScheduled' = (tipScheduled \/ signal) /\ UNCHANGED sched
    /\ regressed' = (regressed \/ Worse(ix.tip, op.start, ix))
    /\ UNCHANGED <<ix, due, lock, clsig, clQueued, bounds>>

\* ActivateBestChain signals the new tip, lets go of cs_main, and returns or
\* takes another turn.  UpdatedBlockTip schedules a job if there is none.
ReleaseMain ==
    /\ op.pc = "release"
    /\ LET signal == op.moved /\ ix.tip \notin Chain[op.start]
           return == ~op.moved \/ op.newTip = op.most
       IN  /\ op' = IF return THEN Idle
                    ELSE [op EXCEPT !.pc = "outer", !.start = None, !.moved = FALSE]
           /\ IF return /\ op.by = "sched" THEN JobEnd(signal)
              ELSE tipScheduled' = (tipScheduled \/ signal) /\ UNCHANGED sched
    /\ regressed' = (regressed \/ Worse(ix.tip, op.start, ix))
    /\ UNCHANGED <<ix, due, lock, clsig, clQueued, bounds>>

-----------------------------------------------------------------------------
\* InvalidateBlock takes m_cs_chainstate and collects the candidates.
Invalidate(b) ==
    /\ Command("invalidate") /\ op.pc = "idle" /\ b \in ix.known \ {Genesis}
    /\ op' = [Idle EXCEPT !.pc = "invalidate", !.block = b, !.mark = b,
                          !.waiting = {c \in Connectable(ix) \ Chain[ix.tip] :
                                         ~Worse(c, Parent[b], ix)}]
    /\ UNCHANGED <<ix, due, lockVars, tipScheduled, regressed>>

\* Its loop: disconnect the tip and mark it.
InvalidateTip ==
    /\ op.pc = "invalidate" /\ op.block \in Chain[ix.tip]
    /\ LET tip == ix.tip
           prev == Parent[tip]
           better == {c \in op.waiting : ~Worse(c, prev, ix)}
           swap == prev = op.mark /\ op.mark \in ix.failedValid
       IN  /\ ix' = [ix EXCEPT !.tip = prev,
                        !.failedValid = (@ \cup {tip}) \ (IF swap THEN {op.mark} ELSE {}),
                        !.failedChild = @ \cup (IF swap THEN {op.mark} ELSE {}),
                        !.candidates = (@ \ {tip}) \cup {prev} \cup better]
           /\ op' = [op EXCEPT !.mark = tip, !.waiting = @ \ better]
    /\ UNCHANGED <<due, lockVars, tipScheduled, regressed, bounds>>

\* Fault: the RPC does not call ActivateBestChain.
InvalidateEndOnly ==
    /\ op.pc = "invalidate" /\ op.block \notin Chain[ix.tip]
    /\ ix' = AddCandidates(InvalidBlockFound(op.mark, ix))
    /\ op' = Idle /\ tipScheduled' = TRUE /\ regressed' = FALSE
    /\ UNCHANGED <<due, lockVars, bounds>>

\* Its end.  The RPC then calls ActivateBestChain.
InvalidateEnd ==
    /\ op.pc = "invalidate" /\ op.block \notin Chain[ix.tip]
    /\ ix' = AddCandidates(InvalidBlockFound(op.mark, ix))
    /\ op' = Idle /\ due' = TRUE /\ tipScheduled' = TRUE /\ regressed' = FALSE
    /\ UNCHANGED <<lockVars, bounds>>

-----------------------------------------------------------------------------
\* ProcessNewChainLock up to the look at the index, and after it.
SeeChainLock(b) ==
    /\ clsig = <<>> /\ MainFree
    /\ lock.best # None => Height(b) > Height(lock.best)
    /\ clsig' = <<b, b \in ix.known>>
    /\ UNCHANGED <<ix, op, due, lock, sched, clQueued, tipScheduled, regressed, bounds>>

StoreChainLock ==
    /\ clsig # <<>>
    /\ clsig' = <<>>
    /\ IF clsig[2]
       THEN /\ lock' = [best |-> clsig[1], index |-> clsig[1], enforced |-> FALSE]
            /\ clQueued' = TRUE
       ELSE lock' = [lock EXCEPT !.best = clsig[1]] /\ UNCHANGED clQueued
    /\ UNCHANGED <<ix, op, due, sched, tipScheduled, regressed, bounds>>

\* The scheduler begins EnforceBestChainLock.
BeginEnforce(job) ==
    /\ sched = NoJob
    /\ \/ job = "clsig" /\ clQueued /\ clQueued' = FALSE
       \/ job = "tip" /\ tipScheduled /\ UNCHANGED clQueued
    /\ IF lock.index = None
       THEN UNCHANGED sched /\ tipScheduled' = (tipScheduled /\ job # "tip")
       ELSE /\ sched' = [job |-> job, pc |-> "enforce", block |-> lock.index]
            /\ UNCHANGED tipScheduled
    /\ UNCHANGED <<ix, op, due, lock, clsig, regressed, bounds>>

\* EnforceBlock, with both locks.  MarkConflictingBlock signals the tip.
Enforce ==
    /\ sched.pc = "enforce" /\ op.pc = "idle"
    /\ ix' = EnforceBlock(sched.block, ix)
    /\ sched' = [sched EXCEPT !.pc = "check"]
    /\ lock' = [lock EXCEPT !.enforced = @ \/ lock.index = sched.block]
    /\ tipScheduled' = (tipScheduled \/ ToMarkConflicting(sched.block, ix) # {})
    /\ regressed' = (regressed /\ ToMarkConflicting(sched.block, ix) = {})
    /\ UNCHANGED <<op, due, clsig, clQueued, bounds>>

\* The rest of EnforceBestChainLock, when the lock's block is not active.
EnforceCheck ==
    /\ sched.pc = "check" /\ MainFree
    /\ IF sched.block \in Chain[ix.tip]
       THEN JobEnd(FALSE)
       ELSE sched' = [sched EXCEPT !.pc = "activate"] /\ UNCHANGED tipScheduled
    /\ UNCHANGED <<ix, op, due, lock, clsig, clQueued, regressed, bounds>>

-----------------------------------------------------------------------------
\* The node stops and starts.  MarkConflictingBlock does not make its entries
\* dirty: which of the marks are on disk depends on what else has been.
Restart ==
    /\ restarts < MaxRestarts /\ op.pc = "idle" /\ sched = NoJob /\ clsig = <<>>
    /\ \E kept \in SUBSET ix.conflicting :
          ix' = Startup([ix EXCEPT !.conflicting = kept])
    /\ lock' = [best |-> None, index |-> None, enforced |-> FALSE]
    /\ due' = TRUE /\ clQueued' = FALSE /\ tipScheduled' = FALSE
    /\ regressed' = FALSE /\ restarts' = restarts + 1
    /\ UNCHANGED <<op, clsig, sched, commands>>

ActivateStep ==
    Activate \/ TakeMain \/ FindUnusable \/ FindMostWork \/ DisconnectTip
        \/ ConnectTip \/ ReleaseMain
InvalidateStep == InvalidateTip \/ InvalidateEnd
LockStep ==
    \/ StoreChainLock
    \/ \E job \in {"clsig", "tip"} : BeginEnforce(job)
    \/ Enforce \/ EnforceCheck

Arrival ==
    \/ \E b \in Blocks \ {Genesis} :
          ProcessHeader(b) \/ \E requested \in BOOLEAN : ProcessNewBlock(b, requested)
    \/ \E b \in Locks : SeeChainLock(b)
Operator ==
    \/ \E b \in Blocks : Precious(b) \/ Reconsider(b) \/ Invalidate(b)
    \/ Restart

Next == ActivateStep \/ InvalidateStep \/ LockStep \/ Arrival \/ Operator

Spec == Init /\ [][Next]_vars

\* The threads go on: a thread in the middle of a call, and the scheduler.
Fairness ==
    WF_vars(ActivateStep) /\ WF_vars(InvalidateStep) /\ WF_vars(LockStep)
FairSpec == Spec /\ Fairness
-----------------------------------------------------------------------------
\* The blocks that are there with all their ancestors and have neither a failed
\* nor a conflicting one among them.
Usable ==
    {b \in ix.linked : Chain[b] \cap (ix.failedValid \cup ix.conflicting) = {}}

\* Nobody has anything left to do about the chain.
Quiet ==
    /\ op = Idle /\ ~due /\ sched = NoJob
    /\ ~clQueued /\ ~tipScheduled /\ clsig = <<>>

\* What CheckBlockIndex asserts of setBlockIndexCandidates, whenever cs_main is
\* free and InvalidateBlock is not at work: a usable block that does not sort
\* before the tip is a candidate; one that does, or whose data or ancestors'
\* data have not arrived, is none.  Arrivals, failures, resets, conflicts,
\* preciousblock and restarts each maintain the set in their own way.
CandidatesExact ==
    MainFree /\ op.pc # "invalidate" /\ ~regressed =>
        \A b \in ix.known :
            IF b \in ix.linked /\ ~Worse(b, ix.tip, ix)
            THEN b \in Usable => b \in ix.candidates
            ELSE b \notin ix.candidates

\* What AcceptBlockHeader asserts of m_failed_blocks: the blocks on the list
\* are failed themselves, whoever has reset, swapped or moved flags since.
FailedListed == ix.failedBlocks \subseteq ix.failedValid

\* What CheckBlockIndex asserts of the failure flags: a block is marked failed
\* only if it or an ancestor is BLOCK_FAILED_VALID, so reconsidering a block
\* leaves no flag behind without its cause.
FailedHasCause == \A b \in Failed(ix) : Chain[b] \cap ix.failedValid # {}

\* Whenever cs_main is free, no block of the active chain is marked failed or
\* conflicting: the calls that mark one have disconnected it, and
\* ActivateBestChain has not connected one by a pindexMostWork it had kept.
ActiveChainUsable ==
    MainFree => Chain[ix.tip] \cap (Failed(ix) \cup ix.conflicting) = {}

\* When nobody has anything left to do, no usable block is better than the tip:
\* the calls of ActivateBestChain that follow the changes of the index suffice.
TipIsBest == Quiet /\ ~regressed => \A b \in Usable : ~Worse(ix.tip, b, ix)

\* "We absolutely may not unlock cs_main until we've made forward progress":
\* ActivateBestChain never lets go of cs_main with less work on the active
\* chain than it found, unless a chain lock has ruled that chain out, or had
\* before and left candidates missing.
ForwardProgress ==
    op.pc = "release" /\ ~regressed =>
        \/ ChainWork[ix.tip] >= ChainWork[op.start]
        \/ \E b \in Chain[op.start] : HasConflictingChainLock(b)

\* When nobody has anything left to do, the active chain holds the locked block
\* if EnforceBlock has run for it, its chain is there and not failed, and the
\* candidates have been collected since the tip last came to sort before what it
\* was: no chain that conflicts with it is left to compete, whichever has more
\* work.
LockHeld ==
    (Quiet /\ ~regressed /\ lock.enforced /\ lock.index \in Connectable(ix)
           /\ Chain[lock.index] \cap ix.failedValid = {})
        => lock.index \in Chain[ix.tip]

\* The active chain ends up, and stays, the best usable one, whatever is sent
\* again and again: ActivateBestChain does not go round in circles over
\* candidates that fail, and no call that was due is forgotten.
EventuallyBest == <>[](\A b \in Usable : ~Worse(ix.tip, b, ix))
=============================================================================
