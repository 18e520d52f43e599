# A verification of Wagerr's betting and of the chain under it

Wagerr is a Dash descendant whose own contribution is betting as part of the
consensus: oracles publish events and results in `OP_RETURN` outputs, players
bet in others, and every block has to pay, in its coinstake, exactly what the
results of the block before make due. Every node derives the same databases from
the chain and must be able to take back any block again. A mistake here forks
the chain, pays a bet twice, or stops the node.

The TLA+ modules in this directory model that part of the program and what it
stands on: the storage under the betting databases, the arithmetic of odds,
every betting output from its check to its undo, the settlement of bets, the
connecting and disconnecting of blocks, how all databases reach the disk and
recover from a crash, how threads choose the best chain while blocks, operators
and chain locks interfere, and the queue that checks a block's scripts. Paths
below are relative to `src/src/`.

## 1. The system and its parts

| Component | State | Operations | Hard behaviour | Correct when |
|---|---|---|---|---|
| Flushable storage (`flushablestorage/flushablestorage.h`) | a map of changes over a parent store | read, write, erase, flush, iterate | flush goes key by key and is no batch: crash or failed write half way | a stack of maps is one transactional map |
| Betting databases (`betting/bet_db.*`) | fourteen databases, `LastHeight`, undo records | typed write/update/erase, save/get/erase/prune undo | records left behind or pruned too early; order of flushing | undo records are exactly those of the active chain |
| Odds arithmetic (`betting/bet_common.*`) | none | odds of a leg, fee, parlay product | integer division, unsigned and 32-bit products, quarter handicaps | halves add up, sides are opposite |
| Peerless betting (`betting/bet.cpp`, `bet_v3.*`) | mappings, events, results, bets | 10 kinds of outputs: check, process, undo; settle, undo settlement | locked odds read from the block before, counters from this one; parlays over several results | each bet paid once, at its locked odds; undo is an inverse |
| Field betting (`betting/bet.cpp`, `bet_v4.*`) | field events with contenders, results, bets | 8 kinds of outputs; settle, undo settlement | odds depend on all contenders; bets and updates interleave | odds belong to the present inputs; counters match bets |
| Chain games, quick games (`bet_v3.*`, `quickgames/`) | lotto events, results, entries; dice bets | 4 kinds of outputs; draw, throw | randomness from the block; the block of a bet and of its payment differ | the pot covers what is paid; dice are fair for the numbers of the table |
| Connecting and disconnecting (`validation.cpp`) | active chain, block cache, `LastHeight` | ConnectTip, ConnectBlock, DisconnectTip, DisconnectBlock | reorganisations of any shape, rejected blocks, prune schedule | databases agree with the chain |
| Flush, crash recovery, startup (`validation.cpp`, `txdb.cpp`, `evo/evodb.cpp`, `init.cpp`) | block index, coins with their marker, evo data and betting databases, in memory and on disk | FlushStateToDisk, BatchWrite, CommitRootTransaction, CBettingsView::Flush, ReplayBlocks, LoadChainTip | a crash between any two writes, also during the recovery from another | coins, evo data and betting data of a running node are those of its tip |
| Block index, best chain (`validation.cpp`, `chain.h`) | entries with flags, `setBlockIndexCandidates`, `m_blocks_unlinked`, `m_failed_blocks`, tip | AcceptBlockHeader, AcceptBlock, ActivateBestChain, InvalidateBlock, PreciousBlock, ResetBlockFailureFlags, LoadBlockIndex | `cs_main` is let go in the middle; reorganisations fail half way | the candidates are exact, the tip ends up the best usable block |
| Chain locks (`llmq/chainlocks.cpp`) | best lock, its index entry, scheduled jobs | ProcessNewChainLock, AcceptedBlockHeader, UpdatedBlockTip, EnforceBestChainLock, EnforceBlock | lock before header, header before lock, lock during a reorganisation | the locked block is active and nothing that conflicts with it |
| Script check queue (`checkqueue.h`) | queue, counters, threads | Add, Wait, Loop, StopWorkerThreads | condition variables, batches in flight, early returns | the answer is that of all checks of this block; everybody wakes |

How they interact: `ActivateBestChain` picks the best candidate and calls
`DisconnectTip` and `ConnectTip` under `cs_main`. `ConnectTip` layers a
`bettingsViewCache` over the process-wide `bettingsView`, `ConnectBlock` hands the
scripts to the check queue, asks `GetBettingPayouts` what the block must pay (which
marks the bets as settled in the cache), compares it with the coinstake
(`IsBlockPayoutsValid`), lets `ProcessBettingTx` handle the outputs one by one, prunes,
sets `LastHeight`, and `ConnectTip` flushes the cache. `DisconnectBlock` calls `BettingUndo`:
settlement first, then `UndoBettingTx` over the outputs backwards. A transaction is checked
by `CheckBettingTx` against `bettingsView`, that is, against the block before.
`FlushStateToDisk` writes index, coins, evo data and `bettingsView` one after the other.
Headers, blocks, RPC calls and chain locks change the block index whenever
`cs_main` is free, and leave it to the next `ActivateBestChain` to follow.

The rest of the repository (Bitcoin, Dash and PIVX code: wallet, network, masternodes,
quorum signing, governance, zerocoin, GUI, RPC) is listed in `PROJECT.json` with the reason why it
is left out.

## 2. Modules

    TransactionalStore   what one database promises
          ^ refined by
    FlushableStorage     change maps, key-by-key flush   <- StorageAndOdds_proofs

    MergingIterator      an iterator over a change map and the store below

    BettingOdds  <- OddsCheck (reference properties)
      ^
    BettingView          state, undo records, one output = one step
      ^         ^
    BetSettlement  \        Dice  <- DiceCheck (reference properties)
      ^      ^      \        ^
    Peerless Field   ChainGames
     Betting  Betting   |
        \      |       /
         BettingChain      connect / disconnect, properties  <- BettingChain_proofs
                                                              <- BettingReorg_proofs
              ^
          MCBetting        instances for TLC

    ChainPersistence     what is on disk, crashes, replay        <- MCPersistence
          ^ ChainPersistence_proofs
    BlockIndex <- ChainActivation    threads and the best chain  <- MCActivation
      ^ BlockIndex_proofs  <- ChainActivation_proofs
    CheckQueue           script checks on several threads        <- MCCheckQueue
          ^ CheckQueue_proofs
    OddsCheck, DiceCheck, MergingIterator                        <- MCAlgorithms
      ^ StorageAndOdds_proofs (FlushableStorage, MergingIterator, OddsCheck)
    TreeRecursion        functions defined along a tree, least and greatest elements;
                         used by the proofs of persistence, index, iterator and settlement

**FlushableStorage** models one `CBettingDB`. `disk`, `view`, `cache` are the LevelDB
and the `changed` maps of `bettingsView` and `bettingsViewCache`; `None` in a map is
the tombstone (an empty `boost::optional`), `NoEntry` a key that the map lacks. `Write`,
`Update`, `Erase`, `Read` are the four calls of `CBettingDB` with its existence
checks. `Flush` is a sequence of steps (`StartFlush…`, `FlushKey` in the order of the
`std::map`, `EndFlush`), which `FlushFails` stops at a failing LevelDB write and `Crash` cuts
anywhere. **TransactionalStore** is the abstract specification: begin, edit, commit or roll
back; keys reach the disk one by one.

**BettingOdds** holds `bet_common.cpp` as operators, with the 32-bit product in
`HalfOdds`. Odds have four decimals, 10000 is even money back.

**BettingView** holds the state that all handlers share. A database is a function on
its keys. `view` is `bettingsView`, `cache` the block's cache, `chain` the active chain,
`blk` and `pos` the block in progress and the output to handle next. `Advance` ends
the handling of an output. `Abort` is what a failed `assert`, a false from an undo
and `AbortNode` come to: the node stops (`mode = "failed"`). Undo records hold
the whole event as it was before the output, as in `SaveBettingUndo`.

**PeerlessBetting**, **FieldBetting**, **ChainGames** have, for every output type, its branch of
`CheckBettingTx` (`Check…`), of `ProcessBettingTx` (`Process…`, reading `view` where the code
reads `bettingsView` and `cache` where it reads the cache) and of `UndoBettingTx`
(`Undo…`), and the payout functions. The loop over results and bets that `GetPLBetPayoutsV3`
and `GetFieldBetPayoutsV4` have in common is in **BetSettlement**. `CalcOdds` of field events
uses floating point; which markets it opens and when it runs is modelled, the number
it computes is the parameter `MarketOdds`. The proof-of-stake hash that draws lotto
winners and throws dice is a parameter of the block.

**BettingChain** is `ConnectTip`, `ConnectBlock`, `DisconnectTip`, `DisconnectBlock`,
`BettingUndo`. A block is built from any transactions in `Txs` that pass the check and are not in the
chain; a transaction of a disconnected block may come back in another. Blocks may also be
rejected for reasons outside betting.

**MergingIterator** is `CFlushableStorageKVIterator`. `pIt` and `mIt` are its two iterators,
a round of its loops is a step. Keys are numbers in the order of the map, and the parent is an
iterator that shows a set in order, which is what the property shows of this level in turn.

**ChainPersistence** has a record `mem` of what the running node holds and a record `disk` of what
survives. The coins are a set, and blocks say what they spend and create, so that rolling forward
over coins that already hold part of a block is modelled by what it does. The evo database is the
log of the blocks it has processed, and a betting database the set of blocks whose changes it
holds: that is the abstraction of what `BettingChain` models in detail. A full flush is a sequence of
steps: the index in one batch, coins in batches of any content (`WritePartialBatch`), the evo
database in one batch, and the betting databases in the order of `CBettingsView::Flush`, key by
key. `Crash` may come between any two. `why` is the check that has stopped the node.

**BlockIndex** has the functions that run under `cs_main` as operators from an index to an
index: an index is a record of sets, one for each flag, and the derived sets as the code
maintains them. **ChainActivation** has the threads. `op` is whoever holds `m_cs_chainstate`
(ActivateBestChain or InvalidateBlock) with its local variables; a step of it ends where the
code lets go of `cs_main`, or where a loop turns. Everything that takes only `cs_main` runs
between (`MainFree`). `due` stands for the calls of ActivateBestChain that ProcessNewBlock and
the RPCs owe. `sched` is the scheduler thread with EnforceBestChainLock. Which blocks are bad,
and when they are found to be (ContextualCheckBlock or ConnectBlock), are constants.

**CheckQueue** has a step for each critical section of `Loop`, `Add` and
`StopWorkerThreads`, and for what threads do outside the lock. Waiting threads are woken by
the notifications of the code or for no reason (`Spurious`, which the standard permits).

Definitions introduced by a comment "Fault:" are wrong variants of the definition next to
them. They are not part of any specification; replacing the right one by them shows
that a property can fail (`mutants` in `PROJECT.json`).

## 3. What TLC checks

`tlc -config <cfg> <module>`; every passing run explores its whole state space.

| Run | States | What it shows |
|---|---|---|
| storage (`FlushableStorage.cfg`) | 88,596 | The stack of change maps implements `TransactionalStore` (`Implements`), also while a flush is cut; `FlushInv` explains why. |
| algorithms (`Algorithms.cfg`) | 49,462 | All outcomes, handicaps of both signs, results: a quarter line is two half bets, sides are opposite. Dice bets of every type over all 36 throws, with the numbers 0 to 24 and 100: of the bets that can be won, exactly those with a number on the table (1 to 13) are fair before the fee, and their odds are 0, 10000 or more (`DiceIsFair`). The merging iterator over every map and store of four keys, forwards from any key and backwards (`ScanIsOrdered`). |
| peerless (`Peerless.cfg`) | 111,281 | Two pools of transactions. Bet, parlay, odds change and two results in any blocks and order; mappings, new events, all updates and transactions with several outputs across the first block of protocol version 4. With reorganisations and pruning: `PaidOnce`, `MarksMatchPayments`, `OddsFromBlockBefore`, `CountersMatchBets`, `DueBetsSettled`, `UndosOfTheChain`, `NextBlockPossible`, `NeverFails`, `Restored`, `HeightsAgree`, `TypeOK`. |
| field_games (`FieldAndGames.cfg`) | 209,306 | Three pools. All updates of field events, bets and parlays (`FieldOddsFresh`, `FieldCountersMatchBets`, `FieldRestored`); results that settle field bets and parlays (`FieldPaidAreMarked`, `PaidOnce`); a lotto from its creation to the draw, two entrants, a dice bet, two possible hashes per block (`LottoWithinPot`, `PaidOnce`). |
| persistence (`Persistence.cfg`) | 891,841 | Four blocks on two branches, flushes at any time, two crashes: `CoinsFollowTip`, `EvoFollowsTip`, `CoinsWithinIndex`, and `CrashesHarmless` for crashes outside the dangerous part of a flush. |
| activation (`Activation.cfg`) | 1,263,660 | Four blocks, one of them invalid, in any order of headers and data, with an operator or a chain lock and restarts: `CandidatesExact`, `FailedListed`, `FailedHasCause` (what `CheckBlockIndex` and `AcceptBlockHeader` assert), `ActiveChainUsable`, `TipIsBest`, `ForwardProgress`, `LockHeld`. |
| activation_ends (`ActivationEnds.cfg`) | 51,923 | `EventuallyBest` under fairness, with blocks that fail both ways. |
| checkqueue (`CheckQueue.cfg`) | 71,792 | `AnswerIsExact`, `QueueFinished`, and under fairness `WaitReturns`, `StopReturns`. |

The central property of the betting runs is `Restored`: between blocks the databases hold what they held
when the present tip was first connected, whatever was connected and disconnected
in between. The `after` field of a block remembers that state and is read by properties
only. `payoutHeight` of an open bet is left out of the comparison, because `SetUncompleted`
leaves it and nothing reads it, and so are the undo records, which are pruned;
`UndosOfTheChain` and `NeverFails` speak of those.

### Bounds, and why they are enough

- `MaxHeight` 3 or 4 blocks above the base. A bet, its result and its payment need
  three blocks; a result that arrives after a reorganisation of the first two needs a fourth.
- `MaxBlockTxs` 2. Two transactions in a block give every order of a pair, which is
  what handlers that share an event or a result list can see.
- `MaxUndoDepth` 2 or 3, so that pruning happens within the few blocks there are.
- Pools of 3 to 6 transactions (`MCBetting`), each mined at most once per branch; the blocks of a
  behaviour come from one pool. A pool has a transaction for every kind of output it is about, and
  pools touch different databases, so that mixing them would add orders but no conflict.
- `Timespan` reaches below all bets of an instance, `MaintenanceHeight` is above it.
- Stakes, odds and handicaps have realistic sizes. `COIN` is 1 or 100 in place of 10^8: the
  products must stay within TLC's integers. `WORD`, 2^64 in the code, is 6.
- storage: two keys, two values. Keys interact only through the order of a flush,
  where two suffice to have one copied and one not.

`WithinUndoDepth` is an assumption on the environment, not a limit of the code: no fork
starts more than `MaxUndoDepth + 1` blocks below the highest tip seen. The code would try a deeper
reorganisation, lack the undo records and stop. The comment at
`chainparams.h:82` describes the parameter.

- persistence: a chain of three blocks, one that leaves it after the first, a coin that every block passes on, one betting
  database before and one after `undos`. Three blocks let a replay go over two; two crashes let the
  second hit the replay after the first.
- activation: a block of work two, and a branch with an end of work two and a bad end of work three. The first and
  the second give a tie, the third a reorganisation that fails half way. A
  behaviour has either an operator with two commands or restarts, or a chain lock with one of them
  afterwards (`Mixes`), since all of them together exceed what can be enumerated.
- checkqueue: two workers, two blocks of up to four checks in calls of one or three, batches of up to two: a
  batch can be all, part or none of the queue when another thread looks.

### Fairness

- `CheckQueue`: weak fairness of every thread's steps, of the notification that follows `Add`, of the
  return from joining, and of `Wait`. The first are what the operating system's scheduler gives
  a runnable thread. `Wait` is fair because ConnectBlock calls it, or the destructor of its control
  does. Taking new blocks, adding checks and stopping are not fair.
- `ChainActivation`: weak fairness of a thread inside ActivateBestChain or InvalidateBlock (and of the call that
  somebody owes), and of the scheduler thread. Both are runnable threads that wait
  for no message. Arrivals, commands and restarts are not fair: `EventuallyBest` says that the chain
  settles whatever has arrived, not that anything arrives.
- The betting and persistence specifications state no fairness: blocks arrive if and when the network
  sends them. What stands in for progress are `NeverFails`, `NextBlockPossible` and `DueBetsSettled`.

Deadlock is checked in every run but persistence and betting_lost: a state without a successor would be a node that can
neither connect nor disconnect. In the persistence model a check may stop the node for good,
which is what the code does then.

### Preconditions of the properties

The instances of the passing runs leave out inputs for which the code is known not to keep
a property. These are the preconditions under which the properties above hold:

- no result of a field event and no paid dice bet is disconnected where `Restored` is checked. For the
  former see finding 1 below. For the latter, `BettingUndo` (`bet.cpp:2371`) passes the height of the
  disconnected block to `UndoQGBetPayouts`, while that block settled the bets of the block before, which
  keep their mark. The same holds for a drawn lotto, since `BettingUndo` (`bet.cpp:2362`)
  has no step that opens lotto entries again;
- peerless events, field events and lottos have different numbers (finding 2);
- quarter-line bets have odds up to 85.9: half of the odds is computed in 32 bits (`bet_common.cpp:266`) and
  wraps above, although odds up to 99 are allowed (`bet_common.h:30`);
- the dice bets of `ChainGames` have numbers on the table. `CheckBettingTx` (`bet.cpp:401`) looks at the type and amount of a
  quick game, not at the number, which is any `uint32_t` (`dice.h:27`); `Dice` models what `DiceHandler` makes of
  it. For "not equal" with 0 or more than 13 the count is above 36 and the odds are below even, which `GetQuickGamesBetPayouts`
  (`bet_v3.cpp:329`) does not expect: it subtracts 10000 from them unsigned. For "total under" with more
  than 13 the count falls (`dice.cpp:10` wraps): odds are above even although every throw wins, at 21 the
  division has no result, and above it the odds are 0. `DiceIsFair` therefore states for which bets the odds are those of
  the game. Quick games are retired (`chainparams.cpp:229`), so this concerns old blocks;
- a lotto is drawn by one result per block (the check at `bet.cpp:667` sees only the block before);
- a zeroing names an event once: with two records of one event the later one, already
  zeroed, would be restored (`bet.cpp:1724`);
- outputs after the first of a transaction are such that they would pass the check on their own
  (`bet.cpp:198` looks at the first only);
- bets are younger than the settlement window, whose edge is a block apart between settling
  and its undo (`bet_v3.cpp:537`);
- a refunded quick game does not expect a reward of zero value (`bet_v3.cpp:372`), which `ExtractPayouts` would
  not count;
- a store and the change map over it sort their keys alike. LevelDB sorts by length first, which makes a difference in
  the undo database only: `LastHeight` comes before all hashes there, so that the scan of
  `PruneOlderUndos` (`bet_db.cpp:798`) skips the hashes below it and never prunes their records;
- chain locks are enforced (spork 19), lie on one branch and are processed one at a time; nothing is pruned;
- `LockHeld` speaks of locks that were matched with their block. `ProcessNewChainLock` looks for the block
  (`chainlocks.cpp:128`) before it stores the lock; a header that arrives between the two is matched by nobody, and the lock is not enforced before
  the next one comes. The comment at `chainlocks.cpp:158` expects it to be;
- `CandidatesExact`, `TipIsBest`, `ForwardProgress` and `LockHeld` do not speak of the time in which the tip sorts before what it was
  while blocks between the two are no candidates (`regressed`), up to the next collection of candidates. The proofs showed
  that there are two ways into it:
  - a chain lock cuts a reorganisation on both branches: the new branch fails, and a lock that came in the middle of the
    turn rules the old one out. `LockHeld` is false then: with the candidates gone, `preciousblock` may
    make a block below the lock the tip, and `EnforceBlock` (`validation.cpp:3658`) collects candidates only if
    it finds a sibling to mark, so that the locked block stays no candidate and is never connected. TLC confirms it with five
    blocks;
  - `preciousblock` is called for two blocks with more work than the tip and, after the reorganisation, for the new tip:
    the counter starts at -1 again (`validation.cpp:3469`), which is higher than the number the tip had, and another block of
    equal work, erased from the candidates when the chain was extended, now sorts better than the tip. That is what
    `CheckBlockIndex` asserts not to happen. TLC confirms it with three blocks and three calls.

## 4. Where code and comments disagree

1. `field_payouts_kept`: `UndoFieldBetPayouts` (`bet_v4.cpp:231`) iterates over the peerless
   bets. A field bet settled in a disconnected block stays completed and is not paid again on the
   other branch.
2. `shared_ids`: one list `vResultIDs` (`bet.cpp:1511`) carries the numbers of three kinds of events.
   Disconnecting the block that drew a lotto opens the settled bets on the peerless event of that number,
   and they are paid again.
3. `betting_lost`: a crash between two batches of coins makes the next start replay the blocks up to the new tip.
   `ReplayBlocks` (`validation.cpp:5157`) gives the betting databases the height of that tip, but none of
   the changes of those blocks. The check of the height in `ConnectBlock`, which should ask for a
   reindex, passes.
4. `cache_miss`: a payout mismatch during the initial download clears the candidates
   (`validation.cpp:3279`). In a reorganisation the way back to the old branch is lost, and
   `ActivateBestChain` releases `cs_main` on less work than it found, against its own comment.

Each of these runs checks one property and ends with a counterexample of TLC.

## 5. What TLAPS proves

| Module | Obligations | Theorems |
|---|---|---|
| `StorageAndOdds_proofs` | 1398 | `TypeCorrect`, `FlushCorrect`, `Refinement`, `ScanCorrect`, `QuarterLinesSplit`, `SidesBalance` |
| `BettingChain_proofs` | 6140 | `ChainTypeCorrect`, `HeightsCorrect`, `UndosCorrect`, `NeverFailsCorrect`, `FieldOddsFreshCorrect` |
| `BettingReorg_proofs` | 6713 | `RestoredCorrect`, `OddsFromBlockBeforeCorrect`, `DueBetsSettledCorrect`, `NextBlockPossibleCorrect`, `MarksMatchPaymentsCorrect`, `PaidOnceCorrect`, `CountersMatchBetsCorrect`, `FieldCountersMatchBetsCorrect`, `FieldPaidAreMarkedCorrect` |
| `ChainPersistence_proofs` | 1261 | `NamedBlocksKnown`, `CoinsRecovered`, `EvoRecovered`, `HarmlessCrashes` |
| `BlockIndex_proofs`, `ChainActivation_proofs` | 2090, 2204 | `ListedAreFailed`, `FailuresHaveCauses`, `ChainStaysUsable`, `CandidatesCorrect`, `BestTipCorrect`, `ProgressCorrect`, `LocksCorrect` |
| `CheckQueue_proofs` | 1168 | `FinishedQueue`, `ExactAnswer`, `NoLostWakeup` |
| `TreeRecursion` | 194 | the lemmas that several of them share |

`tlapm <module>.tla` checks each from nothing. Every assumption named below is an `ASSUME` of a module
that a passing run extends, so TLC evaluates it on the instance.

**Storage**, for every set of keys (natural numbers, for the order of the flush) and
values; assumptions `KeysAssumption`, `NoneAssumption`, `NoEntryAssumption`.

- `TypeCorrect`: `Spec => []TypeOK`.
- `FlushCorrect`: `Spec => []FlushInv`. The inductive invariant is `TypeOK /\ FlushInv`:
  of the map that is being flushed, every key no longer to be copied has its value below.
  Without it nothing would say that clearing the map at the end changes no content.
- `Refinement`: `Spec => Implements`. The mapping takes `disk` to `durable`, what the block sees through all
  levels to `working`, and what `bettingsView` shows to `committed`, except that a cache whose flush has begun counts
  as committed: the copy is in memory, and nobody reads in between. Each step
  maps to one abstract step or to none; five lemmas on `Overlay` carry the argument (overlaying an
  empty map, putting one entry, copying one entry down, dropping a map that is copied).

**Chain**, for any transactions, databases, odds, heights and bounds.

- `ChainTypeCorrect`: `Spec => []TypeOK`. The databases keep their shape, and the position of the
  handler never leaves the outputs of the block, in either direction.
- `HeightsCorrect`: `Spec => []HeightsAgree`. `LastHeight` equals the height of the tip in
  every reachable state, so the check at `validation.cpp:2090` that aborts the node never fires.

  The inductive invariant `IInv` is their conjunction with "the block at the base is not being
  disconnected", without which `Front(chain)` could be empty. The forty-odd handlers are
  reduced to one case: `PeerlessSteps`, `FieldSteps`, `GamesSteps` and `SkipSteps` show that each of them is an
  `OutputStep` (it stops the node, or replaces the cache by a view and moves on by one
  position), and `OutputKeeps` shows that an `OutputStep` keeps `IInv`. The remaining
  actions have a lemma each. Assumptions: `HeightsAssumption` (heights are numbers, `MaxUndoDepth > 1`
  since the code divides by it less one), `TxsAssumption` (a transaction has outputs),
  `BaseViewAssumption` (the databases at the base block are at its height). TLC evaluates all three
  in every run of `MCBetting`.
- `UndosCorrect`: `Ordinary => (Spec => []UndosOfTheChain)`. Every undo record belongs to a transaction
  of the active chain. `Ordinary` says of `Txs` that a transaction has one betting output, that an id names one
  transaction, that a single bet has one leg and a zeroing lists an event, and that the base has no records. (With
  two outputs `CheckBettingTx` looks at the first only, and the second may be about an event that is not there; then
  a handler saves where the other direction does not erase. The pools `settle` and `games` of `MCBetting`
  satisfy `Ordinary`, so the theorem is about states the runs reach.)

  The property is not inductive: whether an undo erases the record depends on whether the event is in the
  databases at that moment. The invariant `UInv` is about the *handled* transactions, those of the chain and of
  the block at hand as far as the position has come. Its parts: `Once` (mined at most once), `RecordsOwned` (a record is that of
  a handled transaction of a kind that saves one), `RecordsKept` (a handled one within `MaxUndoDepth` of the highest tip
  has its record, which is what pruning may not touch), `NamedKnown` (the events of handled
  transactions exist), `CreatedBefore` (and were created in an earlier block, so undoing a creation
  never pulls an event away from a bet still in the databases), `BlockChecked` (the transactions of the block
  passed the check against `bettingsView`, whose events are in the cache too). The handlers are reduced to two cases,
  `ConnectsOutput` and `DisconnectsOutput`.
- `NeverFailsCorrect`: `Ordinary /\ Undoable => (Spec => []NeverFails)`. No assertion fails, no undo returns
  false, whatever is connected, disconnected and pruned. `Undoable` names two limits of the code:
  `UndoFieldBetPayouts` iterates over peerless bets and aborts on the first it cannot decode (`FieldUndoDecodes`), so there are no field
  results; and no two transactions create or draw the same lotto. Two in one block pass
  `CheckBettingTx`, since both are checked before either is processed, the second one changes nothing, and undoing the
  first to go erases what the other then fails to erase (`bet.cpp:2213`, `2228`): TLC finds that `NeverFails` is violated as soon as
  such a pair is among `Txs`. The invariant `GInv` adds that the entries of handled outputs of games are in
  their databases.

**Bets and reorganisations** (`BettingReorg_proofs`), for any chains, any interleaving of connecting, disconnecting
and pruning, any number of transactions, blocks, events and bets. The hypotheses are about the transactions and the databases
at the base block:

- `Ordinary`: as above.
- `Lists`: legs are lists; a zeroing names an event once (`bet.cpp:1724`, see the preconditions in section 3).
- `Reversible`: the four things that the code does not take back do not happen. There are no lotto, dice and field results
  (`NoGames`; findings 1 and 2 and the first precondition of section 3). The chain is not longer than the
  search window: `GetPLBetPayoutsV3` of the block at height *h* looks for bets from *h* - 1 - `Timespan` on,
  `UndoPLBetPayouts` from *h* - `Timespan`, and a bet right at the edge would stay settled. And the base has no
  bets and no payouts above its height.
- `Uncounted`, `FieldUncounted`: the events at the base have no bets counted. `FieldLegsComplete`: a leg of a field bet has its
  three fields and no other.
- `OddsFromInputs`: what `CalcOdds` computes for a contender depends on the margin, the kind of market and the input odds and modifiers
  of the contenders with input odds, and is zero for one without. Every loop from `CalculateFairOdds` to `CalculateMarketOdds` skips the
  contenders with zero input odds; `MCMarketOdds` satisfies it.

The pool `settle` of `MCBetting` with the constants of `Peerless.cfg` satisfies all of them, and TLC
finds `BInv`, `PInv` and `NInv` to hold in its 95413 states. Field bets, parlays, updates and a zeroing, one output per
transaction, over `FieldView` satisfy them too, and there `FreshInv` and `FNInv` hold in 106347 states.

- `RestoredCorrect`: `Spec => []Restored`. That the tip's databases are back after a reorganisation is not inductive: it
  says nothing of the blocks below, nor of the middle of a block. `RInv` gives every block of the chain a *history*: stages
  `s[0]`, ..., `s[n]`, one per transaction, where each transaction has left its trace on the stage before
  (`Trace`: it has made at most the entry under its own key, its record holds each event that it changed as it was, and
  nothing else differs). Connecting an output adds a stage (`ConnectingBuilds`); disconnecting one goes back to the stage before
  (`DisconnectingUnbuilds`), because its record and its keys are those of the trace, and `UInv` has the record
  still there. A handler has one lemma for each direction. Erasing and restoring are interleaved with those of other
  transactions of the block, and the keys of one block are different (`NewKeys`).

  The bets are not in the history, since `BeginConnect` settles and `BeginDisconnect` opens. `BInv` says what a block at height *h* makes
  of the bets of the block before: it places the bets of its transactions (`Placed`), settles exactly those that a result of
  the block before completes (`SettledHere`), and leaves the others; and it pays each settled bet what it records, once (`PaysFor`). `Grown` is
  that for a block or a part of one. One thing does *not* come back: `SetUncompleted` leaves `payoutHeight`
  as it was (`bet_v3.cpp:583`), so that databases agree up to the leftover in open bets (`LikeBets`), which nothing reads.
- `OddsFromBlockBeforeCorrect`, `DueBetsSettledCorrect`, `NextBlockPossibleCorrect` follow from the same invariant
  `CInv == IInv /\ UInv /\ GInv /\ RInv /\ BInv` (with `mode # "failed"`). For the second: a bet whose results are all there was either settled by the
  block after the last of them (`SettlingDecides`) or was placed when one of them was already known, which
  `CheckBettingTx` does not allow.
- `MarksMatchPaymentsCorrect`, `PaidOnceCorrect` need the history of the payments as well (`PInv`): a bet of the chain that is
  completed was settled in one block `j` of the chain (`SettledIn(j)`) and has not changed in any later one.
- `CountersMatchBetsCorrect` (`NInv`): the counters match the bets after every block of the chain and, in a block that is being connected, after
  every transaction. In a disconnected block they match again at its end, by `RInv` and `BInv`. A parlay counts each of its legs once,
  since its events are different.
- `FieldOddsFreshCorrect`: `OddsFromInputs /\ FieldLists /\ FreshView(BaseView) => (Spec => []FieldOddsFresh)`, games, field results and transactions with several
  outputs included. The invariant `FreshInv` is that the events of both views *and of all undo records* are fresh, since `UndoEventChanges` puts
  an event back without calculating. A bet on a contender that an event does not have creates it
  (`contenders[id]`), which must not change the odds of the others: that is `OddsFromInputs`.
- `FieldCountersMatchBetsCorrect` (`FNInv`): the same as `CountersMatchBets` for contenders. An update rebuilds the contenders with their
  bets (`UpdatedBets`), a new event has none.

- `FieldPaidAreMarkedCorrect`: `Ordinary /\ Countable => (Spec => []FieldPaidAreMarked)`, with field results, lottos, quick games and
  reorganisations of any length, so without `Reversible`. (`Countable`: ids of transactions and proofs of stake are numbers, as hashes
  are, and the base has no bets.) Disconnecting does not open field bets (finding 1), and nothing in the databases says which block
  settled a bet. The invariant `FieldInv` gets by without that: the payouts of the chain *and* those of the block that is being connected are what the
  field bets record, in the cache and in `bettingsView`, to which a rejected block goes back. A completed bet is not
  settled again (`AgreesSettled`). A new bet is never one that the chain pays already (`AgreesMore`): a block pays field bets of earlier blocks only (`PaysPlaced`), those
  of handled transactions (`BetsOwned`), so that erasing bets from the tip down leaves no payment for a key that is filled again; and
  no two kinds of bets have a key in common (`PlacedOnce`), so that what the lotto and the dice pay is not mistaken for it. TLC finds `FieldInv` to hold in the 126904 states of an instance with
  field bets and parlays, their results, a lotto and dice, one output per transaction and up to three blocks on the base; it meets the hypotheses, and field bets are paid in it.

The lemmas on the handlers, `ConnectingBuilds` and `DisconnectingUnbuilds` and what they rest on, are in the second half of `BettingChain_proofs`, and so is `FieldOddsFreshCorrect`; `BettingReorg_proofs`
extends it with the steps that begin and end a block, the other invariants and the theorems.

How a fold goes through a sequence cannot be proved here, so what the settlement does is written without one: `Settlements` is the set of pairs of
a result and a bet that it settles, the first such result for each bet, `InOrder` lists a set by counting what comes
before, `At` takes the elements of a sequence at some positions. `InOrderLists` shows that this lists every element once.

**Persistence**, for any tree of blocks, any coins they spend and create, any order of the betting databases
and any number of crashes. Assumptions: `BlocksAssumption` (the blocks are a tree: every nonempty set of them has one that is
the genesis block or whose parent is outside), `OrderAssumption`, `CrashesAssumption`. The inductive invariant is
`PTypeOK /\ IndexInv /\ CoinsInv /\ EvoInv /\ HarmlessInv`.

- `NamedBlocksKnown` (`IndexInv`): whatever the coins name, best block or the pair of an interrupted flush, is in the
  index on disk, because the index is written first and never shrinks.
- `CoinsRecovered` (`CoinsInv`): while a flush from the old to the new tip is under way, the coins that no block
  between the two touches agree with both, and the touched ones may be anything, as batches are
  written in no order. A replay rolls back and forward over the touched coins and gives each of them its final
  value whatever it was. `Sound(b)` says that the blocks up to `b` were connected to coins that
  had what they spend and not what they create; every block named on disk is. This part holds for a replay that is itself cut, any number of times, since it does not say what
  the touched coins are.
- `EvoRecovered` (`EvoInv`): the evo log is always the branch of some block, and where that block is not the tip, the tip
  cannot move: the check of the best block stops the node first.
- `HarmlessCrashes` (`HarmlessInv`): the disk is whole (`DiskWhole`) except between the first batch of coins and the end of the
  flush. The hypothesis is in the property; `betting_lost` shows what happens without it.

`Branch` and `CoinsOf` are recursive along the tree. That they satisfy their equations is theorem
`TreeRecursion`: the functions on closed sets of blocks agree with each other, shown by taking a block at which two of them first
differ. It replaces an induction, for which the provers at hand have no rule.

**Index and activation**, for any tree of blocks, any bad blocks, locks and commands, any interleaving.
Assumptions: `TreeAssumption`, `FaultsAssumption`. The inductive invariant `AInv` is
`IndexSound(ix) /\ OpSound /\ LocksSound`; each of the last four theorems adds a part of its own to it.

- `FailedHasCause` alone is not inductive: clearing the flags of a branch could leave a failed block whose
  cause was above it. `FailedInherited` says that there are no gaps: a block that is only
  `BLOCK_FAILED_CHILD` has a failed parent. `ActiveChainUsable` needs that
  `pindexMostWork`, which `ActivateBestChain` keeps over the time in which `cs_main` is free, is still
  clear of failures and ahead of the tip when it is used (`OpSound`), which follows from what the other threads
  may do while `m_cs_chainstate` is held.
- `BlockIndex_proofs` has a lemma for every function that runs under `cs_main`; `ChainActivation_proofs` has one for every action.
- The next four have the hypothesis `CacheMissed = {}`: no payout mismatch clears the candidates
  (`validation.cpp:3279`). Finding 4 is what happens otherwise, and the run `activation`, which checks the same properties,
  has no such block either.
- `CandidatesCorrect` (`CInv`): every candidate has its data and that of its ancestors and does not sort before the tip, and the
  candidates are complete. *Complete* needs a reference: all usable blocks that do not sort before the tip when `cs_main` is free, but
  those that do not sort before `starting_tip` while `ActivateBestChain` holds it, since blocks between a tip that is
  being rolled back and the old one were erased before. `Complete` also counts the blocks above a failed one that
  have not been marked for it: `ResetBlockFailureFlags` may make them usable and adds only blocks that it takes a flag from.
- `BestTipCorrect` (`BInv`): as long as no call is due, `pindexMostWork` is the best usable block that does not sort before where the turn
  began, the loop ends with the tip at `pindexMostWork`, and a call that has returned leaves the tip best, unless the scheduler is
  between `EnforceBlock` and the call that follows it (`Settled`). Every action
  that could make another block better sets `due`, or lets the running call see it.
- `ProgressCorrect` (`FInv`, `BranchInv`): the chain of `starting_tip` has been connected once, so its blocks fail on the way back only
  for a chain lock. `BranchInv` says that locks lie on one branch and their heights only grow: a lock that rules a chain out keeps
  doing so when a higher one replaces it in the middle of a turn.
- `LocksCorrect` (`HInv`): no block on the way to a block that may be locked is ever marked conflicting, whatever arrives late;
  once `EnforceBlock` has run, tip and locked block are on one branch and stay so, since `ConnectTip` refuses
  blocks that conflict. Together with `BestTipCorrect` the tip cannot stay below the lock.
- By-products: the branch at `validation.cpp:3581` is never taken, and `m_chain.Contains(to_mark_failed)` at 3608 is never true.

**Check queue**, for any number of workers, batch size, checks and blocks. Assumptions: `ThreadsAssumption`,
`SizesAssumption`. The inductive invariant `QInv` is the conjunction of types, `Clean` (a thread has checks or results only
between taking a batch and reporting it), `Counted`, `Answered` and `Awaited`.

- `Counted`: `nTodo` is the number of checks queued or in a thread's hands. What threads hold is counted as a
  set of pairs of thread and position, since a sum over threads would need an induction. And `nIdle` is the number of
  sleepers.
- `FinishedQueue` follows: `nTodo` is zero only if nobody holds anything. `ExactAnswer` (`Answered`): the flag `fAllOk`, together with what is
  still held or queued, is true exactly if all checks added hold, although threads skip checks after a failure.
- `NoLostWakeup` (`Awaited`): the master waits only with an empty queue while some worker has yet to report, and once the
  stop flag is set the master is gone and nobody waits. This is the safety half of `WaitReturns` and `StopReturns`, which TLC checks under fairness.

**Algorithms.**

- `ScanCorrect`: for any finite set of keys, both directions, the iterator shows the keys of map and
  store together, in order, tombstones left out. The invariant `ScanInv`: both iterators stand ahead of the
  position, nothing that should be shown is passed, and what is shown is the next one.
- `QuarterLinesSplit` and `SidesBalance`: for all odds, handicaps, results and outcomes, with explicit hypotheses in the
  statements. `OddsDoNotWrap`: odds up to 85.8993, above which the 32-bit product at `bet_common.cpp:266`
  wraps and the claim is false. `OnTheGrid`: handicaps in quarters and scores in halves of a point, which
  is what oracles publish and what the code's division assumes. The proof reduces both sides to a quotient
  and a remainder and compares the few remainders that remain.

## 6. What is model-checked only

- Betting: `LottoWithinPot` is a sum over the entries of a lotto, an induction over data. `FieldRestored` is about a pool with
  results of field events and transactions with two outputs, to which the argument of `RInv` does not
  apply. Under the hypotheses of `RestoredCorrect` it follows from it.
- The theorems on bets other than `FieldPaidAreMarkedCorrect` for chains with lottos, dice, field results, and all of them but `FieldOddsFreshCorrect` for transactions with several outputs; the runs check
  `PaidOnce` and the counters there.
- `UndosOfTheChain` and `NeverFails` for transactions with several betting outputs: they are not true for all of those, and
  the runs check them on pools where they are.
- Dice: a sum over the 36 throws for some 180 bets. The numbers left out behave like those next to them: "not equal" pays less the larger
  the number is, and the count of "total under" has wrapped for good (the loop of `dice.cpp:94` does not end for the largest `uint32_t`, which is
  not modelled). Counts wrap at 2^24 in the model; they wrap only from slightly below 0, and the odds are 0 then as with 2^64.
- Liveness (`EventuallyBest`, `WaitReturns`, `StopReturns`) is outside the proof system's reach.
- What a fold computes for every input. Where a proof needs a recursive definition, it argues by a minimal counterexample
  (`TreeRecursion`).

## 7. Hazards

`PROJECT.json` lists what a test of this code would hardly reach, at the line where it bites, with the
property that would notice. Met while reading, and covered by no property:

- a parlay whose last result closes an event is skipped by every result and never settled (`bet_v3.cpp:83`);
  `DueBetsSettled` leaves closed events out, since nothing says what such a parlay is due;
- the maintenance spork is asked when a block is validated, not when it was made (`bet.cpp:211`);
- the flush of the failed-transaction database stands behind the return of `CBettingsView::Flush` and never
  runs (`bet_db.cpp:716`); versions 1 and 2 alone read that database;
- `InvalidateBlock` compares the parent of a candidate instead of the child (`validation.cpp:3581`). The branch is
  never taken (proved, section 5), so that all blocks it disconnects stay `BLOCK_FAILED_VALID`; the flag alone
  changes nothing the model can see;
- a block that arrives while its missing parent is marked failed is not remembered as unlinked
  (`validation.cpp:3911`), and after `reconsiderblock` stays so until a restart;
- two threads with chain locks of different heights both pass the test of the height
  (`chainlocks.cpp:112`), and the one that stores last wins.

## 8. Not modelled

- Protocol versions 1 and 2 (`bet_v2.*`): retired below height 1,501,000. Version 5 (token mints).
- Serialisation of betting outputs (`bet_tx.*`); an output is a record of its fields.
- Scripts, rewards, tokens, the contents of coins and evo data; a block that fails for such a reason is
  `RejectBlock` in `BettingChain` and in `ConnectBad` in `ChainActivation`.
- `VerifyDB` (its levels 3 and 4 disconnect and connect blocks over a cache that is dropped), pruning,
  `-reindex`, the optional indexes, the mempool.
- InstantSend, which calls InvalidateBlock and ResetBlockFailureFlags without ActivateBestChain; signing of
  chain locks; two chain lock messages at the same time.
- The fee of on-chain odds between 0 and 10000, where an unsigned subtraction wraps at 2^64.
- Liability sums and their 32-bit overflow: they are kept in the state, no property reads them.
- The Bitcoin, Dash and PIVX parts that have no share in the above: wallet, network, governance, masternodes,
  CoinJoin, zerocoin, RPC, GUI. They are the larger part of the repository by far, and systems of their own.

## 9. Plan

Done: the modules and theorems above. Next, in this order:

1. Proofs about betting for transactions with several outputs: `Ordinary` replaced by the condition that later outputs, too, are
   about events that exist.
2. Settlement as an abstract specification: a ledger in which a bet is open, paid at a height, or
   taken back, refined by `BettingChain` for peerless bets.
3. Liabilities and on-chain odds below 10000 with a small word size.
4. `VerifyDB` over `ChainPersistence`.
