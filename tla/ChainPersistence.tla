-------------------------- MODULE ChainPersistence --------------------------
(***************************************************************************)
(* What a node has on disk, and what it makes of it after a crash:         *)
(* FlushStateToDisk, CCoinsViewDB::BatchWrite, CBettingsView::Flush,       *)
(* ReplayBlocks and the startup in init.cpp.                               *)
(*                                                                         *)
(* A node keeps four kinds of databases: the block index, the coins, the   *)
(* evo database and the betting databases.  Blocks change the last three   *)
(* in memory.  A full flush writes the index in one batch, the coins in    *)
(* several, the evo database in one, and then the betting databases key by *)
(* key, one after the other.  A crash may come between any two writes.     *)
(* The coins carry a marker (DB_HEAD_BLOCKS) while they are being written, *)
(* from which the next start rolls them forward.                           *)
(*                                                                         *)
(* Coins are a set.  The evo database is the log of the blocks that it has *)
(* processed, a betting database the set of blocks whose changes it holds. *)
(***************************************************************************)
EXTENDS Integers, Sequences, SequencesExt, FiniteSets

CONSTANTS
    Blocks,         \* the blocks there are, a tree
    Genesis,
    NoBlock,        \* the null hash
    Parent,         \* of every block but Genesis
    BettingBlocks,  \* the blocks with betting transactions
    Spends,         \* the coins that a block spends and creates
    Creates,
    FlushOrder,     \* the betting databases in the order of their flush;
                    \* "undos" holds LastHeight as well
    MaxCrashes      \* bound on the crashes of a behaviour

ASSUME BlocksAssumption ==
    /\ Genesis \in Blocks /\ NoBlock \notin Blocks
    /\ Parent \in [Blocks \ {Genesis} -> Blocks]
    /\ \A S \in SUBSET Blocks : S # {} => \E b \in S : b = Genesis \/ Parent[b] \notin S
    /\ BettingBlocks \subseteq Blocks
ASSUME OrderAssumption ==
    /\ FlushOrder \in Seq(STRING)
    /\ \E i \in DOMAIN FlushOrder : FlushOrder[i] = "undos"
ASSUME CrashesAssumption == MaxCrashes \in Nat

VARIABLES
    mem,        \* what the running node has in memory
    disk,       \* what survives a crash
    phase,      \* what the node is doing
    batch,      \* the BatchWrite in progress: hashBlock, old_tip
    replayed,   \* this flush is the one of ReplayBlocks
    todo,       \* the betting databases still to be flushed
    why,        \* why the node has stopped for good, or "none"
    cut,        \* a crash has hit the flush of coins, evo or betting data
    crashes

vars == <<mem, disk, phase, batch, replayed, todo, why, cut, crashes>>

\* The blocks from the first after Genesis to b.
Branch[b \in Blocks] == IF b = Genesis THEN <<>> ELSE Append(Branch[Parent[b]], b)

Height(b) == Len(Branch[b])
IsAncestor(a, b) == IsPrefix(Branch[a], Branch[b])

Databases == ToSet(FlushOrder)

Apply(utxo, b) == (utxo \ Spends[b]) \cup Creates[b]
Unapply(utxo, b) == (utxo \ Creates[b]) \cup Spends[b]

\* Fault: the first block after the old tip is left out.
RollforwardShort(utxo, old, new) ==
    LET rolled[b \in Blocks] == IF b \in {old, Genesis} \/ Parent[b] = old THEN utxo
                                ELSE Apply(rolled[Parent[b]], b)
    IN  rolled[new]

\* The loop over RollforwardBlock, from the block after old to new.
Rollforward(utxo, old, new) ==
    LET rolled[b \in Blocks] == IF b \in {old, Genesis} THEN utxo
                                ELSE Apply(rolled[Parent[b]], b)
    IN  rolled[new]

Init ==
    /\ disk = [index |-> {Genesis}, coins |-> {}, best |-> Genesis, heads |-> <<>>,
               evo |-> <<>>, bets |-> [d \in Databases |-> {}], lastHeight |-> 0]
    /\ mem = [index |-> {Genesis}, tip |-> Genesis, utxo |-> {}, evo |-> <<>>,
              bets |-> [d \in Databases |-> {}], lastHeight |-> 0]
    /\ phase = "running"
    /\ batch = <<>>
    /\ replayed = FALSE
    /\ todo = 0
    /\ why = "none"
    /\ cut = FALSE
    /\ crashes = 0

Stop(reason) ==
    /\ phase' = "stopped"
    /\ why' = reason
    /\ UNCHANGED <<mem, disk, batch, replayed, todo, cut, crashes>>

-----------------------------------------------------------------------------
\* Blocks.

\* A block is accepted: it is in a block file and in the index in memory.
AcceptBlock(b) ==
    /\ phase = "running"
    /\ b \notin mem.index /\ Parent[b] \in mem.index
    /\ mem' = [mem EXCEPT !.index = @ \cup {b}]
    /\ UNCHANGED <<disk, phase, batch, replayed, todo, why, cut, crashes>>

EvoBest(log) == IF log = <<>> THEN Genesis ELSE Last(log)

\* ConnectTip of a block whose inputs are there and whose outputs are not (BIP30),
\* which compares the evo database by block and the betting databases by height.
ConnectTip(b) ==
    /\ phase = "running"
    /\ b \in mem.index /\ b # Genesis /\ Parent[b] = mem.tip
    /\ Spends[b] \subseteq mem.utxo /\ Creates[b] \cap mem.utxo = {}
    /\ CASE EvoBest(mem.evo) # mem.tip -> Stop("evo")
         [] EvoBest(mem.evo) = mem.tip /\ mem.lastHeight # Height(mem.tip) -> Stop("height")
         [] OTHER ->
              /\ mem' = [mem EXCEPT !.tip = b,
                                    !.utxo = Apply(@, b),
                                    !.evo = Append(@, b),
                                    !.bets = [d \in Databases |-> @[d] \cup {b}],
                                    !.lastHeight = Height(b)]
              /\ UNCHANGED <<disk, phase, batch, replayed, todo, why, cut, crashes>>

\* A betting database lacks changes of the tip.
UndoMayFail == mem.tip \in BettingBlocks /\ \E d \in Databases : mem.tip \notin mem.bets[d]

\* DisconnectTip, which does not compare the height.  The undo of a betting
\* output whose records are missing fails or has nothing to do, which
\* depends on the output.
DisconnectTip ==
    /\ phase = "running"
    /\ mem.tip # Genesis
    /\ \/ EvoBest(mem.evo) # mem.tip /\ Stop("evo")
       \/ EvoBest(mem.evo) = mem.tip /\ UndoMayFail /\ Stop("undo")
       \/ /\ EvoBest(mem.evo) = mem.tip
          /\ mem' = [mem EXCEPT !.tip = Parent[mem.tip],
                                !.utxo = Unapply(@, mem.tip),
                                !.evo = Front(@),
                                !.bets = [d \in Databases |-> @[d] \ {mem.tip}],
                                !.lastHeight = Height(Parent[mem.tip])]
          /\ UNCHANGED <<disk, phase, batch, replayed, todo, why, cut, crashes>>

-----------------------------------------------------------------------------
\* FlushStateToDisk.

\* The block index only (fPeriodicWrite).
WriteBlockIndex ==
    /\ phase = "running"
    /\ disk' = [disk EXCEPT !.index = mem.index]
    /\ UNCHANGED <<mem, phase, batch, replayed, todo, why, cut, crashes>>

\* BatchWrite before its first batch: in the middle of a replay the old tip
\* is the one of the flush that was interrupted.
OldTip == IF disk.best # NoBlock THEN disk.best ELSE disk.heads[2]

\* Fault: the null best block is taken for the old tip.
StartBatchForgetsHeads(new) ==
    /\ phase' = "coins"
    /\ batch' = <<new, IF disk.best # NoBlock THEN disk.best ELSE Genesis>>

StartBatch(new) ==
    /\ phase' = "coins"
    /\ batch' = <<new, OldTip>>

\* assert(old_heads[0] == hashBlock)
BatchAsserts(new) == disk.best # NoBlock \/ disk.heads[1] = new

\* Fault: the coins are written, but not the block index.
StartFlushCoinsOnly ==
    /\ phase = "running"
    /\ IF BatchAsserts(mem.tip)
       THEN StartBatch(mem.tip) /\ UNCHANGED <<mem, disk, replayed, todo, why, cut, crashes>>
       ELSE Stop("assert")

\* A full flush (fDoFullFlush), up to the coins.
StartFlush ==
    /\ phase = "running"
    /\ IF BatchAsserts(mem.tip)
       THEN /\ disk' = [disk EXCEPT !.index = mem.index]
            /\ StartBatch(mem.tip)
            /\ UNCHANGED <<mem, replayed, todo, why, cut, crashes>>
       ELSE Stop("assert")

Differing == (disk.coins \ mem.utxo) \cup (mem.utxo \ disk.coins)

WriteCoins(S) == (disk.coins \ S) \cup (mem.utxo \cap S)

\* A batch of BatchWrite that is not the last.
WritePartialBatch(S) ==
    /\ phase = "coins"
    /\ disk' = [disk EXCEPT !.best = NoBlock, !.heads = batch, !.coins = WriteCoins(S)]
    /\ UNCHANGED <<mem, phase, batch, replayed, todo, why, cut, crashes>>

\* The last batch.
WriteFinalBatch ==
    /\ phase = "coins"
    /\ disk' = [disk EXCEPT !.best = batch[1], !.heads = <<>>, !.coins = WriteCoins(Differing)]
    /\ phase' = "evo"
    /\ batch' = <<>>
    /\ UNCHANGED <<mem, replayed, todo, why, cut, crashes>>

\* CommitRootTransaction, of FlushStateToDisk or of the startup after a replay.
CommitEvo ==
    /\ phase = "evo"
    /\ disk' = [disk EXCEPT !.evo = mem.evo]
    /\ phase' = IF replayed THEN "running" ELSE "betting"
    /\ replayed' = FALSE
    /\ todo' = IF replayed THEN 0 ELSE 1
    /\ UNCHANGED <<mem, batch, why, cut, crashes>>

\* A key of the database whose turn it is: what block b changed, or LastHeight.
FlushKey(b) ==
    LET d == FlushOrder[todo]
    IN  /\ phase = "betting"
        /\ (b \in disk.bets[d]) # (b \in mem.bets[d])
        /\ disk' = [disk EXCEPT !.bets[d] = (@ \ {b}) \cup (mem.bets[d] \cap {b})]
        /\ UNCHANGED <<mem, phase, batch, replayed, todo, why, cut, crashes>>

FlushLastHeight ==
    /\ phase = "betting"
    /\ FlushOrder[todo] = "undos"
    /\ disk' = [disk EXCEPT !.lastHeight = mem.lastHeight]
    /\ UNCHANGED <<mem, phase, batch, replayed, todo, why, cut, crashes>>

\* Fault: LastHeight is not written.
FlushDatabaseOnly ==
    LET d == FlushOrder[todo]
    IN  /\ phase = "betting"
        /\ disk' = [disk EXCEPT !.bets[d] = mem.bets[d]]
        /\ phase' = IF todo = Len(FlushOrder) THEN "running" ELSE "betting"
        /\ todo' = IF todo = Len(FlushOrder) THEN 0 ELSE todo + 1
        /\ UNCHANGED <<mem, batch, replayed, why, cut, crashes>>

\* The rest of it.
FlushDatabase ==
    LET d == FlushOrder[todo]
    IN  /\ phase = "betting"
        /\ disk' = [disk EXCEPT !.bets[d] = mem.bets[d],
                                !.lastHeight = IF d = "undos" THEN mem.lastHeight ELSE @]
        /\ phase' = IF todo = Len(FlushOrder) THEN "running" ELSE "betting"
        /\ todo' = IF todo = Len(FlushOrder) THEN 0 ELSE todo + 1
        /\ UNCHANGED <<mem, batch, replayed, why, cut, crashes>>

-----------------------------------------------------------------------------
\* Crash and start.

\* A crash, or a failed write: AbortNode ends the process.
Crash ==
    /\ phase \in {"running", "coins", "evo", "betting"}
    /\ crashes < MaxCrashes
    /\ phase' = "down"
    /\ batch' = <<>>
    /\ replayed' = FALSE
    /\ todo' = 0
    /\ cut' = (cut \/ disk.heads # <<>> \/ phase \in {"evo", "betting"})
    /\ crashes' = crashes + 1
    /\ UNCHANGED <<mem, disk, why>>

\* The databases as they are read from disk.
Loaded(tip, utxo, evo, height) ==
    [index |-> disk.index, tip |-> tip, utxo |-> utxo, evo |-> evo,
     bets |-> disk.bets, lastHeight |-> height]

\* No replay is due: LoadChainTip takes the tip from the coins.
StartClean ==
    /\ phase = "down"
    /\ disk.heads = <<>>
    /\ IF disk.best \in disk.index
       THEN /\ mem' = Loaded(disk.best, disk.coins, disk.evo, disk.lastHeight)
            /\ phase' = "running"
            /\ UNCHANGED <<disk, batch, replayed, todo, why, cut, crashes>>
       ELSE Stop("unknown")

\* ReplayBlocks: coins and evo database are rolled forward, the betting
\* databases get the height of the new tip and nothing else.  The coins are
\* then written with another BatchWrite.
ReplayBlocks ==
    LET new == disk.heads[1]
        old == disk.heads[2]
    IN  /\ phase = "down"
        /\ disk.heads # <<>>
        /\ CASE {new, old} \notin SUBSET disk.index -> Stop("unknown")
             [] {new, old} \in SUBSET disk.index /\ ~IsAncestor(old, new) -> Stop("fork")
             [] OTHER ->
                  /\ mem' = Loaded(new, Rollforward(disk.coins, old, new),
                                   disk.evo \o SubSeq(Branch[new], Height(old) + 1, Height(new)),
                                   Height(new))
                  /\ StartBatch(new)
                  /\ replayed' = TRUE
                  /\ UNCHANGED <<disk, todo, why, cut, crashes>>

Next ==
    \/ \E b \in Blocks \ {Genesis} : AcceptBlock(b) \/ ConnectTip(b)
    \/ DisconnectTip
    \/ WriteBlockIndex \/ StartFlush
    \/ \E S \in SUBSET Differing : WritePartialBatch(S)
    \/ WriteFinalBatch \/ CommitEvo
    \/ (\E b \in Blocks : FlushKey(b)) \/ FlushLastHeight \/ FlushDatabase
    \/ Crash \/ StartClean \/ ReplayBlocks

Spec == Init /\ [][Next]_vars

-----------------------------------------------------------------------------
\* Properties.

\* The coins of a block: what its branch created and did not spend.
CoinsOf[b \in Blocks] == IF b = Genesis THEN {} ELSE Apply(CoinsOf[Parent[b]], b)

(* After any crashes, during the replay of an earlier crash too, a running
   node has the coins of its tip: partial batches and coins written twice
   leave no trace (BatchWrite, RollforwardBlock). *)
CoinsFollowTip ==
    phase = "running" => mem.utxo = CoinsOf[mem.tip]

(* Once a node has connected a block, its evo database has processed the blocks of
   the active chain in their order, each once: a replay neither repeats nor
   skips one (CommitRootTransaction comes after the coins). *)
EvoFollowsTip ==
    phase = "running" /\ EvoBest(mem.evo) = mem.tip => mem.evo = Branch[mem.tip]

(* The blocks that the coins database names are in the block index on disk,
   whatever was written when: the start never asks for an unknown block,
   and BatchWrite never fails its assertion. *)
CoinsWithinIndex ==
    /\ disk.best # NoBlock => disk.best \in disk.index
    /\ \A i \in DOMAIN disk.heads : disk.heads[i] \in disk.index
    /\ why \notin {"unknown", "assert"}

Complete(d) == mem.bets[d] = ToSet(Branch[mem.tip])

(* A crash that does not hit a full flush between its first batch of coins
   and its last betting key loses only what was not flushed: the node starts again,
   every betting database holds the blocks of the tip, and no check stops it. *)
CrashesHarmless ==
    ~cut =>
        /\ why = "none"
        /\ phase = "running" =>
             (\A d \in Databases : Complete(d)) /\ mem.lastHeight = Height(mem.tip)

(* A running node whose LastHeight passes the check of ConnectBlock has
   complete betting databases. *)
HeightMeansComplete ==
    phase = "running" /\ mem.lastHeight = Height(mem.tip) => \A d \in Databases : Complete(d)
=============================================================================
