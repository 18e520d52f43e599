----------------------------- MODULE BlockIndex -----------------------------
(***************************************************************************)
(* The block index of CChainState and BlockManager (validation.cpp): which *)
(* blocks are known, what is known of them, and the sets derived from that *)
(* (setBlockIndexCandidates, m_blocks_unlinked, m_failed_blocks).  The     *)
(* functions here run under cs_main from start to end, so each is an       *)
(* operator from an index to an index.  ChainActivation has the threads    *)
(* that call them.                                                         *)
(*                                                                         *)
(* Nothing is pruned: HAVE_DATA, nTx > 0 and VALID_TRANSACTIONS are one.   *)
(***************************************************************************)
EXTENDS Integers, FiniteSets, SequencesExt

CONSTANTS
    Blocks,         \* the blocks there are, a tree
    Genesis,
    None,           \* the null pointer
    Parent,         \* pprev, of every block but Genesis
    ChainWork,      \* nChainWork
    Address         \* where the index entry lies in memory

ASSUME TreeAssumption ==
    /\ IsFiniteSet(Blocks) /\ Genesis \in Blocks /\ None \notin Blocks
    /\ Parent \in [Blocks \ {Genesis} -> Blocks]
    /\ ChainWork \in [Blocks -> Nat]
    /\ \A b \in Blocks \ {Genesis} : ChainWork[b] > ChainWork[Parent[b]]
    /\ Address \in [Blocks -> Nat]
    /\ \A a, b \in Blocks : Address[a] = Address[b] => a = b

\* The blocks from Genesis to b.
Chain[b \in Blocks] == IF b = Genesis THEN {b} ELSE {b} \cup Chain[Parent[b]]

Height(b) == Cardinality(Chain[b]) - 1
Siblings(b, s) == {c \in s.known \ {Genesis, b} : Parent[c] = Parent[b]}

(***************************************************************************)
(* An index s is a record: known (the entries), data (BLOCK_HAVE_DATA),    *)
(* linked (HaveTxsDownloaded), failedValid and failedChild (the two flags  *)
(* of BLOCK_FAILED_MASK), conflicting (BLOCK_CONFLICT_CHAINLOCK), scripts  *)
(* (BLOCK_VALID_SCRIPTS), seq (nSequenceId), nextSeq (nBlockSequenceId),   *)
(* candidates, unlinked (the second halves of m_blocks_unlinked),          *)
(* failedBlocks (m_failed_blocks), tip, and of preciousblock reverseSeq    *)
(* (nBlockReverseSequenceId) and lastPrecious (nLastPreciousChainwork).    *)
(***************************************************************************)
Indexes ==
    [known : SUBSET Blocks, data : SUBSET Blocks, linked : SUBSET Blocks,
     failedValid : SUBSET Blocks, failedChild : SUBSET Blocks,
     conflicting : SUBSET Blocks, scripts : SUBSET Blocks,
     seq : [Blocks -> Int], nextSeq : Nat, candidates : SUBSET Blocks,
     unlinked : SUBSET Blocks, failedBlocks : SUBSET Blocks, tip : Blocks,
     reverseSeq : Int, lastPrecious : Nat]

GenesisIndex ==
    [known |-> {Genesis}, data |-> {Genesis}, linked |-> {Genesis},
     failedValid |-> {}, failedChild |-> {}, conflicting |-> {},
     scripts |-> {Genesis}, seq |-> [b \in Blocks |-> IF b = Genesis THEN 1 ELSE 0],
     nextSeq |-> 2, candidates |-> {Genesis}, unlinked |-> {},
     failedBlocks |-> {}, tip |-> Genesis, reverseSeq |-> -1, lastPrecious |-> 0]

Failed(s) == s.failedValid \cup s.failedChild

\* IsValid(BLOCK_VALID_TRANSACTIONS) and HaveTxsDownloaded.
Connectable(s) == s.linked \ Failed(s)

\* CBlockIndexWorkComparator: a sorts before b.
Worse(a, b, s) ==
    \/ ChainWork[a] < ChainWork[b]
    \/ ChainWork[a] = ChainWork[b] /\ s.seq[a] > s.seq[b]
    \/ ChainWork[a] = ChainWork[b] /\ s.seq[a] = s.seq[b] /\ Address[a] > Address[b]

BestCandidate(s) ==
    CHOOSE b \in s.candidates : \A c \in s.candidates : ~Worse(b, c, s)

PruneBlockIndexCandidates(s) ==
    [s EXCEPT !.candidates = {c \in @ : ~Worse(c, s.tip, s)}]

\* Fault: the sweep takes only blocks of more work than the tip.
AddCandidatesAbove(s) ==
    [s EXCEPT !.candidates = @ \cup
        {b \in Connectable(s) \ s.conflicting : ChainWork[b] > ChainWork[s.tip]}]

\* The sweep that InvalidateBlock and MarkConflictingBlock end with.
AddCandidates(s) ==
    [s EXCEPT !.candidates = @ \cup
        {b \in Connectable(s) \ s.conflicting : ~Worse(b, s.tip, s)}]

-----------------------------------------------------------------------------
\* Fault: the walk does not look for conflicts with chain locks.
UnusableButLocked(b, s) ==
    (Chain[b] \ Chain[s.tip]) \cap (Failed(s) \cup (Blocks \ s.data))

\* FindMostWorkChain: the blocks between the active chain and b that cannot be
\* used, the one the walk from b meets first, and what is done about b then.
Unusable(b, s) ==
    (Chain[b] \ Chain[s.tip]) \cap
        (Failed(s) \cup s.conflicting \cup (Blocks \ s.data))

FirstUnusable(b, s) ==
    CHOOSE x \in Unusable(b, s) : \A y \in Unusable(b, s) : ChainWork[y] <= ChainWork[x]

DropChain(b, s) ==
    LET x == FirstUnusable(b, s)
        above == Chain[b] \ Chain[x]
        failed == x \in Failed(s)
        conflict == ~failed /\ x \in s.conflicting
    IN  [s EXCEPT !.failedChild = IF failed THEN @ \cup above ELSE @,
                  !.conflicting = IF conflict THEN @ \cup above ELSE @,
                  !.unlinked = IF failed \/ conflict THEN @ ELSE @ \cup above,
                  !.candidates = @ \ (above \cup {x})]

InvalidBlockFound(b, s) ==
    [s EXCEPT !.failedValid = @ \cup {b}, !.failedBlocks = @ \cup {b},
              !.candidates = @ \ {b}]

\* ConnectTip of a valid block, and the pruning that follows it.
Connected(b, s) ==
    PruneBlockIndexCandidates([s EXCEPT !.tip = b, !.scripts = @ \cup {b}])

-----------------------------------------------------------------------------
\* AcceptBlockHeader.  A header is refused because of its parent, because of
\* a failed block below the parent that the parent has not been marked for,
\* or because of a chain lock (conflicts); the last two leave a mark.
HeaderRefused(b, s) ==
    IF b \in s.known THEN b \in Failed(s) \cup s.conflicting
                     ELSE Parent[b] \in Failed(s) \cup s.conflicting

FailedBelow(b, s) ==
    IF b \in s.known \/ Parent[b] \in s.scripts THEN {}
    ELSE s.failedBlocks \cap Chain[Parent[b]]

MarkFailedBelow(b, s) ==
    LET first == CHOOSE f \in FailedBelow(b, s) :
                    \A g \in FailedBelow(b, s) : Address[f] <= Address[g]
    IN  [s EXCEPT !.failedChild = @ \cup (Chain[Parent[b]] \ Chain[first])]

HeaderAccepted(b, s, conflicts) ==
    /\ ~HeaderRefused(b, s)
    /\ FailedBelow(b, s) = {}
    /\ b \in s.known \/ ~conflicts

AcceptBlockHeader(b, s, conflicts) ==
    IF b \in s.known \/ HeaderRefused(b, s) THEN s
    ELSE IF FailedBelow(b, s) # {} THEN MarkFailedBelow(b, s)
    ELSE [s EXCEPT !.known = @ \cup {b},
                   !.conflicting = IF conflicts THEN @ \cup {b} ELSE @]

\* The blocks that the arrival of b links, and the orders in which the queue
\* of ReceivedBlockTransactions may hand out their sequence numbers.
NewlyLinked(b, s) ==
    {x \in s.unlinked \cup {b} : b \in Chain[x] /\ Chain[x] \ Chain[b] \subseteq s.unlinked}

LinkOrders(b, s) ==
    {q \in SetToSeqs(NewlyLinked(b, s)) :
        \A i, j \in DOMAIN q : Height(q[i]) < Height(q[j]) => i < j}

Linked(order, s) ==
    LET new == ToSet(order)
        place(x) == CHOOSE i \in DOMAIN order : order[i] = x
        t == [s EXCEPT !.linked = @ \cup new,
                       !.unlinked = @ \ new,
                       !.seq = [x \in Blocks |-> IF x \in new THEN s.nextSeq + place(x) - 1
                                                               ELSE @[x]],
                       !.nextSeq = @ + Len(order)]
    IN  [t EXCEPT !.candidates = @ \cup
            {x \in new \ t.conflicting : ~Worse(x, t.tip, t)}]

ReceivedBlockTransactions(b, s) ==
    LET t == [s EXCEPT !.data = @ \cup {b}]
    IN  IF Parent[b] \in t.linked THEN {Linked(q, t) : q \in LinkOrders(b, t)}
        ELSE IF Parent[b] \in Failed(t) THEN {t}
        ELSE {[t EXCEPT !.unlinked = @ \cup {b}]}

-----------------------------------------------------------------------------
\* Fault: the blocks that lose the flags stay on the list.
ResetKeepsList(b, s) ==
    LET cleared == {x \in Failed(s) : b \in Chain[x] \/ x \in Chain[b]}
    IN  [s EXCEPT !.failedValid = @ \ cleared, !.failedChild = @ \ cleared]

\* Fault: a child under a block that lost the flags keeps only its own.
ResetKeepsChildren(b, s) ==
    LET cleared == {x \in Failed(s) : b \in Chain[x] \/ x \in Chain[b]}
        t == [s EXCEPT !.failedValid = @ \ cleared, !.failedChild = @ \ cleared]
    IN  [t EXCEPT !.failedBlocks = @ \ cleared,
                  !.candidates = @ \cup {x \in (cleared \cap t.linked) \ t.conflicting :
                                            Worse(t.tip, x, t)}]

\* ResetBlockFailureFlags(pindex): pindex, what builds on it and what it builds
\* on lose the flags.  A child left behind with BLOCK_FAILED_CHILD under a
\* block that lost them becomes the failed block itself.
ResetBlockFailureFlags(b, s) ==
    LET cleared == {x \in Failed(s) : b \in Chain[x] \/ x \in Chain[b]}
        roots == cleared \cap Chain[b]
        t == [s EXCEPT !.failedValid = @ \ cleared, !.failedChild = @ \ cleared]
        orphans == {x \in t.failedChild : Parent[x] \in roots}
    IN  [t EXCEPT !.failedValid = @ \cup orphans,
                  !.failedBlocks = (@ \ cleared) \cup orphans,
                  !.candidates = (@ \cup {x \in (cleared \cap t.linked) \ t.conflicting :
                                            Worse(t.tip, x, t)}) \ orphans]

\* The part of PreciousBlock under cs_main, for a block with the tip's work or
\* more: it goes before every block of its work.
PreciousBlock(b, s) ==
    LET id == IF ChainWork[s.tip] > s.lastPrecious THEN -1 ELSE s.reverseSeq
        t == [s EXCEPT !.seq[b] = id, !.reverseSeq = id - 1,
                       !.lastPrecious = ChainWork[s.tip], !.candidates = @ \ {b}]
    IN  IF b \in Connectable(t) \ t.conflicting
        THEN PruneBlockIndexCandidates([t EXCEPT !.candidates = @ \cup {b}])
        ELSE t

\* Fault: only the siblings of the block itself.
ToMarkAtTheTop(b, s) == Siblings(b, s)

\* EnforceBlock(pindex): MarkConflictingBlock of every sibling of the blocks
\* between the active chain and b, then the reset of b if it is failed.
ToMarkConflicting(b, s) == UNION {Siblings(x, s) : x \in Chain[b] \ Chain[s.tip]}

EnforceBlock(b, s) ==
    LET marked == ToMarkConflicting(b, s)
        cut == {x \in Chain[s.tip] : Chain[x] \cap marked # {}}
        fork == CHOOSE x \in Chain[s.tip] \ cut :
                    \A y \in Chain[s.tip] \ cut : ChainWork[y] <= ChainWork[x]
        t == [s EXCEPT !.tip = fork,
                       !.conflicting = @ \cup marked \cup cut,
                       !.candidates = @ \ (marked \cup cut)]
        u == IF marked = {} THEN s ELSE AddCandidates(t)
    IN  IF b \in Failed(u) \cup (Blocks \ u.data) THEN ResetBlockFailureFlags(b, u) ELSE u

\* LoadBlockIndex and LoadChainTip, from what is on disk of the index.
LoadBlockIndex(s) ==
    LET failed == {b \in s.known : Chain[b] \cap Failed(s) # {}}
        linked == {b \in s.data : Chain[b] \subseteq s.data}
        t == [s EXCEPT !.failedChild = @ \cup (failed \ Failed(s)),
                       !.failedBlocks = {},
                       !.seq = [b \in Blocks |-> 0],
                       !.nextSeq = 1, !.reverseSeq = -1, !.lastPrecious = 0,
                       !.linked = linked, !.unlinked = s.data \ linked]
    IN  PruneBlockIndexCandidates([t EXCEPT !.candidates = Connectable(t)])

\* pindexBestInvalid after LoadBlockIndex, and the reset that the startup ends
\* with when it builds on the tip.
BestInvalid(s) ==
    CHOOSE b \in Failed(s) : \A c \in Failed(s) :
        \/ ChainWork[c] < ChainWork[b]
        \/ ChainWork[c] = ChainWork[b] /\ Height(c) > Height(b)
        \/ ChainWork[c] = ChainWork[b] /\ Height(c) = Height(b) /\ Address[c] >= Address[b]

Startup(s) ==
    LET t == LoadBlockIndex(s)
    IN  IF Failed(t) # {} /\ t.tip \in Chain[BestInvalid(t)]
        THEN ResetBlockFailureFlags(BestInvalid(t), t)
        ELSE t
=============================================================================
