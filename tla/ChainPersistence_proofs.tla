----------------------- MODULE ChainPersistence_proofs -----------------------
(***************************************************************************)
(* Proofs about ChainPersistence, for every tree of blocks, whatever they  *)
(* spend and create, every order of the betting databases and any number   *)
(* of crashes: what a node finds on disk agrees with its block index, and  *)
(* what it makes of it are the coins and the evo data of its tip.          *)
(***************************************************************************)
EXTENDS ChainPersistence, TreeRecursion, SequenceTheorems

\* All coins there may be.
Coins == UNION {Spends[b] \cup Creates[b] : b \in Blocks}

\* The blocks are a tree, along which functions may be defined.
LEMMA BlocksTree == IsTree(Blocks, Genesis, Parent)
BY BlocksAssumption DEF IsTree

\* The recursion of Branch is well defined.
LEMMA BranchDef ==
    /\ Branch \in [Blocks -> Seq(Blocks)]
    /\ Branch[Genesis] = <<>>
    /\ \A b \in Blocks \ {Genesis} : Branch[b] = Append(Branch[Parent[b]], b)
<1> DEFINE V == Seq(Blocks)
           stop == {Genesis}
           base == [b \in Blocks |-> <<>>]
           step == [bv \in Blocks \X V |-> Append(bv[2], bv[1])]
<1>1. Genesis \in stop /\ base \in [Blocks -> V] /\ step \in [Blocks \X V -> V]
  OBVIOUS
<1>2. \A b \in Blocks, v \in V : step[<<b, v>>] = Append(v, b)
  OBVIOUS
<1>3. PICK f \in [Blocks -> V] :
        \A b \in Blocks : f[b] = IF b \in stop THEN base[b] ELSE step[<<b, f[Parent[b]]>>]
  <2> HIDE DEF V, stop, base, step
  <2> QED BY <1>1, BlocksTree, TreeRecursion
<1>4. \A b \in Blocks : f[b] = IF b = Genesis THEN <<>> ELSE Append(f[Parent[b]], b)
  BY <1>2, <1>3, BlocksAssumption
<1>5. f = [b \in Blocks |-> IF b = Genesis THEN <<>> ELSE Append(f[Parent[b]], b)]
  BY <1>3, <1>4
<1>6. Branch = [b \in Blocks |-> IF b = Genesis THEN <<>> ELSE Append(Branch[Parent[b]], b)]
  BY <1>5 DEF Branch
<1>7. Branch = f
  <2> DEFINE S == {b \in Blocks : Branch[b] # f[b]}
  <2>1. ASSUME S # {} PROVE FALSE
    <3>1. PICK b \in S : b = Genesis \/ Parent[b] \notin S
      BY <2>1, BlocksAssumption
    <3>2. CASE b = Genesis
      BY <3>1, <3>2, <1>4, <1>6
    <3>3. CASE b # Genesis
      <4>1. Parent[b] \in Blocks /\ Branch[Parent[b]] = f[Parent[b]]
        BY <3>1, <3>3, BlocksAssumption
      <4> QED BY <3>1, <3>3, <4>1, <1>4, <1>6
    <3> QED BY <3>2, <3>3
  <2>2. \A b \in Blocks : Branch[b] = f[b]
    BY <2>1
  <2> QED BY <1>6, <1>3, <2>2
<1> QED BY <1>3, <1>4, <1>7, BlocksAssumption

\* The recursion of CoinsOf is well defined.
LEMMA CoinsOfDef ==
    /\ CoinsOf \in [Blocks -> SUBSET Coins]
    /\ CoinsOf[Genesis] = {}
    /\ \A b \in Blocks \ {Genesis} : CoinsOf[b] = Apply(CoinsOf[Parent[b]], b)
<1> DEFINE V == SUBSET Coins
           stop == {Genesis}
           base == [b \in Blocks |-> {}]
           step == [bv \in Blocks \X V |-> Apply(bv[2], bv[1])]
<1>1. Genesis \in stop /\ base \in [Blocks -> V] /\ step \in [Blocks \X V -> V]
  BY DEF Apply, Coins
<1>2. \A b \in Blocks, v \in V : step[<<b, v>>] = Apply(v, b)
  OBVIOUS
<1>3. PICK f \in [Blocks -> V] :
        \A b \in Blocks : f[b] = IF b \in stop THEN base[b] ELSE step[<<b, f[Parent[b]]>>]
  <2> HIDE DEF V, stop, base, step
  <2> QED BY <1>1, BlocksTree, TreeRecursion
<1>4. \A b \in Blocks : f[b] = IF b = Genesis THEN {} ELSE Apply(f[Parent[b]], b)
  BY <1>2, <1>3, BlocksAssumption
<1>5. f = [b \in Blocks |-> IF b = Genesis THEN {} ELSE Apply(f[Parent[b]], b)]
  BY <1>3, <1>4
<1>6. CoinsOf = [b \in Blocks |-> IF b = Genesis THEN {} ELSE Apply(CoinsOf[Parent[b]], b)]
  BY <1>5 DEF CoinsOf
<1>7. CoinsOf = f
  <2> DEFINE S == {b \in Blocks : CoinsOf[b] # f[b]}
  <2>1. ASSUME S # {} PROVE FALSE
    <3>1. PICK b \in S : b = Genesis \/ Parent[b] \notin S
      BY <2>1, BlocksAssumption
    <3>2. CASE b = Genesis
      BY <3>1, <3>2, <1>4, <1>6
    <3>3. CASE b # Genesis
      <4>1. Parent[b] \in Blocks /\ CoinsOf[Parent[b]] = f[Parent[b]]
        BY <3>1, <3>3, BlocksAssumption
      <4> QED BY <3>1, <3>3, <4>1, <1>4, <1>6
    <3> QED BY <3>2, <3>3
  <2>2. \A b \in Blocks : CoinsOf[b] = f[b]
    BY <2>1
  <2> QED BY <1>6, <1>3, <2>2
<1> QED BY <1>3, <1>4, <1>7, BlocksAssumption

-----------------------------------------------------------------------------
\* A branch ends in its block, and what is before that is the branch of the
\* parent.
LEMMA BranchEnd ==
    ASSUME NEW b \in Blocks \ {Genesis}
    PROVE  /\ Parent[b] \in Blocks /\ Branch[b] # <<>>
           /\ Height(b) = Height(Parent[b]) + 1 /\ Height(Parent[b]) \in Nat
           /\ Last(Branch[b]) = b
           /\ Front(Branch[b]) = Branch[Parent[b]]
           /\ ToSet(Branch[b]) = ToSet(Branch[Parent[b]]) \cup {b}
           /\ \A i \in 1..Height(Parent[b]) : Branch[b][i] = Branch[Parent[b]][i]
<1> DEFINE s == Branch[Parent[b]]
           t == Branch[b]
<1>1. Parent[b] \in Blocks
  BY BlocksAssumption
<1>2. s \in Seq(Blocks) /\ t \in Seq(Blocks) /\ t = Append(s, b)
  BY <1>1, BranchDef
<1>3. Len(t) = Len(s) + 1 /\ Len(s) \in Nat /\ t[Len(s) + 1] = b
      /\ \A i \in 1..Len(s) : t[i] = s[i]
  BY <1>2, AppendProperties, LenProperties
<1>4. DOMAIN t = 1..(Len(s) + 1) /\ DOMAIN s = 1..Len(s)
  BY <1>2, <1>3, LenProperties
<1>5. t # <<>>
  BY <1>3, <1>2, EmptySeq
<1>6. Front(t) = s
  <2>1. Front(t) = SubSeq(t, 1, Len(s))
    BY <1>3 DEF Front
  <2>2. SubSeq(t, 1, Len(s)) \in Seq(Blocks) /\ Len(SubSeq(t, 1, Len(s))) = Len(s)
        /\ \A i \in 1..Len(s) : SubSeq(t, 1, Len(s))[i] = t[i]
    BY <1>2, <1>3
  <2> QED BY <2>1, <2>2, <1>2, <1>3, SeqEqual
<1>7. ToSet(t) = ToSet(s) \cup {b}
  <2>1. ToSet(t) = {t[i] : i \in 1..(Len(s) + 1)} /\ ToSet(s) = {s[i] : i \in 1..Len(s)}
    BY <1>4 DEF ToSet
  <2>2. ASSUME NEW x \in ToSet(t) PROVE x \in ToSet(s) \cup {b}
    <3>1. PICK i \in 1..(Len(s) + 1) : x = t[i]
      BY <2>1, <2>2
    <3>2. i = Len(s) + 1 \/ i \in 1..Len(s)
      BY <3>1, <1>3
    <3>3. i \in 1..Len(s) => x = s[i]
      BY <3>1, <1>3
    <3>4. i = Len(s) + 1 => x = b
      BY <3>1, <1>3
    <3> QED BY <3>2, <3>3, <3>4, <2>1
  <2>3. ASSUME NEW x \in ToSet(s) \cup {b} PROVE x \in ToSet(t)
    BY <2>1, <1>3
  <2> QED BY <2>2, <2>3
<1> QED BY <1>1, <1>3, <1>5, <1>6, <1>7 DEF Last, Height

\* The block at place i of a branch has height i: no block is there twice.
LEMMA BranchHeights ==
    \A b \in Blocks : \A c \in ToSet(Branch[b]) : c \in Blocks \ {Genesis} /\ Height(c) <= Height(b)
<1> DEFINE OK(b) == \A c \in ToSet(Branch[b]) : c \in Blocks \ {Genesis} /\ Height(c) <= Height(b)
           S == {b \in Blocks : ~OK(b)}
<1>1. ASSUME S # {} PROVE FALSE
  <2>1. PICK b \in S : b = Genesis \/ Parent[b] \notin S
    BY <1>1, BlocksAssumption
  <2>2. CASE b = Genesis
    <3>1. ToSet(Branch[b]) = {}
      BY <2>2, BranchDef DEF ToSet
    <3> QED BY <3>1, <2>1
  <2>3. CASE b # Genesis
    <3>1. b \in Blocks \ {Genesis} /\ Parent[b] \in Blocks /\ OK(Parent[b])
      BY <2>1, <2>3, BlocksAssumption
    <3>2. Height(b) = Height(Parent[b]) + 1 /\ Height(Parent[b]) \in Nat
          /\ ToSet(Branch[b]) = ToSet(Branch[Parent[b]]) \cup {b}
      BY <3>1, BranchEnd
    <3>3. \A c \in Blocks : Height(c) \in Nat
      BY BranchDef, LenProperties DEF Height
    <3> QED BY <3>1, <3>2, <3>3, <2>1
  <2> QED BY <2>2, <2>3
<1> QED BY <1>1

\* A block is not among the blocks before it.
LEMMA NotBeforeItself ==
    ASSUME NEW b \in Blocks \ {Genesis}
    PROVE  b \notin ToSet(Branch[Parent[b]])
BY BranchEnd, BranchHeights

\* The branch of a block tells which block it is.
LEMMA BranchInjective ==
    ASSUME NEW a \in Blocks, NEW b \in Blocks, Branch[a] = Branch[b]
    PROVE  a = b
BY BranchEnd, BranchDef

\* What a branch shows of its block.
LEMMA BranchBest ==
    ASSUME NEW b \in Blocks
    PROVE  EvoBest(Branch[b]) = b
BY BranchEnd, BranchDef DEF EvoBest

\* A proper ancestor of a block is an ancestor of its parent.
LEMMA AncestorStep ==
    ASSUME NEW a \in Blocks, NEW b \in Blocks, IsAncestor(a, b), a # b
    PROVE  b # Genesis /\ IsAncestor(a, Parent[b]) /\ b \notin ToSet(Branch[a])
<1>0. Branch[a] \in Seq(Blocks) /\ Branch[b] \in Seq(Blocks) /\ Len(Branch[a]) \in Nat /\ Len(Branch[b]) \in Nat
  BY BranchDef, LenProperties
<1>1. Len(Branch[a]) <= Len(Branch[b]) /\ \A i \in 1..Len(Branch[a]) : Branch[a][i] = Branch[b][i]
  <2>1. Len(Branch[a]) <= Len(Branch[b]) /\ SubSeq(Branch[a], 1, Len(Branch[a])) = SubSeq(Branch[b], 1, Len(Branch[a]))
    BY DEF IsAncestor, IsPrefix
  <2>2. \A i \in 1..Len(Branch[a]) :
          /\ SubSeq(Branch[a], 1, Len(Branch[a]))[i] = Branch[a][i]
          /\ SubSeq(Branch[b], 1, Len(Branch[a]))[i] = Branch[b][i]
    BY <1>0, <2>1
  <2> QED BY <2>1, <2>2
<1>2. Len(Branch[a]) # Len(Branch[b])
  <2>1. ASSUME Len(Branch[a]) = Len(Branch[b]) PROVE FALSE
    <3>1. Branch[a] = Branch[b]
      BY <1>0, <1>1, <2>1, SeqEqual
    <3> QED BY <3>1, BranchInjective
  <2> QED BY <2>1
<1>3. b # Genesis
  <2>1. Len(Branch[Genesis]) = 0
    BY BranchDef
  <2> QED BY <1>0, <1>1, <1>2, <2>1
<1>4. Height(b) = Height(Parent[b]) + 1 /\ Height(Parent[b]) \in Nat /\ Parent[b] \in Blocks
      /\ \A i \in 1..Height(Parent[b]) : Branch[b][i] = Branch[Parent[b]][i]
  BY <1>3, BranchEnd
<1>5. IsAncestor(a, Parent[b])
  <2> DEFINE n == Len(Branch[a])
             s == Branch[Parent[b]]
  <2>1. s \in Seq(Blocks) /\ n <= Len(s) /\ n \in Nat
    BY <1>0, <1>1, <1>2, <1>4, BranchDef DEF Height
  <2>2. \A i \in 1..n : Branch[a][i] = s[i]
    BY <1>1, <1>4, <2>1 DEF Height
  <2>3. /\ SubSeq(Branch[a], 1, n) \in Seq(Blocks) /\ Len(SubSeq(Branch[a], 1, n)) = n
        /\ SubSeq(s, 1, n) \in Seq(Blocks) /\ Len(SubSeq(s, 1, n)) = n
        /\ \A i \in 1..n : SubSeq(Branch[a], 1, n)[i] = Branch[a][i] /\ SubSeq(s, 1, n)[i] = s[i]
    BY <1>0, <2>1
  <2>4. SubSeq(Branch[a], 1, n) = SubSeq(s, 1, n)
    BY <2>2, <2>3, SeqEqual
  <2> QED BY <2>1, <2>4 DEF IsAncestor, IsPrefix
<1>6. b \notin ToSet(Branch[a])
  BY <1>0, <1>1, <1>2, BranchHeights DEF Height
<1> QED BY <1>3, <1>5, <1>6

\* Appending the rest of a branch to the branch of an ancestor.
LEMMA BranchRest ==
    ASSUME NEW a \in Blocks, NEW b \in Blocks, IsAncestor(a, b)
    PROVE  Branch[a] \o SubSeq(Branch[b], Height(a) + 1, Height(b)) = Branch[b]
<1> DEFINE s == Branch[a]
           t == Branch[b]
<1>0. s \in Seq(Blocks) /\ t \in Seq(Blocks) /\ Len(s) \in Nat /\ Len(t) \in Nat
  BY BranchDef, LenProperties
<1>1. Len(s) <= Len(t) /\ SubSeq(s, 1, Len(s)) = SubSeq(t, 1, Len(s))
  BY DEF IsAncestor, IsPrefix
<1>2. s = SubSeq(s, 1, Len(s))
  BY <1>0, SubSeqFull
<1>3. t = SubSeq(t, 1, Len(t))
  BY <1>0, SubSeqFull
<1>4. SubSeq(t, 1, Len(s)) \o SubSeq(t, Len(s) + 1, Len(t)) = SubSeq(t, 1, Len(t))
  <2>1. 1 \in 1..(Len(t) + 1) /\ Len(s) \in (1 - 1)..Len(t) /\ Len(t) \in Len(s)..Len(t)
    BY <1>0, <1>1
  <2> HIDE DEF s, t
  <2> QED BY ONLY <1>0, <2>1, ConcatAdjacentSubSeq, Zenon
<1> QED BY <1>1, <1>2, <1>3, <1>4 DEF Height

-----------------------------------------------------------------------------
\* The coins that the blocks after old and up to new spend or create.
Touched(old, new) ==
    UNION {Spends[c] \cup Creates[c] : c \in ToSet(Branch[new]) \ ToSet(Branch[old])}

LEMMA TouchedStep ==
    ASSUME NEW a \in Blocks, NEW b \in Blocks, IsAncestor(a, b), a # b
    PROVE  Touched(a, b) = Touched(a, Parent[b]) \cup Spends[b] \cup Creates[b]
<1>1. b \in Blocks \ {Genesis} /\ b \notin ToSet(Branch[a])
  BY AncestorStep
<1>2. ToSet(Branch[b]) = ToSet(Branch[Parent[b]]) \cup {b}
  BY <1>1, BranchEnd
<1> QED BY <1>1, <1>2 DEF Touched

\* A coin that no block in between touches is a coin of both blocks or of
\* none.
LEMMA CoinsUntouched ==
    ASSUME NEW a \in Blocks, NEW x
    PROVE  \A b \in Blocks : IsAncestor(a, b) /\ x \notin Touched(a, b) =>
               (x \in CoinsOf[a] <=> x \in CoinsOf[b])
<1> DEFINE OK(b) == IsAncestor(a, b) /\ x \notin Touched(a, b) =>
                        (x \in CoinsOf[a] <=> x \in CoinsOf[b])
           S == {b \in Blocks : ~OK(b)}
<1>1. ASSUME S # {} PROVE FALSE
  <2>1. PICK b \in S : b = Genesis \/ Parent[b] \notin S
    BY <1>1, BlocksAssumption
  <2>2. b \in Blocks /\ IsAncestor(a, b) /\ x \notin Touched(a, b) /\ a # b
    BY <2>1
  <2>3. b # Genesis /\ Parent[b] \in Blocks /\ IsAncestor(a, Parent[b])
        /\ Touched(a, b) = Touched(a, Parent[b]) \cup Spends[b] \cup Creates[b]
    BY <2>2, AncestorStep, TouchedStep, BlocksAssumption
  <2>4. OK(Parent[b])
    BY <2>1, <2>3
  <2>5. x \in CoinsOf[b] <=> x \in CoinsOf[Parent[b]]
    BY <2>2, <2>3, CoinsOfDef DEF Apply
  <2> QED BY <2>1, <2>2, <2>3, <2>4, <2>5
<1> QED BY <1>1

\* Rolling forward gives every coin that a block touches its state after that
\* block, whatever it was, and leaves the others alone.
LEMMA RollforwardCoins ==
    ASSUME NEW u \in SUBSET Coins, NEW old \in Blocks, NEW new \in Blocks, IsAncestor(old, new)
    PROVE  /\ Rollforward(u, old, new) \in SUBSET Coins
           /\ \A x : x \in Rollforward(u, old, new) <=>
                        IF x \in Touched(old, new) THEN x \in CoinsOf[new] ELSE x \in u
<1> DEFINE V == SUBSET Coins
           stop == {old, Genesis}
           base == [b \in Blocks |-> u]
           step == [bv \in Blocks \X V |-> Apply(bv[2], bv[1])]
<1>1. Genesis \in stop /\ base \in [Blocks -> V] /\ step \in [Blocks \X V -> V]
  BY DEF Apply, Coins
<1>2. \A b \in Blocks, v \in V : step[<<b, v>>] = Apply(v, b)
  OBVIOUS
<1>3. PICK f \in [Blocks -> V] :
        \A b \in Blocks : f[b] = IF b \in stop THEN base[b] ELSE step[<<b, f[Parent[b]]>>]
  <2> HIDE DEF V, stop, base, step
  <2> QED BY <1>1, BlocksTree, TreeRecursion
<1>4. \A b \in Blocks : f[b] = IF b \in {old, Genesis} THEN u ELSE Apply(f[Parent[b]], b)
  BY <1>2, <1>3, BlocksAssumption
<1>5. f = [b \in Blocks |-> IF b \in {old, Genesis} THEN u ELSE Apply(f[Parent[b]], b)]
  BY <1>3, <1>4
<1>6. PICK r : /\ r = [b \in Blocks |-> IF b \in {old, Genesis} THEN u ELSE Apply(r[Parent[b]], b)]
               /\ Rollforward(u, old, new) = r[new]
  BY <1>5 DEF Rollforward
<1>7. \A b \in Blocks : r[b] = IF b \in {old, Genesis} THEN u ELSE Apply(r[Parent[b]], b)
  BY <1>6
<1> HIDE DEF V, stop, base, step
<1> DEFINE Rolled(b) == /\ r[b] \in SUBSET Coins
                        /\ \A x : x \in r[b] <=> IF x \in Touched(old, b) THEN x \in CoinsOf[b] ELSE x \in u
           S == {b \in Blocks : IsAncestor(old, b) /\ ~Rolled(b)}
<1>8. ASSUME S # {} PROVE FALSE
  <2>1. PICK b \in S : b = Genesis \/ Parent[b] \notin S
    BY <1>8, BlocksAssumption
  <2>2. b \in Blocks /\ IsAncestor(old, b) /\ ~Rolled(b)
    BY <2>1
  <2>3. CASE b = old
    <3>1. r[b] = u
      BY <2>3, <1>7
    <3>2. Touched(old, b) = {}
      BY <2>3 DEF Touched
    <3> QED BY <3>1, <3>2, <2>2
  <2>4. CASE b # old
    <3>1. b # Genesis /\ Parent[b] \in Blocks /\ IsAncestor(old, Parent[b])
          /\ Touched(old, b) = Touched(old, Parent[b]) \cup Spends[b] \cup Creates[b]
      BY <2>2, <2>4, AncestorStep, TouchedStep, BlocksAssumption
    <3>2. Rolled(Parent[b])
      BY <2>1, <3>1
    <3>3. r[b] = Apply(r[Parent[b]], b) /\ CoinsOf[b] = Apply(CoinsOf[Parent[b]], b)
      BY <2>2, <2>4, <3>1, <1>7, CoinsOfDef
    <3>4. r[b] \in SUBSET Coins
      BY <2>2, <3>2, <3>3 DEF Apply, Coins
    <3>5. \A x : x \in r[b] <=> IF x \in Touched(old, b) THEN x \in CoinsOf[b] ELSE x \in u
      BY <3>1, <3>2, <3>3 DEF Apply
    <3> QED BY <3>4, <3>5, <2>2
  <2> QED BY <2>3, <2>4
<1>9. Rolled(new)
  BY <1>8
<1> QED BY <1>6, <1>9

\* Coins of which every untouched one is as in the new block are rolled forward
\* to the coins of the new block.
LEMMA RollforwardRestores ==
    ASSUME NEW u \in SUBSET Coins, NEW old \in Blocks, NEW new \in Blocks, IsAncestor(old, new),
           \A x : x \notin Touched(old, new) => (x \in u <=> x \in CoinsOf[new])
    PROVE  Rollforward(u, old, new) = CoinsOf[new]
<1>1. \A x : x \in Rollforward(u, old, new) <=> x \in CoinsOf[new]
  BY RollforwardCoins
<1>2. Rollforward(u, old, new) \in SUBSET Coins /\ CoinsOf[new] \in SUBSET Coins
  BY RollforwardCoins, CoinsOfDef
<1> QED BY <1>1, <1>2

-----------------------------------------------------------------------------
(***************************************************************************)
(* The inductive invariant, in four parts.                                 *)
(***************************************************************************)
Alive == phase \in {"running", "coins", "evo", "betting"}

PTypeOK ==
    /\ mem \in [index : SUBSET Blocks, tip : Blocks, utxo : SUBSET Coins, evo : Seq(Blocks),
                bets : [Databases -> SUBSET Blocks], lastHeight : Nat]
    /\ disk \in [index : SUBSET Blocks, coins : SUBSET Coins, best : Blocks \cup {NoBlock},
                 heads : {<<>>} \cup (Blocks \X Blocks), evo : Seq(Blocks),
                 bets : [Databases -> SUBSET Blocks], lastHeight : Nat]
    /\ phase \in {"running", "coins", "evo", "betting", "down", "stopped"}
    /\ batch \in {<<>>} \cup (Blocks \X Blocks)
    /\ replayed \in BOOLEAN /\ cut \in BOOLEAN
    /\ todo \in Nat
    /\ phase = "betting" => todo \in 1..Len(FlushOrder)

\* An index has the parents of its blocks.
HoldsParents(index) == \A b \in index \ {Genesis} : Parent[b] \in index

\* The marker of an interrupted flush is there exactly while the best block is
\* not; the blocks named are in the index on disk, and the index in memory is
\* never behind that.
IndexInv ==
    /\ CoinsWithinIndex
    /\ disk.best = NoBlock <=> disk.heads # <<>>
    /\ HoldsParents(disk.index)
    /\ Alive => disk.index \subseteq mem.index /\ mem.tip \in mem.index /\ HoldsParents(mem.index)
    /\ phase \in {"running", "evo", "betting"} => disk.best # NoBlock
    /\ phase = "coins" => /\ mem.tip \in disk.index
                          /\ batch = <<mem.tip, OldTip>>
                          /\ disk.best = NoBlock => disk.heads[1] = mem.tip
    /\ phase \in {"evo", "betting"} => disk.best = mem.tip

\* The blocks up to b were connected to coins that had what they spend and not
\* what they create.
Sound(b) ==
    \A c \in ToSet(Branch[b]) :
        Spends[c] \subseteq CoinsOf[Parent[c]] /\ Creates[c] \cap CoinsOf[Parent[c]] = {}

\* While a flush is interrupted, a coin that the blocks from the old to the new
\* tip do not touch is as in both of them; one that they touch may be anything.
CoinsInv ==
    /\ Alive => mem.utxo = CoinsOf[mem.tip] /\ Sound(mem.tip)
    /\ disk.best # NoBlock => disk.coins = CoinsOf[disk.best] /\ Sound(disk.best)
    /\ disk.best = NoBlock =>
          /\ Sound(disk.heads[1])
          /\ IsAncestor(disk.heads[2], disk.heads[1]) =>
                \A x \in Coins : x \notin Touched(disk.heads[2], disk.heads[1]) =>
                       (x \in disk.coins <=> x \in CoinsOf[disk.heads[1]])

\* An evo log is the branch of some block.  Where that is not the tip the tip
\* cannot move, and no flush goes from one block to another.
EvoInv ==
    /\ Alive => EvoBest(mem.evo) \in Blocks /\ mem.evo = Branch[EvoBest(mem.evo)]
    /\ EvoBest(disk.evo) \in Blocks /\ disk.evo = Branch[EvoBest(disk.evo)]
    /\ disk.best = NoBlock =>
          EvoBest(disk.evo) = disk.heads[2] \/ disk.heads[1] = disk.heads[2]
    /\ Alive /\ EvoBest(mem.evo) # mem.tip => OldTip = mem.tip
    /\ Alive /\ phase # "evo" /\ disk.best # NoBlock /\ EvoBest(mem.evo) = mem.tip =>
          EvoBest(disk.evo) = disk.best

\* As long as no crash has hit the dangerous part of a flush, memory is complete,
\* and so is the disk outside that part; during it, what has been flushed
\* agrees with memory.
DiskWhole ==
    /\ disk.best # NoBlock
    /\ EvoBest(disk.evo) = disk.best
    /\ disk.lastHeight = Height(disk.best)
    /\ \A d \in Databases : disk.bets[d] = ToSet(Branch[disk.best])

HarmlessInv ==
    ~cut =>
        /\ why = "none" /\ ~replayed
        /\ Alive => /\ EvoBest(mem.evo) = mem.tip
                    /\ mem.lastHeight = Height(mem.tip)
                    /\ \A d \in Databases : Complete(d)
        /\ phase \in {"running", "down"} \/ (phase = "coins" /\ disk.best # NoBlock) => DiskWhole
        /\ phase = "betting" =>
              /\ disk.evo = mem.evo
              /\ \A i \in 1..(todo - 1) :
                    /\ disk.bets[FlushOrder[i]] = mem.bets[FlushOrder[i]]
                    /\ FlushOrder[i] = "undos" => disk.lastHeight = mem.lastHeight

IInv == PTypeOK /\ IndexInv /\ CoinsInv /\ EvoInv /\ HarmlessInv

\* The initial state.
LEMMA IInvInit == Init => IInv
<1> SUFFICES ASSUME Init PROVE IInv
  OBVIOUS
<1> USE DEF Init
<1>0. Genesis \in Blocks /\ Genesis # NoBlock /\ Branch[Genesis] = <<>> /\ Height(Genesis) = 0
      /\ ToSet(Branch[Genesis]) = {} /\ EvoBest(<<>>) = Genesis /\ CoinsOf[Genesis] = {}
  BY BlocksAssumption, BranchDef, CoinsOfDef DEF Height, ToSet, EvoBest
<1>1. PTypeOK
  <2>1. <<>> \in Seq(Blocks) /\ 0 \in Nat /\ [d \in Databases |-> {}] \in [Databases -> SUBSET Blocks]
    OBVIOUS
  <2>2. mem \in [index : SUBSET Blocks, tip : Blocks, utxo : SUBSET Coins, evo : Seq(Blocks),
                 bets : [Databases -> SUBSET Blocks], lastHeight : Nat]
    BY <1>0, <2>1
  <2>3. disk \in [index : SUBSET Blocks, coins : SUBSET Coins, best : Blocks \cup {NoBlock},
                  heads : {<<>>} \cup (Blocks \X Blocks), evo : Seq(Blocks),
                  bets : [Databases -> SUBSET Blocks], lastHeight : Nat]
    BY <1>0, <2>1, Zenon
  <2> QED BY <2>2, <2>3 DEF PTypeOK
<1>2. IndexInv
  BY <1>0 DEF IndexInv, HoldsParents, CoinsWithinIndex, Alive
<1>3. CoinsInv
  BY <1>0 DEF CoinsInv, Sound, Alive
<1>4. EvoInv
  BY <1>0 DEF EvoInv, Alive, OldTip
<1>5. HarmlessInv
  BY <1>0 DEF HarmlessInv, Alive, DiskWhole, Complete
<1> QED BY <1>1, <1>2, <1>3, <1>4, <1>5 DEF IInv

\* The node moves its tip only where the evo log is the branch of the tip.
LEMMA ConnectFacts ==
    ASSUME IInv, NEW b \in Blocks \ {Genesis}, ConnectTip(b), phase' # "stopped"
    PROVE  /\ mem.evo = Branch[mem.tip] /\ mem' = [mem EXCEPT !.tip = b,
                                    !.utxo = Apply(mem.utxo, b),
                                    !.evo = Branch[b],
                                    !.bets = [d \in Databases |-> mem.bets[d] \cup {b}],
                                    !.lastHeight = Height(b)]
           /\ EvoBest(mem.evo) = mem.tip /\ EvoBest(Branch[b]) = b
           /\ phase = "running" /\ Parent[b] = mem.tip /\ b \in mem.index
           /\ UNCHANGED <<disk, phase, batch, replayed, todo, why, cut, crashes>>
<1>1. phase = "running" /\ Parent[b] = mem.tip /\ b \in mem.index
  BY DEF ConnectTip
<1>2. /\ EvoBest(mem.evo) = mem.tip /\ mem.lastHeight = Height(mem.tip)
      /\ mem' = [mem EXCEPT !.tip = b,
                            !.utxo = Apply(@, b),
                            !.evo = Append(@, b),
                            !.bets = [d \in Databases |-> @[d] \cup {b}],
                            !.lastHeight = Height(b)]
      /\ UNCHANGED <<disk, phase, batch, replayed, todo, why, cut, crashes>>
  BY DEF ConnectTip, Stop
<1>3. mem.evo = Branch[mem.tip] /\ Branch[b] = Append(mem.evo, b)
  BY <1>1, <1>2, BranchDef DEF IInv, EvoInv, Alive
<1>4. EvoBest(Branch[b]) = b
  BY BranchBest
<1> QED BY <1>1, <1>2, <1>3, <1>4

LEMMA DisconnectFacts ==
    ASSUME IInv, DisconnectTip, phase' # "stopped"
    PROVE  /\ mem.evo = Branch[mem.tip] /\ mem' = [mem EXCEPT !.tip = Parent[mem.tip],
                                    !.utxo = Unapply(mem.utxo, mem.tip),
                                    !.evo = Branch[Parent[mem.tip]],
                                    !.bets = [d \in Databases |-> mem.bets[d] \ {mem.tip}],
                                    !.lastHeight = Height(Parent[mem.tip])]
           /\ EvoBest(mem.evo) = mem.tip
           /\ EvoBest(Branch[Parent[mem.tip]]) = Parent[mem.tip]
           /\ phase = "running" /\ mem.tip \in Blocks \ {Genesis} /\ Parent[mem.tip] \in Blocks
           /\ UNCHANGED <<disk, phase, batch, replayed, todo, why, cut, crashes>>
<1>1. phase = "running" /\ mem.tip \in Blocks \ {Genesis} /\ Parent[mem.tip] \in Blocks
  BY BlocksAssumption DEF DisconnectTip, IInv, PTypeOK
<1>2. /\ EvoBest(mem.evo) = mem.tip
      /\ mem' = [mem EXCEPT !.tip = Parent[mem.tip],
                            !.utxo = Unapply(@, mem.tip),
                            !.evo = Front(@),
                            !.bets = [d \in Databases |-> @[d] \ {mem.tip}],
                            !.lastHeight = Height(Parent[mem.tip])]
      /\ UNCHANGED <<disk, phase, batch, replayed, todo, why, cut, crashes>>
  BY DEF DisconnectTip, Stop
<1>3. mem.evo = Branch[mem.tip] /\ Front(mem.evo) = Branch[Parent[mem.tip]]
  BY <1>1, <1>2, BranchEnd DEF IInv, EvoInv, Alive
<1>4. EvoBest(Branch[Parent[mem.tip]]) = Parent[mem.tip]
  BY <1>1, BranchBest
<1> QED BY <1>1, <1>2, <1>3, <1>4

\* The replay ends with the coins of the new tip, and with its evo log unless
\* the log was behind before.
LEMMA ReplayFacts ==
    ASSUME IInv, ReplayBlocks, phase' # "stopped"
    PROVE  LET new == disk.heads[1]
               old == disk.heads[2]
           IN  /\ phase = "down" /\ disk.best = NoBlock /\ disk.heads = <<new, old>>
               /\ new \in Blocks /\ old \in Blocks /\ new \in disk.index
               /\ phase' = "coins" /\ batch' = <<new, old>> /\ replayed' = TRUE
               /\ mem'.index = disk.index /\ mem'.tip = new /\ mem'.utxo = CoinsOf[new]
               /\ mem'.bets = disk.bets /\ mem'.lastHeight = Height(new)
               /\ mem'.evo = IF old = new THEN disk.evo ELSE Branch[new]
               /\ mem' \in [index : SUBSET Blocks, tip : Blocks, utxo : SUBSET Coins,
                            evo : Seq(Blocks), bets : [Databases -> SUBSET Blocks],
                            lastHeight : Nat]
               /\ UNCHANGED <<disk, todo, why, cut, crashes>>
<1> DEFINE new == disk.heads[1]
           old == disk.heads[2]
<1>1. phase = "down" /\ disk.heads # <<>> /\ disk.best = NoBlock
  BY DEF ReplayBlocks, IInv, IndexInv
<1>2. disk.heads = <<new, old>> /\ new \in Blocks /\ old \in Blocks
  BY <1>1 DEF IInv, PTypeOK
<1>3. /\ new \in disk.index /\ IsAncestor(old, new)
      /\ mem' = Loaded(new, Rollforward(disk.coins, old, new),
                       disk.evo \o SubSeq(Branch[new], Height(old) + 1, Height(new)),
                       Height(new))
      /\ StartBatch(new) /\ replayed' = TRUE
      /\ UNCHANGED <<disk, todo, why, cut, crashes>>
  BY DEF ReplayBlocks, Stop
<1>4. Rollforward(disk.coins, old, new) = CoinsOf[new]
  <2>1. disk.coins \in SUBSET Coins /\ CoinsOf[new] \in SUBSET Coins
    BY <1>2, CoinsOfDef DEF IInv, PTypeOK
  <2>2. \A x : x \notin Touched(old, new) => (x \in disk.coins <=> x \in CoinsOf[new])
    BY <1>1, <1>2, <1>3, <2>1 DEF IInv, CoinsInv
  <2> QED BY <1>2, <1>3, <2>1, <2>2, RollforwardRestores
<1>5. disk.evo \o SubSeq(Branch[new], Height(old) + 1, Height(new)) = IF old = new THEN disk.evo ELSE Branch[new]
  <2>1. CASE EvoBest(disk.evo) = old
    BY <1>2, <1>3, <2>1, BranchRest DEF IInv, EvoInv
  <2>2. CASE old = new
    <3>1. Branch[new] \in Seq(Blocks) /\ Height(new) \in Nat
      BY <1>2, BranchDef, LenProperties DEF Height
    <3>2. SubSeq(Branch[new], Height(new) + 1, Height(new)) = <<>>
      BY <3>1, SubSeqEmpty
    <3>3. disk.evo \in Seq(Blocks)
      BY DEF IInv, PTypeOK
    <3> QED BY <2>2, <3>2, <3>3, ConcatEmptySeq
  <2> QED BY <1>1, <2>1, <2>2 DEF IInv, EvoInv
<1>6. Branch[new] \in Seq(Blocks) /\ Height(new) \in Nat /\ CoinsOf[new] \in SUBSET Coins
  BY <1>2, BranchDef, CoinsOfDef, LenProperties DEF Height
<1>7. batch' = <<new, old>> /\ phase' = "coins"
  BY <1>1, <1>3 DEF StartBatch, OldTip
<1>8. mem' = [index |-> disk.index, tip |-> new, utxo |-> CoinsOf[new],
              evo |-> IF old = new THEN disk.evo ELSE Branch[new],
              bets |-> disk.bets, lastHeight |-> Height(new)]
  BY <1>3, <1>4, <1>5 DEF Loaded
<1>9. mem' \in [index : SUBSET Blocks, tip : Blocks, utxo : SUBSET Coins,
                evo : Seq(Blocks), bets : [Databases -> SUBSET Blocks], lastHeight : Nat]
  BY <1>2, <1>6, <1>8 DEF IInv, PTypeOK
<1> QED BY <1>1, <1>2, <1>3, <1>7, <1>8, <1>9

-----------------------------------------------------------------------------
\* A node that stops leaves everything as it is; it stops over an evo database,
\* a height, an undo or a fork only after a crash in a flush.
LEMMA StopKeeps ==
    ASSUME IInv, NEW reason, reason \notin {"unknown", "assert"}, cut, Stop(reason)
    PROVE  IInv'
BY DEF IInv, PTypeOK, IndexInv, HoldsParents, CoinsWithinIndex, CoinsInv, EvoInv, HarmlessInv, Alive, OldTip,
       Sound, DiskWhole, Stop

LEMMA AcceptKeeps ==
    ASSUME IInv, NEW b \in Blocks, AcceptBlock(b)
    PROVE  IInv'
<1>1. /\ mem' = [mem EXCEPT !.index = @ \cup {b}]
      /\ Parent[b] \in mem.index
      /\ UNCHANGED <<disk, phase, batch, replayed, todo, why, cut>>
  BY DEF AcceptBlock
<1>2. PTypeOK'
  BY <1>1 DEF IInv, PTypeOK
<1>3. /\ mem'.index = mem.index \cup {b} /\ mem'.tip = mem.tip /\ mem'.utxo = mem.utxo
      /\ mem'.evo = mem.evo /\ mem'.bets = mem.bets /\ mem'.lastHeight = mem.lastHeight
  BY <1>1 DEF IInv, PTypeOK
<1>4. IndexInv'
  BY <1>1, <1>3 DEF IInv, IndexInv, HoldsParents, CoinsWithinIndex, Alive, OldTip
<1>5. CoinsInv'
  BY <1>1, <1>3 DEF IInv, CoinsInv, Alive, Sound
<1>6. EvoInv'
  BY <1>1, <1>3 DEF IInv, EvoInv, Alive, OldTip
<1>7. HarmlessInv'
  BY <1>1, <1>3 DEF IInv, HarmlessInv, Alive, DiskWhole, Complete
<1> QED BY <1>2, <1>4, <1>5, <1>6, <1>7 DEF IInv

LEMMA ConnectKeeps ==
    ASSUME IInv, NEW b \in Blocks \ {Genesis}, ConnectTip(b), phase' # "stopped"
    PROVE  IInv'
<1>1. /\ EvoBest(mem.evo) = mem.tip /\ EvoBest(Branch[b]) = b
      /\ phase = "running" /\ Parent[b] = mem.tip /\ b \in mem.index
      /\ UNCHANGED <<disk, phase, batch, replayed, todo, why, cut>>
  BY ConnectFacts
<1>2. /\ mem'.index = mem.index /\ mem'.tip = b /\ mem'.utxo = Apply(mem.utxo, b)
      /\ mem'.evo = Branch[b] /\ mem'.bets = [d \in Databases |-> mem.bets[d] \cup {b}]
      /\ mem'.lastHeight = Height(b)
  <2>1. mem \in [index : SUBSET Blocks, tip : Blocks, utxo : SUBSET Coins, evo : Seq(Blocks),
                 bets : [Databases -> SUBSET Blocks], lastHeight : Nat]
    BY DEF IInv, PTypeOK
  <2>2. mem' = [mem EXCEPT !.tip = b, !.utxo = Apply(mem.utxo, b), !.evo = Branch[b],
                           !.bets = [d \in Databases |-> mem.bets[d] \cup {b}],
                           !.lastHeight = Height(b)]
    BY ConnectFacts
  <2> QED BY <2>1, <2>2
<1>3. /\ Branch[b] \in Seq(Blocks) /\ Height(b) \in Nat /\ mem'.utxo = CoinsOf[b]
      /\ ToSet(Branch[b]) = ToSet(Branch[mem.tip]) \cup {b} /\ CoinsOf[b] \in SUBSET Coins
  BY <1>1, <1>2, BranchDef, CoinsOfDef, LenProperties, BranchEnd DEF Height, IInv, CoinsInv, Alive
<1>4. PTypeOK'
  <2>1. mem' = [mem EXCEPT !.tip = b, !.utxo = Apply(mem.utxo, b), !.evo = Branch[b],
                           !.bets = [d \in Databases |-> mem.bets[d] \cup {b}],
                           !.lastHeight = Height(b)]
    BY ConnectFacts
  <2>2. Apply(mem.utxo, b) \in SUBSET Coins
    BY <1>2, <1>3
  <2>3. mem' \in [index : SUBSET Blocks, tip : Blocks, utxo : SUBSET Coins, evo : Seq(Blocks),
                  bets : [Databases -> SUBSET Blocks], lastHeight : Nat]
    BY <2>1, <2>2, <1>3 DEF IInv, PTypeOK
  <2> QED BY <2>3, <1>1 DEF IInv, PTypeOK
<1>5. IndexInv'
  BY <1>1, <1>2 DEF IInv, IndexInv, HoldsParents, CoinsWithinIndex, Alive, OldTip
<1>6. CoinsInv'
  <2>1. Spends[b] \subseteq CoinsOf[Parent[b]] /\ Creates[b] \cap CoinsOf[Parent[b]] = {}
    BY <1>1 DEF ConnectTip, IInv, CoinsInv, Alive
  <2>2. Sound(b)
    BY <1>1, <1>3, <2>1 DEF Sound, IInv, CoinsInv, Alive
  <2> QED BY <1>1, <1>2, <1>3, <2>2 DEF IInv, CoinsInv, Alive, Sound
<1>7. EvoInv'
  BY <1>1, <1>2 DEF IInv, EvoInv, Alive, OldTip
<1>8. HarmlessInv'
  <2>1. \A d \in Databases : mem'.bets[d] = mem.bets[d] \cup {b}
    BY <1>2
  <2> QED BY <1>1, <1>2, <1>3, <2>1 DEF IInv, HarmlessInv, Alive, DiskWhole, Complete
<1> QED BY <1>4, <1>5, <1>6, <1>7, <1>8 DEF IInv

LEMMA DisconnectKeeps ==
    ASSUME IInv, DisconnectTip, phase' # "stopped"
    PROVE  IInv'
<1> DEFINE p == Parent[mem.tip]
<1>1. /\ EvoBest(mem.evo) = mem.tip /\ EvoBest(Branch[p]) = p
      /\ phase = "running" /\ mem.tip \in Blocks \ {Genesis} /\ p \in Blocks
      /\ UNCHANGED <<disk, phase, batch, replayed, todo, why, cut>>
  BY DisconnectFacts
<1>2. /\ mem'.index = mem.index /\ mem'.tip = p /\ mem'.utxo = Unapply(mem.utxo, mem.tip)
      /\ mem'.evo = Branch[p] /\ mem'.bets = [d \in Databases |-> mem.bets[d] \ {mem.tip}]
      /\ mem'.lastHeight = Height(p)
  BY DisconnectFacts DEF IInv, PTypeOK
<1>3. /\ Branch[p] \in Seq(Blocks) /\ Height(p) \in Nat
      /\ ToSet(Branch[mem.tip]) = ToSet(Branch[p]) \cup {mem.tip}
      /\ mem.tip \notin ToSet(Branch[p]) /\ CoinsOf[p] \in SUBSET Coins
      /\ CoinsOf[mem.tip] = Apply(CoinsOf[p], mem.tip)
  BY <1>1, BranchDef, CoinsOfDef, LenProperties, BranchEnd, NotBeforeItself DEF Height
<1>4. mem'.utxo = CoinsOf[p]
  <2>1. Spends[mem.tip] \subseteq CoinsOf[p] /\ Creates[mem.tip] \cap CoinsOf[p] = {}
        /\ mem.utxo = CoinsOf[mem.tip]
    BY <1>1, <1>3 DEF IInv, CoinsInv, Sound, Alive
  <2> QED BY <2>1, <1>2, <1>3 DEF Apply, Unapply
<1>5. PTypeOK'
  <2>1. mem' = [mem EXCEPT !.tip = Parent[mem.tip], !.utxo = Unapply(mem.utxo, mem.tip),
                           !.evo = Branch[Parent[mem.tip]],
                           !.bets = [d \in Databases |-> mem.bets[d] \ {mem.tip}],
                           !.lastHeight = Height(Parent[mem.tip])]
    BY DisconnectFacts
  <2>2. Unapply(mem.utxo, mem.tip) \in SUBSET Coins
    BY <1>2, <1>3, <1>4
  <2>3. mem' \in [index : SUBSET Blocks, tip : Blocks, utxo : SUBSET Coins, evo : Seq(Blocks),
                  bets : [Databases -> SUBSET Blocks], lastHeight : Nat]
    BY <2>1, <2>2, <1>1, <1>3 DEF IInv, PTypeOK
  <2> QED BY <2>3, <1>1 DEF IInv, PTypeOK
<1>6. IndexInv'
  <2>1. p \in mem.index
    BY <1>1 DEF IInv, IndexInv, Alive, HoldsParents
  <2> QED BY <1>1, <1>2, <2>1 DEF IInv, IndexInv, HoldsParents, CoinsWithinIndex, Alive, OldTip
<1>7. CoinsInv'
  BY <1>1, <1>2, <1>3, <1>4 DEF IInv, CoinsInv, Alive, Sound
<1>8. EvoInv'
  BY <1>1, <1>2 DEF IInv, EvoInv, Alive, OldTip
<1>9. HarmlessInv'
  <2>1. \A d \in Databases : mem'.bets[d] = mem.bets[d] \ {mem.tip}
    BY <1>2
  <2> QED BY <1>1, <1>2, <1>3, <2>1 DEF IInv, HarmlessInv, Alive, DiskWhole, Complete
<1> QED BY <1>5, <1>6, <1>7, <1>8, <1>9 DEF IInv

\* Writing the index, alone or before the coins.
LEMMA IndexWritten ==
    ASSUME IInv, phase = "running", disk' = [disk EXCEPT !.index = mem.index],
           UNCHANGED <<mem, replayed, todo, why, cut>>,
           \/ UNCHANGED <<phase, batch>>
           \/ phase' = "coins" /\ batch' = <<mem.tip, OldTip>>
    PROVE  IInv'
<1>1. /\ disk'.index = mem.index /\ disk'.coins = disk.coins /\ disk'.best = disk.best
      /\ disk'.heads = disk.heads /\ disk'.evo = disk.evo /\ disk'.bets = disk.bets
      /\ disk'.lastHeight = disk.lastHeight
  BY DEF IInv, PTypeOK
<1>2. mem.tip \in Blocks /\ disk.best \in Blocks /\ OldTip = disk.best /\ disk.heads = <<>>
  BY DEF IInv, PTypeOK, IndexInv, OldTip
<1>3. PTypeOK'
  <2>1. batch' \in {<<>>} \cup (Blocks \X Blocks)
    BY <1>2 DEF IInv, PTypeOK
  <2>2. disk' \in [index : SUBSET Blocks, coins : SUBSET Coins, best : Blocks \cup {NoBlock},
                   heads : {<<>>} \cup (Blocks \X Blocks), evo : Seq(Blocks),
                   bets : [Databases -> SUBSET Blocks], lastHeight : Nat]
    BY DEF IInv, PTypeOK
  <2> QED BY <2>1, <2>2 DEF IInv, PTypeOK
<1>4. IndexInv'
  BY <1>1, <1>2 DEF IInv, IndexInv, HoldsParents, CoinsWithinIndex, Alive, OldTip
<1>5. CoinsInv'
  BY <1>1, <1>2 DEF IInv, IndexInv, CoinsInv, Alive, Sound
<1>6. EvoInv'
  BY <1>1 DEF IInv, IndexInv, EvoInv, Alive, OldTip
<1>7. HarmlessInv'
  BY <1>1 DEF IInv, HarmlessInv, Alive, DiskWhole, Complete
<1> QED BY <1>3, <1>4, <1>5, <1>6, <1>7 DEF IInv

LEMMA PartialBatchKeeps ==
    ASSUME IInv, NEW S \in SUBSET Differing, WritePartialBatch(S)
    PROVE  IInv'
<1> DEFINE new == mem.tip
           old == OldTip
<1>1. /\ phase = "coins" /\ batch = <<new, old>>
      /\ disk' = [disk EXCEPT !.best = NoBlock, !.heads = batch, !.coins = WriteCoins(S)]
      /\ UNCHANGED <<mem, phase, batch, replayed, todo, why, cut>>
  BY DEF WritePartialBatch, IInv, IndexInv
<1>2. /\ new \in Blocks /\ old \in Blocks /\ new \in disk.index /\ old \in disk.index
      /\ disk.best = NoBlock => disk.heads = <<new, old>>
  <2>1. CASE disk.best # NoBlock
    BY <1>1, <2>1 DEF IInv, PTypeOK, IndexInv, CoinsWithinIndex, OldTip
  <2>2. CASE disk.best = NoBlock
    <3>1. disk.heads \in Blocks \X Blocks
      BY <2>2 DEF IInv, PTypeOK, IndexInv
    <3>2. DOMAIN disk.heads = {1, 2} /\ disk.heads = <<disk.heads[1], disk.heads[2]>>
          /\ disk.heads[1] \in Blocks /\ disk.heads[2] \in Blocks
      BY <3>1
    <3> QED BY <1>1, <2>2, <3>2 DEF IInv, IndexInv, CoinsWithinIndex, OldTip
  <2> QED BY <2>1, <2>2
<1>3. /\ disk'.index = disk.index /\ disk'.coins = WriteCoins(S) /\ disk'.best = NoBlock
      /\ disk'.heads = <<new, old>> /\ disk'.evo = disk.evo /\ disk'.bets = disk.bets
      /\ disk'.lastHeight = disk.lastHeight
  BY <1>1 DEF IInv, PTypeOK
<1>4. OldTip' = old /\ disk'.heads[1] = new /\ disk'.heads[2] = old /\ DOMAIN disk'.heads = {1, 2}
  BY <1>3 DEF OldTip
<1>5. WriteCoins(S) \in SUBSET Coins
  BY DEF WriteCoins, IInv, PTypeOK
<1>6. PTypeOK'
  <2>1. disk' \in [index : SUBSET Blocks, coins : SUBSET Coins, best : Blocks \cup {NoBlock},
                   heads : {<<>>} \cup (Blocks \X Blocks), evo : Seq(Blocks),
                   bets : [Databases -> SUBSET Blocks], lastHeight : Nat]
    BY <1>1, <1>2, <1>5 DEF IInv, PTypeOK
  <2> QED BY <1>1, <2>1 DEF IInv, PTypeOK
<1>7. IndexInv'
  <2>1. disk'.heads # <<>>
    BY <1>3
  <2>2. \A i \in DOMAIN disk'.heads : disk'.heads[i] \in disk'.index
    BY <1>2, <1>3, <1>4
  <2> QED BY <1>1, <1>2, <1>3, <1>4, <2>1, <2>2
          DEF IInv, IndexInv, HoldsParents, CoinsWithinIndex, Alive
<1>8. CoinsInv'
  <2>0. mem.utxo = CoinsOf[new] /\ Sound(new)
    BY <1>1 DEF IInv, CoinsInv, Alive
  <2>1. ASSUME IsAncestor(old, new), NEW x \in Coins, x \notin Touched(old, new)
        PROVE  x \in WriteCoins(S) <=> x \in CoinsOf[new]
    <3>1. x \in disk.coins <=> x \in CoinsOf[new]
      <4>1. CASE disk.best = NoBlock
        BY <1>2, <2>1, <4>1 DEF IInv, CoinsInv
      <4>2. CASE disk.best # NoBlock
        <5>1. disk.coins = CoinsOf[old]
          BY <4>2 DEF IInv, CoinsInv, OldTip
        <5> QED BY <1>2, <2>1, <5>1, CoinsUntouched
      <4> QED BY <4>1, <4>2
    <3> QED BY <2>0, <3>1 DEF WriteCoins
  <2>2. Sound(new)'
    BY <2>0, <1>1 DEF Sound
  <2> QED BY <1>1, <1>3, <1>4, <2>0, <2>1, <2>2 DEF CoinsInv, Alive, Sound
<1>9. EvoInv'
  <2>1. EvoBest(disk.evo) = old \/ new = old
    <3>1. CASE disk.best = NoBlock
      BY <1>2, <3>1 DEF IInv, EvoInv
    <3>2. CASE disk.best # NoBlock
      BY <1>1, <3>2 DEF IInv, EvoInv, Alive, OldTip
    <3> QED BY <3>1, <3>2
  <2> QED BY <1>1, <1>3, <1>4, <2>1 DEF IInv, EvoInv, Alive
<1>10. HarmlessInv'
  BY <1>1, <1>3 DEF IInv, HarmlessInv, Alive, Complete
<1> QED BY <1>6, <1>7, <1>8, <1>9, <1>10 DEF IInv

LEMMA FinalBatchKeeps ==
    ASSUME IInv, WriteFinalBatch
    PROVE  IInv'
<1>1. /\ phase = "coins" /\ batch[1] = mem.tip /\ mem.tip \in disk.index /\ mem.tip \in Blocks
      /\ disk' = [disk EXCEPT !.best = batch[1], !.heads = <<>>, !.coins = WriteCoins(Differing)]
      /\ phase' = "evo" /\ batch' = <<>>
      /\ UNCHANGED <<mem, replayed, todo, why, cut>>
  BY DEF WriteFinalBatch, IInv, IndexInv, PTypeOK
<1>2. WriteCoins(Differing) = mem.utxo
  BY DEF WriteCoins, Differing
<1>3. /\ disk'.index = disk.index /\ disk'.coins = mem.utxo /\ disk'.best = mem.tip
      /\ disk'.heads = <<>> /\ disk'.evo = disk.evo /\ disk'.bets = disk.bets
      /\ disk'.lastHeight = disk.lastHeight
  BY <1>1, <1>2 DEF IInv, PTypeOK
<1>4. mem.tip # NoBlock
  BY <1>1, BlocksAssumption
<1>5. PTypeOK'
  <2>1. disk' \in [index : SUBSET Blocks, coins : SUBSET Coins, best : Blocks \cup {NoBlock},
                   heads : {<<>>} \cup (Blocks \X Blocks), evo : Seq(Blocks),
                   bets : [Databases -> SUBSET Blocks], lastHeight : Nat]
    BY <1>1, <1>2 DEF IInv, PTypeOK
  <2> QED BY <1>1, <2>1 DEF IInv, PTypeOK
<1>6. IndexInv'
  BY <1>1, <1>3, <1>4 DEF IInv, IndexInv, HoldsParents, CoinsWithinIndex, Alive
<1>7. CoinsInv'
  BY <1>1, <1>3, <1>4 DEF IInv, CoinsInv, Alive, Sound
<1>8. EvoInv'
  BY <1>1, <1>3, <1>4 DEF IInv, EvoInv, Alive, OldTip
<1>9. HarmlessInv'
  BY <1>1, <1>3 DEF IInv, HarmlessInv, Alive, Complete
<1> QED BY <1>5, <1>6, <1>7, <1>8, <1>9 DEF IInv

LEMMA CommitEvoKeeps ==
    ASSUME IInv, CommitEvo
    PROVE  IInv'
<1>1. /\ phase = "evo" /\ disk' = [disk EXCEPT !.evo = mem.evo]
      /\ phase' = IF replayed THEN "running" ELSE "betting"
      /\ replayed' = FALSE /\ todo' = IF replayed THEN 0 ELSE 1
      /\ UNCHANGED <<mem, batch, why, cut>>
  BY DEF CommitEvo
<1>2. /\ disk'.index = disk.index /\ disk'.coins = disk.coins /\ disk'.best = disk.best
      /\ disk'.heads = disk.heads /\ disk'.evo = mem.evo /\ disk'.bets = disk.bets
      /\ disk'.lastHeight = disk.lastHeight
  BY <1>1 DEF IInv, PTypeOK
<1>3. disk.best = mem.tip /\ disk.best # NoBlock
  BY <1>1 DEF IInv, IndexInv
<1>4. PTypeOK'
  <2>1. disk' \in [index : SUBSET Blocks, coins : SUBSET Coins, best : Blocks \cup {NoBlock},
                   heads : {<<>>} \cup (Blocks \X Blocks), evo : Seq(Blocks),
                   bets : [Databases -> SUBSET Blocks], lastHeight : Nat]
    BY <1>1 DEF IInv, PTypeOK
  <2>2. 1 \in 1..Len(FlushOrder)
    BY OrderAssumption, LenProperties
  <2> QED BY <1>1, <2>1, <2>2 DEF IInv, PTypeOK
<1>5. IndexInv'
  BY <1>1, <1>2 DEF IInv, IndexInv, HoldsParents, CoinsWithinIndex, Alive
<1>6. CoinsInv'
  BY <1>1, <1>2, <1>3 DEF IInv, CoinsInv, Alive, Sound
<1>7. EvoInv'
  BY <1>1, <1>2, <1>3 DEF IInv, EvoInv, Alive, OldTip
<1>8. HarmlessInv'
  <2>1. ~cut => todo' = 1 /\ phase' = "betting"
    BY <1>1 DEF IInv, HarmlessInv
  <2> QED BY <1>1, <1>2, <2>1 DEF IInv, HarmlessInv, Alive, Complete
<1> QED BY <1>4, <1>5, <1>6, <1>7, <1>8 DEF IInv

\* The betting databases and LastHeight are no part of the first four parts.
LEMMA BettingFlushed ==
    ASSUME IInv, phase = "betting", phase' \in {"running", "betting"}, todo' \in Nat,
           phase' = "betting" => todo' \in 1..Len(FlushOrder),
           NEW bets \in [Databases -> SUBSET Blocks], NEW height \in Nat,
           disk' = [disk EXCEPT !.bets = bets, !.lastHeight = height],
           UNCHANGED <<mem, batch, replayed, why, cut>>
    PROVE  /\ PTypeOK' /\ IndexInv' /\ CoinsInv' /\ EvoInv'
           /\ disk'.bets = bets /\ disk'.lastHeight = height
           /\ disk'.best = disk.best /\ disk'.evo = disk.evo
<1>1. /\ disk'.index = disk.index /\ disk'.coins = disk.coins /\ disk'.best = disk.best
      /\ disk'.heads = disk.heads /\ disk'.evo = disk.evo /\ disk'.bets = bets
      /\ disk'.lastHeight = height
  BY DEF IInv, PTypeOK
<1>2. disk.best = mem.tip /\ disk.best # NoBlock
  BY DEF IInv, IndexInv
<1>3. PTypeOK'
  <2>1. disk' \in [index : SUBSET Blocks, coins : SUBSET Coins, best : Blocks \cup {NoBlock},
                   heads : {<<>>} \cup (Blocks \X Blocks), evo : Seq(Blocks),
                   bets : [Databases -> SUBSET Blocks], lastHeight : Nat]
    BY DEF IInv, PTypeOK
  <2> QED BY <2>1 DEF IInv, PTypeOK
<1>4. IndexInv'
  BY <1>1, <1>2 DEF IInv, IndexInv, HoldsParents, CoinsWithinIndex, Alive
<1>5. CoinsInv'
  BY <1>1, <1>2 DEF IInv, CoinsInv, Alive, Sound
<1>6. EvoInv'
  BY <1>1, <1>2 DEF IInv, EvoInv, Alive, OldTip
<1> QED BY <1>1, <1>3, <1>4, <1>5, <1>6

LEMMA BettingTypes ==
    ASSUME IInv, phase = "betting"
    PROVE  /\ disk.bets \in [Databases -> SUBSET Blocks] /\ mem.bets \in [Databases -> SUBSET Blocks]
           /\ disk.lastHeight \in Nat /\ mem.lastHeight \in Nat /\ todo \in 1..Len(FlushOrder)
           /\ Len(FlushOrder) \in Nat /\ DOMAIN FlushOrder = 1..Len(FlushOrder)
           /\ \A i \in 1..Len(FlushOrder) : FlushOrder[i] \in Databases
BY OrderAssumption, LenProperties DEF IInv, PTypeOK, Databases, ToSet

LEMMA FlushKeyKeeps ==
    ASSUME IInv, NEW b \in Blocks, FlushKey(b)
    PROVE  IInv'
<1> DEFINE d == FlushOrder[todo]
           bets == [disk.bets EXCEPT ![d] = (@ \ {b}) \cup (mem.bets[d] \cap {b})]
<1>1. /\ phase = "betting" /\ disk' = [disk EXCEPT !.bets = bets]
      /\ UNCHANGED <<mem, phase, batch, replayed, todo, why, cut>>
  BY DEF FlushKey
<1>2. bets \in [Databases -> SUBSET Blocks] /\ disk.lastHeight \in Nat /\ todo' \in 1..Len(FlushOrder)
      /\ todo' \in Nat
  BY <1>1, BettingTypes
<1>3. disk' = [disk EXCEPT !.bets = bets, !.lastHeight = disk.lastHeight]
  BY <1>1 DEF IInv, PTypeOK
<1>4. /\ PTypeOK' /\ IndexInv' /\ CoinsInv' /\ EvoInv' /\ disk'.bets = bets
      /\ disk'.lastHeight = disk.lastHeight /\ disk'.evo = disk.evo
  <2> HIDE DEF bets
  <2> QED BY <1>1, <1>2, <1>3, BettingFlushed
<1>5. \A e \in Databases : disk.bets[e] = mem.bets[e] => bets[e] = mem.bets[e]
  BY <1>1, BettingTypes
<1>6. HarmlessInv'
  <2>1. \A i \in 1..(todo - 1) : FlushOrder[i] \in Databases
    BY <1>1, BettingTypes
  <2>2. ~cut => \A i \in 1..(todo - 1) :
                   /\ disk'.bets[FlushOrder[i]] = mem.bets[FlushOrder[i]]
                   /\ FlushOrder[i] = "undos" => disk'.lastHeight = mem.lastHeight
    <3> HIDE DEF bets, d
    <3> QED BY <1>1, <1>4, <1>5, <2>1 DEF IInv, HarmlessInv
  <2> HIDE DEF bets, d
  <2> QED BY <1>1, <1>4, <2>2 DEF IInv, HarmlessInv, Alive, Complete
<1> QED BY <1>4, <1>6 DEF IInv

LEMMA FlushLastHeightKeeps ==
    ASSUME IInv, FlushLastHeight
    PROVE  IInv'
<1>1. /\ phase = "betting" /\ disk' = [disk EXCEPT !.lastHeight = mem.lastHeight]
      /\ UNCHANGED <<mem, phase, batch, replayed, todo, why, cut>>
  BY DEF FlushLastHeight
<1>2. disk.bets \in [Databases -> SUBSET Blocks] /\ mem.lastHeight \in Nat /\ todo' \in 1..Len(FlushOrder)
      /\ todo' \in Nat
  BY <1>1, BettingTypes
<1>3. disk' = [disk EXCEPT !.bets = disk.bets, !.lastHeight = mem.lastHeight]
  BY <1>1 DEF IInv, PTypeOK
<1>4. /\ PTypeOK' /\ IndexInv' /\ CoinsInv' /\ EvoInv' /\ disk'.bets = disk.bets
      /\ disk'.lastHeight = mem.lastHeight /\ disk'.evo = disk.evo
  BY <1>1, <1>2, <1>3, BettingFlushed
<1>5. HarmlessInv'
  BY <1>1, <1>4 DEF IInv, HarmlessInv, Alive, Complete
<1> QED BY <1>4, <1>5 DEF IInv

LEMMA FlushDatabaseKeeps ==
    ASSUME IInv, FlushDatabase
    PROVE  IInv'
<1> DEFINE d == FlushOrder[todo]
           bets == [disk.bets EXCEPT ![d] = mem.bets[d]]
           height == IF d = "undos" THEN mem.lastHeight ELSE disk.lastHeight
           n == Len(FlushOrder)
<1>1. /\ phase = "betting" /\ disk' = [disk EXCEPT !.bets = bets, !.lastHeight = height]
      /\ phase' = IF todo = n THEN "running" ELSE "betting"
      /\ todo' = IF todo = n THEN 0 ELSE todo + 1
      /\ UNCHANGED <<mem, batch, replayed, why, cut>>
  BY DEF FlushDatabase
<1>2. /\ bets \in [Databases -> SUBSET Blocks] /\ height \in Nat /\ todo' \in Nat
      /\ phase' = "betting" => todo' \in 1..n
  BY <1>1, BettingTypes
<1>3. /\ PTypeOK' /\ IndexInv' /\ CoinsInv' /\ EvoInv' /\ disk'.bets = bets
      /\ disk'.lastHeight = height /\ disk'.evo = disk.evo /\ disk'.best = disk.best
  <2> HIDE DEF bets, height
  <2> QED BY <1>1, <1>2, BettingFlushed
<1>4. HarmlessInv'
  <2> SUFFICES ASSUME ~cut PROVE HarmlessInv'
    BY <1>1 DEF HarmlessInv
  <2>1. todo \in 1..n /\ n \in Nat /\ d \in Databases
    BY <1>1, BettingTypes
  <2>2. \A i \in 1..todo : /\ bets[FlushOrder[i]] = mem.bets[FlushOrder[i]]
                           /\ FlushOrder[i] = "undos" => height = mem.lastHeight
    <3> SUFFICES ASSUME NEW i \in 1..todo
                 PROVE  /\ bets[FlushOrder[i]] = mem.bets[FlushOrder[i]]
                        /\ FlushOrder[i] = "undos" => height = mem.lastHeight
      OBVIOUS
    <3>1. CASE i = todo
      BY <1>1, <2>1, <3>1, BettingTypes
    <3>2. CASE i # todo
      <4>1. i \in 1..(todo - 1) /\ i \in 1..n
        BY <2>1, <3>2
      <4>2. /\ disk.bets[FlushOrder[i]] = mem.bets[FlushOrder[i]]
            /\ FlushOrder[i] = "undos" => disk.lastHeight = mem.lastHeight
        BY <1>1, <4>1 DEF IInv, HarmlessInv
      <4>3. FlushOrder[i] \in Databases /\ disk.bets \in [Databases -> SUBSET Blocks]
        BY <1>1, <4>1, BettingTypes
      <4> QED BY <4>2, <4>3
    <3> QED BY <3>1, <3>2
  <2>3. CASE todo # n
    <3>1. phase' = "betting" /\ todo' = todo + 1 /\ todo' \in 1..n /\ todo' - 1 = todo
      BY <1>1, <2>1, <2>3
    <3> HIDE DEF bets, height
    <3> QED BY <1>1, <1>3, <2>2, <3>1 DEF IInv, HarmlessInv, Alive, Complete
  <2>4. CASE todo = n
    <3>0. phase' = "running"
      BY <1>1, <2>4
    <3>1. \A e \in Databases : bets[e] = mem.bets[e]
      <4> SUFFICES ASSUME NEW e \in Databases PROVE bets[e] = mem.bets[e]
        OBVIOUS
      <4>1. PICK i \in 1..n : e = FlushOrder[i]
        BY <1>1, BettingTypes DEF Databases, ToSet
      <4> HIDE DEF bets
      <4> QED BY <4>1, <2>2, <2>4
    <3>2. height = mem.lastHeight
      <4>1. PICK i \in 1..n : FlushOrder[i] = "undos"
        BY <1>1, OrderAssumption, BettingTypes
      <4> HIDE DEF bets, height
      <4> QED BY <4>1, <2>2, <2>4
    <3>3. /\ disk.best = mem.tip /\ disk.best # NoBlock /\ disk.evo = mem.evo
          /\ EvoBest(mem.evo) = mem.tip /\ mem.lastHeight = Height(mem.tip)
          /\ \A e \in Databases : mem.bets[e] = ToSet(Branch[mem.tip])
      BY <1>1 DEF IInv, IndexInv, HarmlessInv, Alive, Complete
    <3> HIDE DEF bets, height
    <3>4. DiskWhole'
      BY <1>3, <3>1, <3>2, <3>3 DEF DiskWhole
    <3> QED BY <1>1, <1>3, <3>0, <3>4 DEF IInv, HarmlessInv, Alive, Complete
  <2> QED BY <2>3, <2>4
<1> QED BY <1>3, <1>4 DEF IInv

-----------------------------------------------------------------------------
LEMMA CrashKeeps ==
    ASSUME IInv, Crash
    PROVE  IInv'
<1>1. /\ Alive /\ phase' = "down" /\ batch' = <<>> /\ replayed' = FALSE /\ todo' = 0
      /\ cut' = (cut \/ disk.heads # <<>> \/ phase \in {"evo", "betting"})
      /\ UNCHANGED <<mem, disk, why>>
  BY DEF Crash, Alive
<1>2. PTypeOK'
  BY <1>1 DEF IInv, PTypeOK
<1>3. IndexInv'
  BY <1>1 DEF IInv, IndexInv, HoldsParents, CoinsWithinIndex, Alive
<1>4. CoinsInv'
  BY <1>1 DEF IInv, CoinsInv, Alive, Sound
<1>5. EvoInv'
  BY <1>1 DEF IInv, EvoInv, Alive
<1>6. HarmlessInv'
  BY <1>1 DEF IInv, IndexInv, HarmlessInv, Alive, DiskWhole
<1> QED BY <1>2, <1>3, <1>4, <1>5, <1>6 DEF IInv

LEMMA StartCleanKeeps ==
    ASSUME IInv, StartClean
    PROVE  IInv'
<1>1. phase = "down" /\ disk.heads = <<>> /\ disk.best # NoBlock /\ disk.best \in disk.index
  BY DEF StartClean, IInv, IndexInv, CoinsWithinIndex
<1>2. /\ mem' = [index |-> disk.index, tip |-> disk.best, utxo |-> disk.coins, evo |-> disk.evo,
                 bets |-> disk.bets, lastHeight |-> disk.lastHeight]
      /\ phase' = "running"
      /\ UNCHANGED <<disk, batch, replayed, todo, why, cut>>
  BY <1>1 DEF StartClean, Loaded
<1>3. /\ mem'.index = disk.index /\ mem'.tip = disk.best /\ mem'.utxo = disk.coins
      /\ mem'.evo = disk.evo /\ mem'.bets = disk.bets /\ mem'.lastHeight = disk.lastHeight
  BY <1>2
<1>4. PTypeOK'
  <2>1. mem' \in [index : SUBSET Blocks, tip : Blocks, utxo : SUBSET Coins, evo : Seq(Blocks),
                  bets : [Databases -> SUBSET Blocks], lastHeight : Nat]
    BY <1>1, <1>2 DEF IInv, PTypeOK
  <2> QED BY <1>2, <2>1 DEF IInv, PTypeOK
<1>5. IndexInv'
  BY <1>1, <1>2, <1>3 DEF IInv, IndexInv, HoldsParents, CoinsWithinIndex, Alive
<1>6. CoinsInv'
  BY <1>1, <1>2, <1>3 DEF IInv, CoinsInv, Alive, Sound
<1>7. EvoInv'
  BY <1>1, <1>2, <1>3 DEF IInv, EvoInv, Alive, OldTip
<1>8. HarmlessInv'
  BY <1>1, <1>2, <1>3 DEF IInv, HarmlessInv, Alive, DiskWhole, Complete
<1> QED BY <1>4, <1>5, <1>6, <1>7, <1>8 DEF IInv

LEMMA ReplayKeeps ==
    ASSUME IInv, ReplayBlocks, phase' # "stopped"
    PROVE  IInv'
<1> DEFINE new == disk.heads[1]
           old == disk.heads[2]
<1>1. /\ phase = "down" /\ disk.best = NoBlock /\ disk.heads = <<new, old>>
      /\ new \in Blocks /\ old \in Blocks /\ new \in disk.index
      /\ phase' = "coins" /\ batch' = <<new, old>> /\ replayed' = TRUE
      /\ mem'.index = disk.index /\ mem'.tip = new /\ mem'.utxo = CoinsOf[new]
      /\ mem'.evo = IF old = new THEN disk.evo ELSE Branch[new]
      /\ UNCHANGED <<disk, todo, why, cut>>
  BY ReplayFacts
<1>2. PTypeOK'
  <2>1. mem' \in [index : SUBSET Blocks, tip : Blocks, utxo : SUBSET Coins, evo : Seq(Blocks),
                  bets : [Databases -> SUBSET Blocks], lastHeight : Nat]
    BY ReplayFacts
  <2> QED BY <1>1, <2>1 DEF IInv, PTypeOK
<1>3. IndexInv'
  <2>1. OldTip' = old
    BY <1>1 DEF OldTip
  <2> QED BY <1>1, <2>1 DEF IInv, IndexInv, HoldsParents, CoinsWithinIndex, Alive
<1>4. CoinsInv'
  BY <1>1 DEF IInv, CoinsInv, Alive, Sound
<1>5. EvoInv'
  <2>1. OldTip' = old
    BY <1>1 DEF OldTip
  <2>2. EvoBest(Branch[new]) = new
    BY <1>1, BranchBest
  <2>3. CASE old = new
    BY <1>1, <2>1, <2>3 DEF IInv, EvoInv, Alive
  <2>4. CASE old # new
    BY <1>1, <2>1, <2>2, <2>4 DEF IInv, EvoInv, Alive
  <2> QED BY <2>3, <2>4
<1>6. HarmlessInv'
  <2>1. cut
    BY <1>1 DEF IInv, HarmlessInv, DiskWhole
  <2> QED BY <1>1, <2>1 DEF HarmlessInv
<1> QED BY <1>2, <1>3, <1>4, <1>5, <1>6 DEF IInv

\* Whatever stops a node does so after a crash in a flush, and is not an unknown
\* block or an assertion of BatchWrite.
LEMMA StopsKeep ==
    ASSUME IInv, Next, phase # "stopped", phase' = "stopped"
    PROVE  IInv'
<1>1. ASSUME NEW b \in Blocks \ {Genesis}, ConnectTip(b) PROVE IInv'
  <2>1. phase = "running"
    BY <1>1 DEF ConnectTip
  <2>2. CASE Stop("evo") /\ EvoBest(mem.evo) # mem.tip
    <3>1. cut
      BY <2>1, <2>2 DEF IInv, HarmlessInv, Alive
    <3> QED BY <2>2, <3>1, StopKeeps
  <2>3. CASE Stop("height") /\ mem.lastHeight # Height(mem.tip)
    <3>1. cut
      BY <2>1, <2>3 DEF IInv, HarmlessInv, Alive
    <3> QED BY <2>3, <3>1, StopKeeps
  <2>4. CASE UNCHANGED phase
    BY <2>4
  <2> QED BY <1>1, <2>2, <2>3, <2>4 DEF ConnectTip
<1>2. CASE DisconnectTip
  <2>1. phase = "running"
    BY <1>2 DEF DisconnectTip
  <2>2. CASE Stop("evo") /\ EvoBest(mem.evo) # mem.tip
    <3>1. cut
      BY <2>1, <2>2 DEF IInv, HarmlessInv, Alive
    <3> QED BY <2>2, <3>1, StopKeeps
  <2>3. CASE Stop("undo") /\ UndoMayFail
    <3>1. mem.tip \in Blocks \ {Genesis}
      BY <1>2 DEF DisconnectTip, IInv, PTypeOK
    <3>2. mem.tip \in ToSet(Branch[mem.tip])
      BY <3>1, BranchEnd
    <3>3. cut
      BY <2>1, <2>3, <3>2 DEF IInv, HarmlessInv, Alive, Complete, UndoMayFail
    <3> QED BY <2>3, <3>3, StopKeeps
  <2>4. CASE UNCHANGED phase
    BY <2>4
  <2> QED BY <1>2, <2>2, <2>3, <2>4 DEF DisconnectTip
<1>3. CASE StartFlush
  <2>1. BatchAsserts(mem.tip)
    BY <1>3 DEF StartFlush, BatchAsserts, IInv, IndexInv
  <2> QED BY <1>3, <2>1 DEF StartFlush, StartBatch
<1>4. CASE StartClean
  BY <1>4, StartCleanKeeps
<1>5. CASE ReplayBlocks
  <2>1. phase = "down" /\ disk.heads # <<>> /\ disk.best = NoBlock
    BY <1>5 DEF ReplayBlocks, IInv, IndexInv
  <2>2. cut
    BY <2>1 DEF IInv, HarmlessInv, DiskWhole
  <2>3. {disk.heads[1], disk.heads[2]} \in SUBSET disk.index
    <3>1. disk.heads \in Blocks \X Blocks
      BY <2>1 DEF IInv, PTypeOK
    <3>2. DOMAIN disk.heads = {1, 2}
      BY <3>1
    <3> QED BY <3>2 DEF IInv, IndexInv, CoinsWithinIndex
  <2>4. CASE Stop("fork")
    BY <2>2, <2>4, StopKeeps
  <2>5. CASE phase' = "coins"
    BY <2>5
  <2> QED BY <1>5, <2>3, <2>4, <2>5 DEF ReplayBlocks, StartBatch
<1> QED BY <1>1, <1>2, <1>3, <1>4, <1>5
        DEF Next, AcceptBlock, WriteBlockIndex, WritePartialBatch, WriteFinalBatch, CommitEvo,
            FlushKey, FlushLastHeight, FlushDatabase, Crash

\* The inductive step.
LEMMA IInvStep == IInv /\ [Next]_vars => IInv'
<1> SUFFICES ASSUME IInv, [Next]_vars PROVE IInv'
  OBVIOUS
<1>1. CASE UNCHANGED vars
  BY <1>1 DEF vars, IInv, PTypeOK, IndexInv, HoldsParents, CoinsWithinIndex, CoinsInv, EvoInv,
              HarmlessInv, Alive, OldTip, Sound, DiskWhole, Complete
<1>2. CASE Next /\ phase' = "stopped"
  <2>1. phase # "stopped"
    BY <1>2 DEF Next, AcceptBlock, ConnectTip, DisconnectTip, WriteBlockIndex, StartFlush,
                WritePartialBatch, WriteFinalBatch, CommitEvo, FlushKey, FlushLastHeight,
                FlushDatabase, Crash, StartClean, ReplayBlocks
  <2> QED BY <1>2, <2>1, StopsKeep
<1>3. CASE Next /\ phase' # "stopped"
  <2>1. ASSUME NEW b \in Blocks \ {Genesis}, AcceptBlock(b) PROVE IInv'
    BY <2>1, AcceptKeeps
  <2>2. ASSUME NEW b \in Blocks \ {Genesis}, ConnectTip(b) PROVE IInv'
    BY <1>3, <2>2, ConnectKeeps
  <2>3. CASE DisconnectTip
    BY <1>3, <2>3, DisconnectKeeps
  <2>4. CASE WriteBlockIndex
    BY <2>4, IndexWritten DEF WriteBlockIndex
  <2>5. CASE StartFlush
    <3>1. BatchAsserts(mem.tip)
      BY <2>5 DEF StartFlush, BatchAsserts, IInv, IndexInv
    <3> QED BY <2>5, <3>1, IndexWritten DEF StartFlush, StartBatch
  <2>6. ASSUME NEW S \in SUBSET Differing, WritePartialBatch(S) PROVE IInv'
    BY <2>6, PartialBatchKeeps
  <2>7. CASE WriteFinalBatch
    BY <2>7, FinalBatchKeeps
  <2>8. CASE CommitEvo
    BY <2>8, CommitEvoKeeps
  <2>9. ASSUME NEW b \in Blocks, FlushKey(b) PROVE IInv'
    BY <2>9, FlushKeyKeeps
  <2>10. CASE FlushLastHeight
    BY <2>10, FlushLastHeightKeeps
  <2>11. CASE FlushDatabase
    BY <2>11, FlushDatabaseKeeps
  <2>12. CASE Crash
    BY <2>12, CrashKeeps
  <2>13. CASE StartClean
    BY <2>13, StartCleanKeeps
  <2>14. CASE ReplayBlocks
    BY <1>3, <2>14, ReplayKeeps
  <2> QED BY <1>3, <2>1, <2>2, <2>3, <2>4, <2>5, <2>6, <2>7, <2>8, <2>9, <2>10, <2>11, <2>12,
             <2>13, <2>14 DEF Next
<1> QED BY <1>1, <1>2, <1>3

\* The invariant holds throughout.
LEMMA Invariance == Spec => []IInv
BY IInvInit, IInvStep, PTL DEF Spec

-----------------------------------------------------------------------------
(* Whatever is written when, and whatever crashes when, the coins database
   names only blocks of the index on disk, and BatchWrite does not assert. *)
THEOREM NamedBlocksKnown == Spec => []CoinsWithinIndex
<1>1. IInv => CoinsWithinIndex
  BY DEF IInv, IndexInv
<1> QED BY <1>1, Invariance, PTL

(* A running node has the coins of its tip: RollforwardBlock repairs coins of
   which any part was written, and a crash of the replay changes nothing. *)
THEOREM CoinsRecovered == Spec => []CoinsFollowTip
<1>1. IInv => CoinsFollowTip
  BY DEF IInv, CoinsInv, Alive, CoinsFollowTip
<1> QED BY <1>1, Invariance, PTL

(* An evo database that names the tip has processed the blocks up to it, in
   their order and each once, whatever was replayed. *)
THEOREM EvoRecovered == Spec => []EvoFollowsTip
<1>1. IInv => EvoFollowsTip
  BY DEF IInv, EvoInv, Alive, EvoFollowsTip
<1> QED BY <1>1, Invariance, PTL

(* A crash outside the dangerous part of a flush does no harm to the betting
   databases, and no check stops the node after it. *)
THEOREM HarmlessCrashes == Spec => []CrashesHarmless
<1>1. IInv => CrashesHarmless
  BY DEF IInv, HarmlessInv, Alive, CrashesHarmless
<1> QED BY <1>1, Invariance, PTL
=============================================================================
