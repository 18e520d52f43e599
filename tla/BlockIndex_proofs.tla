-------------------------- MODULE BlockIndex_proofs --------------------------
(***************************************************************************)
(* Proofs about BlockIndex, for every tree of blocks: each function that   *)
(* runs under cs_main leaves the index sound if it finds it so, and keeps  *)
(* the candidates complete.                                                *)
(***************************************************************************)
EXTENDS BlockIndex, TreeRecursion

LEMMA BlocksTree == IsTree(Blocks, Genesis, Parent)
BY TreeAssumption, RankedTree

\* The recursion of Chain is well defined.
LEMMA ChainDef ==
    /\ Chain \in [Blocks -> SUBSET Blocks]
    /\ Chain[Genesis] = {Genesis}
    /\ \A b \in Blocks \ {Genesis} : Chain[b] = {b} \cup Chain[Parent[b]]
<1> DEFINE V == SUBSET Blocks
           stop == {Genesis}
           base == [b \in Blocks |-> {b}]
           step == [bv \in Blocks \X V |-> {bv[1]} \cup bv[2]]
<1>1. Genesis \in stop /\ base \in [Blocks -> V] /\ step \in [Blocks \X V -> V]
  OBVIOUS
<1>2. \A b \in Blocks, v \in V : step[<<b, v>>] = {b} \cup v
  OBVIOUS
<1>3. PICK f \in [Blocks -> V] :
        \A b \in Blocks : f[b] = IF b \in stop THEN base[b] ELSE step[<<b, f[Parent[b]]>>]
  <2> HIDE DEF V, stop, base, step
  <2> QED BY <1>1, BlocksTree, TreeRecursion
<1>4. \A b \in Blocks : f[b] = IF b = Genesis THEN {b} ELSE {b} \cup f[Parent[b]]
  BY <1>2, <1>3, TreeAssumption
<1>5. f = [b \in Blocks |-> IF b = Genesis THEN {b} ELSE {b} \cup f[Parent[b]]]
  BY <1>3, <1>4
<1>6. Chain = [b \in Blocks |-> IF b = Genesis THEN {b} ELSE {b} \cup Chain[Parent[b]]]
  BY <1>5 DEF Chain
<1>7. Chain = f
  <2> DEFINE S == {b \in Blocks : Chain[b] # f[b]}
  <2>1. ASSUME S # {} PROVE FALSE
    <3>0. S \in SUBSET Blocks
      OBVIOUS
    <3>1. PICK b \in S : b = Genesis \/ Parent[b] \notin S
      <4> HIDE DEF S
      <4> QED BY <2>1, <3>0, BlocksTree DEF IsTree
    <3>2. CASE b = Genesis
      BY <3>1, <3>2, <1>4, <1>6
    <3>3. CASE b # Genesis
      <4>1. Parent[b] \in Blocks /\ Chain[Parent[b]] = f[Parent[b]]
        BY <3>1, <3>3, TreeAssumption
      <4> QED BY <3>1, <3>3, <4>1, <1>4, <1>6
    <3> QED BY <3>2, <3>3
  <2>2. \A b \in Blocks : Chain[b] = f[b]
    BY <2>1
  <2> QED BY <1>6, <1>3, <2>2
<1> QED BY <1>3, <1>4, <1>7, TreeAssumption

\* The chain of a block holds the block and Genesis, and with a block its chain.
LEMMA ChainHolds ==
    ASSUME NEW b \in Blocks
    PROVE  /\ b \in Chain[b] /\ Genesis \in Chain[b] /\ Chain[b] \subseteq Blocks
           /\ \A c \in Chain[b] : Chain[c] \subseteq Chain[b]
<1> DEFINE P(x) == /\ x \in Chain[x] /\ Genesis \in Chain[x] /\ Chain[x] \subseteq Blocks
                   /\ \A c \in Chain[x] : Chain[c] \subseteq Chain[x]
           S == {x \in Blocks : ~P(x)}
<1>1. ASSUME S # {} PROVE FALSE
  <2>0. S \in SUBSET Blocks
    OBVIOUS
  <2>1. PICK x \in S : x = Genesis \/ Parent[x] \notin S
    <3> HIDE DEF S
    <3> QED BY <1>1, <2>0, BlocksTree DEF IsTree
  <2>2. CASE x = Genesis
    BY <2>1, <2>2, ChainDef, TreeAssumption
  <2>3. CASE x # Genesis
    <3>1. Parent[x] \in Blocks /\ P(Parent[x]) /\ Chain[x] = {x} \cup Chain[Parent[x]]
      BY <2>1, <2>3, ChainDef, TreeAssumption
    <3> QED BY <2>1, <3>1
  <2> QED BY <2>2, <2>3
<1> QED BY <1>1

\* Work grows along a chain.
LEMMA ChainWorkGrows ==
    ASSUME NEW b \in Blocks, NEW c \in Chain[b], c # b
    PROVE  b # Genesis /\ c \in Chain[Parent[b]] /\ ChainWork[c] < ChainWork[b] /\ b \notin Chain[c]
<1> DEFINE P(x) == \A y \in Chain[x] : ChainWork[y] <= ChainWork[x]
           S == {x \in Blocks : ~P(x)}
<1>1. ASSUME S # {} PROVE FALSE
  <2>0. S \in SUBSET Blocks
    OBVIOUS
  <2>1. PICK x \in S : x = Genesis \/ Parent[x] \notin S
    <3> HIDE DEF S
    <3> QED BY <1>1, <2>0, BlocksTree DEF IsTree
  <2>2. CASE x = Genesis
    BY <2>1, <2>2, ChainDef, TreeAssumption
  <2>3. CASE x # Genesis
    <3>1. /\ Parent[x] \in Blocks /\ P(Parent[x]) /\ Chain[x] = {x} \cup Chain[Parent[x]]
          /\ Chain[Parent[x]] \subseteq Blocks /\ ChainWork[x] > ChainWork[Parent[x]]
      BY <2>1, <2>3, ChainDef, TreeAssumption
    <3>2. \A y \in Blocks : ChainWork[y] \in Nat
      BY TreeAssumption
    <3> QED BY <2>1, <3>1, <3>2
  <2> QED BY <2>2, <2>3
<1>2. \A x \in Blocks : P(x)
  BY <1>1
<1>3. b # Genesis /\ c \in Chain[Parent[b]] /\ Parent[b] \in Blocks /\ c \in Blocks
  BY ChainDef, TreeAssumption
<1>4. /\ ChainWork[c] <= ChainWork[Parent[b]] /\ ChainWork[Parent[b]] < ChainWork[b]
      /\ ChainWork[c] \in Nat /\ ChainWork[b] \in Nat /\ ChainWork[Parent[b]] \in Nat
  BY <1>2, <1>3, TreeAssumption
<1>5. b \in Chain[c] => ChainWork[b] <= ChainWork[c]
  BY <1>2, <1>3
<1> QED BY <1>3, <1>4, <1>5

\* Two blocks of a chain lie on one another.
LEMMA ChainLinear ==
    ASSUME NEW b \in Blocks, NEW x \in Chain[b], NEW y \in Chain[b]
    PROVE  x \in Chain[y] \/ y \in Chain[x]
<1> DEFINE P(z) == \A u, v \in Chain[z] : u \in Chain[v] \/ v \in Chain[u]
           S == {z \in Blocks : ~P(z)}
<1>1. ASSUME S # {} PROVE FALSE
  <2>0. S \in SUBSET Blocks
    OBVIOUS
  <2>1. PICK z \in S : z = Genesis \/ Parent[z] \notin S
    <3> HIDE DEF S
    <3> QED BY <1>1, <2>0, BlocksTree DEF IsTree
  <2>2. CASE z = Genesis
    BY <2>1, <2>2, ChainDef, TreeAssumption
  <2>3. CASE z # Genesis
    <3>1. Parent[z] \in Blocks /\ P(Parent[z]) /\ Chain[z] = {z} \cup Chain[Parent[z]]
      BY <2>1, <2>3, ChainDef, TreeAssumption
    <3> QED BY <2>1, <3>1
  <2> QED BY <2>2, <2>3
<1> QED BY <1>1

\* The block of a chain that follows a block of it outside the chain of x, a
\* block of it as well, follows x.
LEMMA NextOnChain ==
    ASSUME NEW b \in Blocks, NEW x \in Chain[b], NEW y \in Chain[b], y \notin Chain[x]
    PROVE  /\ y \in Blocks \ {Genesis} /\ x \in Chain[Parent[y]] /\ Parent[y] \in Chain[b]
           /\ Parent[y] = x \/ Parent[y] \notin Chain[x]
<1>1. x \in Blocks /\ y \in Blocks /\ y # Genesis
  BY ChainHolds
<1>2. x \in Chain[y] /\ x # y
  BY <1>1, ChainLinear, ChainHolds
<1>3. x \in Chain[Parent[y]] /\ Parent[y] \in Blocks
  BY <1>1, <1>2, ChainWorkGrows, TreeAssumption
<1>4. Parent[y] \in Chain[y]
  BY <1>1, <1>3, ChainDef, ChainHolds
<1>5. Parent[y] \in Chain[b]
  BY <1>1, <1>4, ChainHolds
<1>6. Parent[y] # x => Parent[y] \notin Chain[x]
  BY <1>3, ChainWorkGrows
<1> QED BY <1>1, <1>3, <1>5, <1>6

\* The block that ConnectTip takes next.
LEMMA NextExists ==
    ASSUME NEW most \in Blocks, NEW tip \in Chain[most], most \notin Chain[tip]
    PROVE  \E x \in Chain[most] \ Chain[tip] : Parent[x] = tip
<1> DEFINE S == Chain[most] \ Chain[tip]
<1>1. S \in SUBSET Blocks /\ S # {} /\ tip \in Blocks
  BY ChainDef, ChainHolds
<1>2. PICK x \in S : x = Genesis \/ Parent[x] \notin S
  <2> HIDE DEF S
  <2> QED BY <1>1, BlocksTree DEF IsTree
<1>3. x # Genesis
  BY <1>1, <1>2, ChainHolds
<1>4. Parent[x] \in Chain[most] /\ (Parent[x] = tip \/ Parent[x] \notin Chain[tip])
  BY <1>2, NextOnChain
<1> QED BY <1>2, <1>3, <1>4

-----------------------------------------------------------------------------
\* Of some blocks, one has the most work.
LEMMA HighestExists ==
    ASSUME NEW S \in SUBSET Blocks, S # {}
    PROVE  \E x \in S : \A y \in S : ChainWork[y] <= ChainWork[x]
<1> DEFINE R == {p \in Blocks \X Blocks : ChainWork[p[1]] <= ChainWork[p[2]]}
<1>1. \A a, b \in Blocks : <<a, b>> \in R <=> ChainWork[a] <= ChainWork[b]
  OBVIOUS
<1>2. \A a \in Blocks : ChainWork[a] \in Nat
  BY TreeAssumption
<1> HIDE DEF R
<1>3. \A a, b \in Blocks : <<a, b>> \in R \/ <<b, a>> \in R
  <2> SUFFICES ASSUME NEW a \in Blocks, NEW b \in Blocks PROVE <<a, b>> \in R \/ <<b, a>> \in R
    OBVIOUS
  <2> QED BY <1>1, <1>2
<1>4. \A a, b, c \in Blocks : <<a, b>> \in R /\ <<b, c>> \in R => <<a, c>> \in R
  BY <1>1, <1>2
<1>5. PICK x \in S : \A y \in S : <<y, x>> \in R
  <2>1. IsFiniteSet(Blocks)
    BY TreeAssumption
  <2> QED BY <1>3, <1>4, <2>1, GreatestExists
<1> QED BY <1>1, <1>5

\* Of some blocks, one lies first in memory.
LEMMA FirstAddressExists ==
    ASSUME NEW S \in SUBSET Blocks, S # {}
    PROVE  \E x \in S : \A y \in S : Address[x] <= Address[y]
<1> DEFINE T == {Address[x] : x \in S}
<1>1. T \subseteq Nat /\ T # {}
  BY TreeAssumption
<1>2. PICK n \in T : \A m \in T : n <= m
  <2> HIDE DEF T
  <2> QED BY <1>1, LeastNatural
<1> QED BY <1>2

\* The work comparator is a strict order of the blocks.
LEMMA WorseOrders ==
    ASSUME NEW s \in Indexes
    PROVE  /\ \A a, b \in Blocks : ~Worse(a, b, s) \/ ~Worse(b, a, s)
           /\ \A a, b, c \in Blocks : ~Worse(a, b, s) /\ ~Worse(b, c, s) => ~Worse(a, c, s)
<1>1. s.seq \in [Blocks -> Int]
  BY DEF Indexes
<1>2. \A a \in Blocks : ChainWork[a] \in Nat /\ Address[a] \in Nat /\ s.seq[a] \in Int
  BY <1>1, TreeAssumption
<1>3. \A a, b \in Blocks : ~Worse(a, b, s) \/ ~Worse(b, a, s)
  BY <1>2 DEF Worse
<1>4. \A a, b, c \in Blocks : ~Worse(a, b, s) /\ ~Worse(b, c, s) => ~Worse(a, c, s)
  BY <1>2 DEF Worse
<1> QED BY <1>3, <1>4

\* The best candidate is one.
LEMMA BestCandidateIs ==
    ASSUME NEW s \in Indexes, s.candidates # {}
    PROVE  /\ BestCandidate(s) \in s.candidates
           /\ \A c \in s.candidates : ~Worse(BestCandidate(s), c, s)
<1> DEFINE R == {p \in Blocks \X Blocks : ~Worse(p[2], p[1], s)}
<1>1. \A a, b \in Blocks : <<a, b>> \in R <=> ~Worse(b, a, s)
  OBVIOUS
<1>2. s.candidates \in SUBSET Blocks
  BY DEF Indexes
<1> HIDE DEF R
<1>3. \A a, b \in Blocks : <<a, b>> \in R \/ <<b, a>> \in R
  BY <1>1, WorseOrders
<1>4. \A a, b, c \in Blocks : <<a, b>> \in R /\ <<b, c>> \in R => <<a, c>> \in R
  BY <1>1, WorseOrders
<1>5. PICK x \in s.candidates : \A y \in s.candidates : <<y, x>> \in R
  <2>1. IsFiniteSet(Blocks)
    BY TreeAssumption
  <2> QED BY <1>2, <1>3, <1>4, <2>1, GreatestExists
<1>6. \E b \in s.candidates : \A c \in s.candidates : ~Worse(b, c, s)
  BY <1>1, <1>2, <1>5
<1> QED BY <1>6 DEF BestCandidate

\* pindexBestInvalid is a failed block.
LEMMA BestInvalidIs ==
    ASSUME NEW s \in Indexes, Failed(s) # {}
    PROVE  BestInvalid(s) \in Failed(s)
<1> DEFINE Before(a, b) ==
              \/ ChainWork[a] < ChainWork[b]
              \/ ChainWork[a] = ChainWork[b] /\ Height(a) > Height(b)
              \/ ChainWork[a] = ChainWork[b] /\ Height(a) = Height(b) /\ Address[a] >= Address[b]
           R == {p \in Blocks \X Blocks : Before(p[1], p[2])}
<1>1. \A a, b \in Blocks : <<a, b>> \in R <=> Before(a, b)
  OBVIOUS
<1>2. \A a \in Blocks : ChainWork[a] \in Nat /\ Address[a] \in Nat /\ Height(a) \in Int
  <2> SUFFICES ASSUME NEW a \in Blocks PROVE Height(a) \in Int
    BY TreeAssumption
  <2>1. Chain[a] \in SUBSET Blocks
    BY ChainDef
  <2>2. Cardinality(Chain[a]) \in Nat
    BY <2>1, TreeAssumption, FS_Subset, FS_CardinalityType
  <2> QED BY <2>2 DEF Height
<1>3. Failed(s) \in SUBSET Blocks
  BY DEF Failed, Indexes
<1> HIDE DEF R
<1>4. \A a, b \in Blocks : <<a, b>> \in R \/ <<b, a>> \in R
  <2> SUFFICES ASSUME NEW a \in Blocks, NEW b \in Blocks PROVE <<a, b>> \in R \/ <<b, a>> \in R
    OBVIOUS
  <2>1. Before(a, b) \/ Before(b, a)
    BY <1>2
  <2> QED BY <1>1, <2>1
<1>5. \A a, b, c \in Blocks : <<a, b>> \in R /\ <<b, c>> \in R => <<a, c>> \in R
  BY <1>1, <1>2
<1>6. PICK x \in Failed(s) : \A y \in Failed(s) : <<y, x>> \in R
  <2>1. IsFiniteSet(Blocks)
    BY TreeAssumption
  <2> QED BY <1>3, <1>4, <1>5, <2>1, GreatestExists
<1>7. \E b \in Failed(s) : \A c \in Failed(s) : Before(c, b)
  BY <1>1, <1>3, <1>6
<1> QED BY <1>7 DEF BestInvalid

-----------------------------------------------------------------------------
\* The block and its ancestors are there and not marked.
Clear(b, s) ==
    Chain[b] \subseteq s.data /\ Chain[b] \cap (Failed(s) \cup s.conflicting) = {}

\* No candidate is an ancestor of the tip.
CandidatesAhead(s) == s.candidates \cap (Chain[s.tip] \ {s.tip}) = {}

\* A block with BLOCK_FAILED_CHILD only has a failed parent.  FailedHasCause is
\* not inductive by itself: ResetBlockFailureFlags could take the failed block
\* at the end of a gap and leave the marks behind the gap.  There are no gaps.
FailedInherited(s) ==
    \A b \in s.failedChild \ s.failedValid : b # Genesis /\ Parent[b] \in Failed(s)

IndexSound(s) ==
    /\ s \in Indexes
    /\ s.data \subseteq s.known
    /\ \A b \in s.known \ {Genesis} : Parent[b] \in s.known
    /\ CandidatesAhead(s)
    /\ Clear(s.tip, s)
    /\ s.failedBlocks \subseteq s.failedValid
    /\ FailedInherited(s)

\* A step that marks no block of a clear chain.
KeepsClear(s, t) == \A c \in Blocks : Clear(c, s) => Clear(c, t)

LEMMA GenesisSound == IndexSound(GenesisIndex)
<1> DEFINE s == GenesisIndex
<1>1. /\ s.known = {Genesis} /\ s.data = {Genesis} /\ s.failedValid = {} /\ s.failedChild = {}
      /\ s.conflicting = {} /\ s.candidates = {Genesis} /\ s.failedBlocks = {} /\ s.tip = Genesis
  BY DEF GenesisIndex
<1>2. s \in Indexes
  BY TreeAssumption DEF GenesisIndex, Indexes
<1>3. Chain[Genesis] = {Genesis}
  BY ChainDef
<1> QED BY <1>1, <1>2, <1>3 DEF IndexSound, CandidatesAhead, Clear, FailedInherited, Failed

\* A failed block has a failed block itself in its chain.
LEMMA CauseFound ==
    ASSUME NEW s, IndexSound(s)
    PROVE  \A b \in Failed(s) : Chain[b] \cap s.failedValid # {}
<1> DEFINE S == {b \in Failed(s) : Chain[b] \cap s.failedValid = {}}
<1>0. S \in SUBSET Blocks /\ Failed(s) \subseteq Blocks
  BY DEF IndexSound, Indexes, Failed
<1>1. ASSUME S # {} PROVE FALSE
  <2>1. PICK b \in S : b = Genesis \/ Parent[b] \notin S
    <3> HIDE DEF S
    <3> QED BY <1>0, <1>1, BlocksTree DEF IsTree
  <2>2. b \in Blocks /\ b \in Chain[b]
    BY <1>0, <2>1, ChainHolds
  <2>3. b \in s.failedChild \ s.failedValid
    BY <2>1, <2>2 DEF Failed
  <2>4. b # Genesis /\ Parent[b] \in Failed(s)
    BY <2>3 DEF IndexSound, FailedInherited
  <2>5. Chain[b] = {b} \cup Chain[Parent[b]]
    BY <2>2, <2>4, ChainDef
  <2> QED BY <2>1, <2>4, <2>5
<1> QED BY <1>1

\* A block of an active chain that is not the tip sorts before it.
LEMMA AncestorWorse ==
    ASSUME NEW s \in Indexes, NEW b \in Blocks, NEW c \in Chain[b], c # b
    PROVE  Worse(c, b, s)
BY ChainWorkGrows DEF Worse

\* Changing the candidates.
LEMMA CandidatesSound ==
    ASSUME NEW s, IndexSound(s), NEW C \in SUBSET Blocks,
           \A c \in C : c \in s.candidates \/ ~Worse(c, s.tip, s),
           NEW t, t = [s EXCEPT !.candidates = C]
    PROVE  IndexSound(t) /\ KeepsClear(s, t)
<1>1. /\ t \in Indexes /\ t.known = s.known /\ t.data = s.data /\ t.tip = s.tip
      /\ t.failedValid = s.failedValid /\ t.failedChild = s.failedChild
      /\ t.conflicting = s.conflicting /\ t.failedBlocks = s.failedBlocks /\ t.candidates = C
  BY DEF IndexSound, Indexes
<1>2. Failed(t) = Failed(s) /\ s.tip \in Blocks /\ s \in Indexes
  BY <1>1 DEF Failed, IndexSound, Indexes
<1>3. CandidatesAhead(t)
  BY <1>1, <1>2, AncestorWorse DEF CandidatesAhead, IndexSound
<1>4. KeepsClear(s, t) /\ Clear(t.tip, t)
  BY <1>1, <1>2 DEF KeepsClear, Clear, IndexSound
<1> QED BY <1>1, <1>2, <1>3, <1>4 DEF IndexSound, FailedInherited

\* Moving the tip to a clear block, no candidate being an ancestor of it.
LEMMA TipSound ==
    ASSUME NEW s, IndexSound(s), NEW b \in Blocks, Clear(b, s),
           s.candidates \cap (Chain[b] \ {b}) = {},
           NEW t, t = [s EXCEPT !.tip = b]
    PROVE  IndexSound(t) /\ KeepsClear(s, t)
<1>1. /\ t \in Indexes /\ t.known = s.known /\ t.data = s.data /\ t.tip = b
      /\ t.failedValid = s.failedValid /\ t.failedChild = s.failedChild
      /\ t.conflicting = s.conflicting /\ t.failedBlocks = s.failedBlocks
      /\ t.candidates = s.candidates
  BY DEF IndexSound, Indexes
<1>2. Failed(t) = Failed(s)
  BY <1>1 DEF Failed
<1> QED BY <1>1, <1>2 DEF IndexSound, FailedInherited, CandidatesAhead, KeepsClear, Clear

\* DisconnectTip.
LEMMA DisconnectSound ==
    ASSUME NEW s, IndexSound(s), s.tip # Genesis,
           NEW t, t = [s EXCEPT !.tip = Parent[@]]
    PROVE  IndexSound(t) /\ KeepsClear(s, t)
<1>1. s.tip \in Blocks /\ Parent[s.tip] \in Blocks /\ Chain[s.tip] = {s.tip} \cup Chain[Parent[s.tip]]
  BY ChainDef, TreeAssumption DEF IndexSound, Indexes
<1>2. s.tip \notin Chain[Parent[s.tip]]
  <2>1. Parent[s.tip] \in Chain[s.tip] /\ Parent[s.tip] # s.tip
    BY <1>1, ChainHolds, TreeAssumption
  <2> QED BY <1>1, <2>1, ChainWorkGrows
<1>3. Clear(Parent[s.tip], s) /\ s.candidates \cap (Chain[Parent[s.tip]] \ {Parent[s.tip]}) = {}
  BY <1>1, <1>2 DEF IndexSound, Clear, CandidatesAhead
<1>4. t = [s EXCEPT !.tip = Parent[s.tip]]
  OBVIOUS
<1> QED BY <1>1, <1>3, <1>4, TipSound

LEMMA PruneSound ==
    ASSUME NEW s, IndexSound(s)
    PROVE  /\ IndexSound(PruneBlockIndexCandidates(s)) /\ KeepsClear(s, PruneBlockIndexCandidates(s))
           /\ PruneBlockIndexCandidates(s).tip = s.tip
<1> DEFINE C == {c \in s.candidates : ~Worse(c, s.tip, s)}
<1>1. /\ PruneBlockIndexCandidates(s) = [s EXCEPT !.candidates = C] /\ C \in SUBSET Blocks
      /\ \A c \in C : c \in s.candidates
      /\ [s EXCEPT !.candidates = C].tip = s.tip
  BY DEF PruneBlockIndexCandidates, IndexSound, Indexes
<1> HIDE DEF C
<1> QED BY <1>1, CandidatesSound

LEMMA AddCandidatesSound ==
    ASSUME NEW s, IndexSound(s)
    PROVE  /\ IndexSound(AddCandidates(s)) /\ KeepsClear(s, AddCandidates(s))
           /\ AddCandidates(s).tip = s.tip
<1> DEFINE C == s.candidates \cup {b \in Connectable(s) \ s.conflicting : ~Worse(b, s.tip, s)}
<1>1. /\ AddCandidates(s) = [s EXCEPT !.candidates = C] /\ C \in SUBSET Blocks
      /\ \A c \in C : c \in s.candidates \/ ~Worse(c, s.tip, s)
      /\ [s EXCEPT !.candidates = C].tip = s.tip
  BY DEF AddCandidates, IndexSound, Indexes, Connectable
<1> HIDE DEF C
<1> QED BY <1>1, CandidatesSound

\* Connected: the tip and the scripts flag, then the pruning.  The candidates
\* below the new tip go.
LEMMA ConnectedSound ==
    ASSUME NEW s, IndexSound(s), NEW b \in Blocks, Clear(b, s)
    PROVE  IndexSound(Connected(b, s)) /\ KeepsClear(s, Connected(b, s)) /\ Connected(b, s).tip = b
<1> DEFINE u == [s EXCEPT !.tip = b, !.scripts = @ \cup {b}]
           C == {c \in s.candidates : ~Worse(c, b, u)}
           t == [u EXCEPT !.candidates = C]
<1>1. /\ u \in Indexes /\ u.known = s.known /\ u.data = s.data /\ u.tip = b
      /\ u.failedValid = s.failedValid /\ u.failedChild = s.failedChild
      /\ u.conflicting = s.conflicting /\ u.failedBlocks = s.failedBlocks
      /\ u.candidates = s.candidates
  BY DEF IndexSound, Indexes
<1>2. Connected(b, s) = t
  BY <1>1 DEF Connected, PruneBlockIndexCandidates
<1>3. C \in SUBSET Blocks /\ \A c \in C : ~Worse(c, b, u)
  BY DEF IndexSound, Indexes
<1> HIDE DEF u, C
<1>4. /\ t \in Indexes /\ t.known = s.known /\ t.data = s.data /\ t.tip = b
      /\ t.failedValid = s.failedValid /\ t.failedChild = s.failedChild
      /\ t.conflicting = s.conflicting /\ t.failedBlocks = s.failedBlocks
      /\ t.candidates = C
  BY <1>1, <1>3 DEF Indexes
<1> HIDE DEF t
<1>5. Failed(t) = Failed(s)
  BY <1>4 DEF Failed
<1>6. CandidatesAhead(t)
  BY <1>1, <1>3, <1>4, AncestorWorse DEF CandidatesAhead
<1> QED BY <1>2, <1>4, <1>5, <1>6 DEF IndexSound, FailedInherited, KeepsClear, Clear

LEMMA InvalidFoundSound ==
    ASSUME NEW s, IndexSound(s), NEW b \in Blocks, b \notin Chain[s.tip]
    PROVE  IndexSound(InvalidBlockFound(b, s)) /\ InvalidBlockFound(b, s).tip = s.tip
<1> DEFINE t == InvalidBlockFound(b, s)
<1>1. /\ t \in Indexes /\ t.known = s.known /\ t.data = s.data /\ t.tip = s.tip
      /\ t.failedValid = s.failedValid \cup {b} /\ t.failedChild = s.failedChild
      /\ t.conflicting = s.conflicting /\ t.failedBlocks = s.failedBlocks \cup {b}
      /\ t.candidates = s.candidates \ {b}
  BY DEF IndexSound, Indexes, InvalidBlockFound
<1> HIDE DEF t
<1>2. Failed(t) = Failed(s) \cup {b}
  BY <1>1 DEF Failed
<1>3. IndexSound(t)
  BY <1>1, <1>2 DEF IndexSound, FailedInherited, Clear, CandidatesAhead
<1> QED BY <1>1, <1>3 DEF t

\* FindMostWorkChain marks the blocks between the failed or conflicting block
\* that it meets and the candidate, and none of the active chain.
LEMMA DropChainSound ==
    ASSUME NEW s, IndexSound(s), NEW b \in Blocks, Unusable(b, s) # {}
    PROVE  /\ IndexSound(DropChain(b, s)) /\ KeepsClear(s, DropChain(b, s))
           /\ DropChain(b, s).tip = s.tip
<1> DEFINE x == FirstUnusable(b, s)
           above == Chain[b] \ Chain[x]
           failed == x \in Failed(s)
           conflict == ~failed /\ x \in s.conflicting
           t == DropChain(b, s)
<1>1. x \in Unusable(b, s)
  <2>1. Unusable(b, s) \in SUBSET Blocks
    BY ChainDef DEF Unusable
  <2>2. \E y \in Unusable(b, s) : \A z \in Unusable(b, s) : ChainWork[z] <= ChainWork[y]
    BY <2>1, HighestExists
  <2> QED BY <2>2 DEF FirstUnusable
<1>2. x \in Chain[b] /\ x \notin Chain[s.tip] /\ x \in Blocks /\ above \in SUBSET Blocks
  BY <1>1, ChainDef DEF Unusable
<1>3. /\ t \in Indexes /\ t.known = s.known /\ t.data = s.data /\ t.tip = s.tip
      /\ t.failedValid = s.failedValid
      /\ t.failedChild = IF failed THEN s.failedChild \cup above ELSE s.failedChild
      /\ t.conflicting = IF conflict THEN s.conflicting \cup above ELSE s.conflicting
      /\ t.failedBlocks = s.failedBlocks /\ t.candidates \subseteq s.candidates
  <2> HIDE DEF x
  <2>1. t = [s EXCEPT !.failedChild = IF failed THEN @ \cup above ELSE @,
                      !.conflicting = IF conflict THEN @ \cup above ELSE @,
                      !.unlinked = IF failed \/ conflict THEN @ ELSE @ \cup above,
                      !.candidates = @ \ (above \cup {x})]
    BY DEF DropChain, x
  <2> HIDE DEF t, failed, conflict, above
  <2> QED BY <1>2, <2>1 DEF IndexSound, Indexes
<1> HIDE DEF t, x
<1>4. KeepsClear(s, t)
  <2> SUFFICES ASSUME NEW c \in Blocks, Clear(c, s) PROVE Clear(c, t)
    BY DEF KeepsClear
  <2>1. ASSUME NEW y \in above, y \in Chain[c] PROVE x \in Chain[c]
    <3>1. x \in Chain[y]
      BY <1>2, <2>1, ChainLinear
    <3> QED BY <2>1, <3>1, ChainHolds
  <2>2. failed \/ conflict => above \cap Chain[c] = {}
    BY <2>1 DEF Clear
  <2> QED BY <1>3, <2>2 DEF Clear, Failed
<1>5. Clear(t.tip, t)
  BY <1>3, <1>4 DEF IndexSound, Indexes, KeepsClear
<1>6. FailedInherited(t)
  <2>1. CASE failed
    <3>1. Failed(t) = Failed(s) \cup above
      BY <1>3, <2>1 DEF Failed
    <3>2. \A y \in above : y # Genesis /\ (Parent[y] = x \/ Parent[y] \in above)
      BY <1>2, NextOnChain
    <3> HIDE DEF above
    <3> QED BY <1>3, <2>1, <3>1, <3>2 DEF IndexSound, FailedInherited
  <2>2. CASE ~failed
    BY <1>3, <2>2 DEF IndexSound, FailedInherited, Failed
  <2> QED BY <2>1, <2>2
<1>7. CandidatesAhead(t)
  BY <1>3 DEF IndexSound, CandidatesAhead
<1>8. IndexSound(t)
  BY <1>3, <1>5, <1>6, <1>7 DEF IndexSound
<1> QED BY <1>3, <1>4, <1>8 DEF t

\* The marks of AcceptBlockHeader lie above a failed block, or on a new block.
LEMMA HeaderSound ==
    ASSUME NEW s, IndexSound(s), NEW b \in Blocks \ {Genesis}, Parent[b] \in s.known,
           NEW conflicts \in BOOLEAN,
           NEW t, t = AcceptBlockHeader(b, s, conflicts)
    PROVE  /\ IndexSound(t) /\ KeepsClear(s, t) /\ t.tip = s.tip
           /\ HeaderAccepted(b, s, conflicts) => b \in t.known
<1>0. s \in Indexes
  BY DEF IndexSound
<1>1. CASE b \in s.known \/ HeaderRefused(b, s)
  <2>1. t = s
    BY <1>1 DEF AcceptBlockHeader
  <2> QED BY <1>1, <2>1 DEF KeepsClear, HeaderAccepted
<1>2. CASE b \notin s.known /\ ~HeaderRefused(b, s) /\ FailedBelow(b, s) # {}
  <2> DEFINE below == FailedBelow(b, s)
             first == CHOOSE f \in below : \A g \in below : Address[f] <= Address[g]
             above == Chain[Parent[b]] \ Chain[first]
  <2>1. below \in SUBSET (s.failedBlocks \cap Chain[Parent[b]])
    BY <1>2 DEF FailedBelow
  <2>2. first \in below
    <3>1. below \in SUBSET Blocks
      BY <2>1, <1>0 DEF Indexes
    <3> HIDE DEF below
    <3>2. \E f \in below : \A g \in below : Address[f] <= Address[g]
      BY <1>2, <3>1, FirstAddressExists DEF below
    <3> QED BY <3>2
  <2>3. /\ first \in Chain[Parent[b]] /\ first \in s.failedValid /\ Parent[b] \in Blocks
        /\ above \in SUBSET Blocks /\ first \in Blocks
    BY <2>1, <2>2, <1>0, ChainDef DEF IndexSound, Indexes
  <2>4. t = [s EXCEPT !.failedChild = s.failedChild \cup above]
    BY <1>2 DEF AcceptBlockHeader, MarkFailedBelow
  <2> HIDE DEF first, below
  <2>5. /\ t \in Indexes /\ t.known = s.known /\ t.data = s.data /\ t.tip = s.tip
        /\ t.failedValid = s.failedValid /\ t.failedChild = s.failedChild \cup above
        /\ t.conflicting = s.conflicting
        /\ t.failedBlocks = s.failedBlocks /\ t.candidates = s.candidates
    BY <2>3, <2>4, <1>0 DEF Indexes
  <2>6. Failed(t) = Failed(s) \cup above
    BY <2>5 DEF Failed
  <2>7. \A y \in above : first \in Chain[y]
    BY <2>3, ChainLinear
  <2>8. KeepsClear(s, t)
    <3> SUFFICES ASSUME NEW c \in Blocks, Clear(c, s) PROVE Clear(c, t)
      BY DEF KeepsClear
    <3>1. Chain[c] \cap above = {}
      <4> SUFFICES ASSUME NEW y \in above, y \in Chain[c] PROVE FALSE
        OBVIOUS
      <4>1. first \in Chain[c]
        BY <2>7, ChainHolds
      <4> QED BY <4>1, <2>3 DEF Clear, Failed
    <3> QED BY <3>1, <2>5, <2>6 DEF Clear
  <2>9. FailedInherited(t)
    <3>1. \A y \in above : y # Genesis /\ (Parent[y] = first \/ Parent[y] \in above)
      BY <2>3, NextOnChain
    <3> HIDE DEF above
    <3> QED BY <2>3, <2>5, <2>6, <3>1 DEF IndexSound, FailedInherited, Failed
  <2>10. Clear(t.tip, t)
    BY <2>5, <2>8, <1>0 DEF IndexSound, KeepsClear, Indexes
  <2>11. IndexSound(t)
    BY <2>5, <2>9, <2>10 DEF IndexSound, CandidatesAhead
  <2> QED BY <1>2, <2>5, <2>8, <2>11 DEF HeaderAccepted
<1>3. CASE b \notin s.known /\ ~HeaderRefused(b, s) /\ FailedBelow(b, s) = {}
  <2> DEFINE C == IF conflicts THEN s.conflicting \cup {b} ELSE s.conflicting
  <2>0. C \subseteq s.conflicting \cup {b} /\ C \subseteq Blocks /\ s.known \cup {b} \subseteq Blocks
    BY <1>0 DEF Indexes
  <2>1. t = [s EXCEPT !.known = s.known \cup {b}, !.conflicting = C]
    BY <1>3 DEF AcceptBlockHeader
  <2> HIDE DEF C
  <2>2. /\ t \in Indexes /\ t.known = s.known \cup {b} /\ t.data = s.data /\ t.tip = s.tip
        /\ t.failedValid = s.failedValid /\ t.failedChild = s.failedChild
        /\ t.conflicting \subseteq s.conflicting \cup {b}
        /\ t.failedBlocks = s.failedBlocks /\ t.candidates = s.candidates
    BY <2>0, <2>1, <1>0 DEF Indexes
  <2>3. Failed(t) = Failed(s)
    BY <2>2 DEF Failed
  <2>4. KeepsClear(s, t)
    BY <1>3, <2>2, <2>3 DEF KeepsClear, Clear, IndexSound
  <2>5. Clear(t.tip, t)
    BY <2>2, <2>4, <1>0 DEF IndexSound, KeepsClear, Indexes
  <2>6. IndexSound(t)
    BY <2>2, <2>3, <2>5 DEF IndexSound, CandidatesAhead, FailedInherited
  <2> QED BY <2>2, <2>4, <2>6
<1> QED BY <1>1, <1>2, <1>3

\* A block that fails ContextualCheckBlock has no data, so it is in no clear chain.
LEMMA ContextBadSound ==
    ASSUME NEW s, IndexSound(s), NEW b \in s.known \ s.data,
           NEW t, t = [s EXCEPT !.failedValid = @ \cup {b}]
    PROVE  IndexSound(t) /\ KeepsClear(s, t) /\ t.tip = s.tip
<1>0. s \in Indexes
  BY DEF IndexSound
<1>1. /\ t \in Indexes /\ t.known = s.known /\ t.data = s.data /\ t.tip = s.tip
      /\ t.failedValid = s.failedValid \cup {b} /\ t.failedChild = s.failedChild
      /\ t.conflicting = s.conflicting
      /\ t.failedBlocks = s.failedBlocks /\ t.candidates = s.candidates
  BY <1>0 DEF Indexes
<1>2. Failed(t) = Failed(s) \cup {b}
  BY <1>1 DEF Failed
<1>3. KeepsClear(s, t)
  BY <1>1, <1>2 DEF KeepsClear, Clear
<1>4. Clear(t.tip, t)
  BY <1>1, <1>3, <1>0 DEF IndexSound, KeepsClear, Indexes
<1> QED BY <1>1, <1>2, <1>3, <1>4 DEF IndexSound, CandidatesAhead, FailedInherited

-----------------------------------------------------------------------------
\* Steps that change no mark.
LEMMA UnmarkedSound ==
    ASSUME NEW s, IndexSound(s), NEW t \in Indexes, t.known = s.known, t.tip = s.tip,
           s.data \subseteq t.data, t.data \subseteq t.known,
           t.failedValid = s.failedValid, t.failedChild = s.failedChild,
           t.conflicting = s.conflicting, t.failedBlocks = s.failedBlocks,
           CandidatesAhead(t)
    PROVE  IndexSound(t) /\ KeepsClear(s, t)
<1>1. Failed(t) = Failed(s) /\ s.tip \in Blocks
  BY DEF Failed, IndexSound, Indexes
<1>2. KeepsClear(s, t)
  BY <1>1 DEF KeepsClear, Clear
<1>3. Clear(t.tip, t)
  BY <1>1, <1>2 DEF KeepsClear, IndexSound
<1> QED BY <1>1, <1>2, <1>3 DEF IndexSound, FailedInherited

\* Blocks that are linked, in whatever order.
LEMMA LinkedSound ==
    ASSUME NEW s, IndexSound(s), NEW S \in SUBSET Blocks, NEW order \in SetToSeqs(S)
    PROVE  IndexSound(Linked(order, s)) /\ KeepsClear(s, Linked(order, s)) /\ Linked(order, s).tip = s.tip
<1> DEFINE new == ToSet(order)
           place(x) == CHOOSE i \in DOMAIN order : order[i] = x
           seq == [x \in Blocks |-> IF x \in new THEN s.nextSeq + place(x) - 1 ELSE s.seq[x]]
           t == [s EXCEPT !.linked = @ \cup new, !.unlinked = @ \ new, !.seq = seq,
                          !.nextSeq = @ + Len(order)]
           C == t.candidates \cup {x \in new \ t.conflicting : ~Worse(x, t.tip, t)}
<1>0. s \in Indexes
  BY DEF IndexSound
<1>1. Linked(order, s) = [t EXCEPT !.candidates = C]
  BY Zenon DEF Linked
<1>2. Cardinality(S) \in Nat
  BY TreeAssumption, FS_Subset, FS_CardinalityType
<1>3. /\ new \in SUBSET Blocks /\ Len(order) \in Nat /\ DOMAIN order \subseteq Nat
      /\ \A x \in new : \E i \in DOMAIN order : order[i] = x
  <2>1. order \in [1..Cardinality(S) -> S]
    BY DEF SetToSeqs
  <2> QED BY <1>2, <2>1 DEF ToSet
<1>4. seq \in [Blocks -> Int]
  <2> SUFFICES ASSUME NEW x \in Blocks
               PROVE  (IF x \in new THEN s.nextSeq + place(x) - 1 ELSE s.seq[x]) \in Int
    OBVIOUS
  <2>1. x \in new => place(x) \in Nat
    <3> HIDE DEF new
    <3> QED BY <1>3
  <2> HIDE DEF place
  <2> QED BY <1>0, <2>1 DEF Indexes
<1> HIDE DEF new, seq
<1>types. /\ s.linked \cup new \in SUBSET Blocks /\ s.unlinked \ new \in SUBSET Blocks
       /\ s.nextSeq + Len(order) \in Nat
  BY <1>0, <1>3 DEF Indexes
<1>5. /\ t \in Indexes /\ t.known = s.known /\ t.data = s.data /\ t.tip = s.tip
      /\ t.failedValid = s.failedValid /\ t.failedChild = s.failedChild
      /\ t.conflicting = s.conflicting /\ t.failedBlocks = s.failedBlocks
      /\ t.candidates = s.candidates
  BY <1>0, <1>4, <1>types DEF Indexes
<1> HIDE DEF t
<1>6. IndexSound(t) /\ KeepsClear(s, t)
  BY <1>5, UnmarkedSound DEF IndexSound, CandidatesAhead
<1>7. C \in SUBSET Blocks /\ \A c \in C : c \in t.candidates \/ ~Worse(c, t.tip, t)
  BY <1>3, <1>5 DEF Indexes
<1> HIDE DEF C
<1>8. IndexSound(Linked(order, s)) /\ KeepsClear(t, Linked(order, s))
  BY <1>1, <1>6, <1>7, CandidatesSound
<1>9. Linked(order, s).tip = s.tip
  BY <1>1, <1>5, <1>7 DEF Indexes
<1> QED BY <1>6, <1>8, <1>9 DEF KeepsClear

LEMMA ReceivedSound ==
    ASSUME NEW s, IndexSound(s), NEW b \in s.known, NEW t \in ReceivedBlockTransactions(b, s)
    PROVE  IndexSound(t) /\ KeepsClear(s, t) /\ t.tip = s.tip
<1> DEFINE u == [s EXCEPT !.data = @ \cup {b}]
<1>0. s \in Indexes /\ b \in Blocks
  BY DEF IndexSound, Indexes
<1>1. /\ u \in Indexes /\ u.known = s.known /\ u.data = s.data \cup {b} /\ u.tip = s.tip
      /\ u.failedValid = s.failedValid /\ u.failedChild = s.failedChild
      /\ u.conflicting = s.conflicting /\ u.failedBlocks = s.failedBlocks
      /\ u.candidates = s.candidates
  BY <1>0 DEF Indexes
<1>2. \/ \E q \in LinkOrders(b, u) : t = Linked(q, u)
      \/ t = u
      \/ t = [u EXCEPT !.unlinked = @ \cup {b}]
  BY DEF ReceivedBlockTransactions
<1> HIDE DEF u
<1>3. IndexSound(u) /\ KeepsClear(s, u)
  BY <1>1, UnmarkedSound DEF IndexSound, CandidatesAhead
<1>4. CASE \E q \in LinkOrders(b, u) : t = Linked(q, u)
  <2>1. PICK q \in LinkOrders(b, u) : t = Linked(q, u)
    BY <1>4
  <2>2. NewlyLinked(b, u) \in SUBSET Blocks /\ q \in SetToSeqs(NewlyLinked(b, u))
    BY <1>0, <1>1 DEF NewlyLinked, LinkOrders, Indexes
  <2>3. IndexSound(t) /\ KeepsClear(u, t) /\ t.tip = u.tip
    BY <1>3, <2>1, <2>2, LinkedSound
  <2> QED BY <1>1, <1>3, <2>3 DEF KeepsClear
<1>5. CASE t = u
  BY <1>1, <1>3, <1>5
<1>6. CASE t = [u EXCEPT !.unlinked = @ \cup {b}]
  <2>1. /\ t \in Indexes /\ t.known = s.known /\ t.data = s.data \cup {b} /\ t.tip = s.tip
        /\ t.failedValid = s.failedValid /\ t.failedChild = s.failedChild
        /\ t.conflicting = s.conflicting /\ t.failedBlocks = s.failedBlocks
        /\ t.candidates = s.candidates
    BY <1>0, <1>1, <1>6 DEF Indexes
  <2> QED BY <2>1, UnmarkedSound DEF IndexSound, CandidatesAhead
<1> QED BY <1>2, <1>4, <1>5, <1>6

\* ResetBlockFailureFlags leaves no mark of a child whose parent it has cleared:
\* the child is below b, and cleared too, or it is made the failed block.
LEMMA ResetSound ==
    ASSUME NEW s, IndexSound(s), NEW b \in Blocks, NEW r, r = ResetBlockFailureFlags(b, s)
    PROVE  IndexSound(r) /\ KeepsClear(s, r) /\ r.tip = s.tip
<1> DEFINE cleared == {x \in Failed(s) : b \in Chain[x] \/ x \in Chain[b]}
           roots == cleared \cap Chain[b]
           t == [s EXCEPT !.failedValid = @ \ cleared, !.failedChild = @ \ cleared]
           orphans == {x \in t.failedChild : Parent[x] \in roots}
           C == (t.candidates \cup {x \in (cleared \cap t.linked) \ t.conflicting :
                                      Worse(t.tip, x, t)}) \ orphans
<1>0. s \in Indexes /\ s.tip \in Blocks
  BY DEF IndexSound, Indexes
<1>1. r = [t EXCEPT !.failedValid = @ \cup orphans,
                    !.failedBlocks = (@ \ cleared) \cup orphans, !.candidates = C]
  BY Zenon DEF ResetBlockFailureFlags
<1>2. cleared \in SUBSET Blocks
  BY <1>0 DEF Failed, Indexes
<1>3. /\ t \in Indexes /\ t.known = s.known /\ t.data = s.data /\ t.tip = s.tip
      /\ t.failedValid = s.failedValid \ cleared /\ t.failedChild = s.failedChild \ cleared
      /\ t.conflicting = s.conflicting /\ t.failedBlocks = s.failedBlocks
      /\ t.candidates = s.candidates /\ t.seq = s.seq
  <2> HIDE DEF cleared
  <2> QED BY <1>0, <1>2 DEF Indexes
<1> HIDE DEF t
<1>4. orphans \in SUBSET t.failedChild /\ orphans \in SUBSET Blocks /\ C \in SUBSET Blocks
  BY <1>2, <1>3 DEF Indexes
<1>5. /\ r \in Indexes /\ r.known = s.known /\ r.data = s.data /\ r.tip = s.tip
      /\ r.failedValid = (s.failedValid \ cleared) \cup orphans
      /\ r.failedChild = s.failedChild \ cleared
      /\ r.conflicting = s.conflicting /\ r.failedBlocks = (s.failedBlocks \ cleared) \cup orphans
      /\ r.candidates = C
  <2> DEFINE fv == t.failedValid \cup orphans
             fb == (t.failedBlocks \ cleared) \cup orphans
  <2>1. fv \in SUBSET Blocks /\ fb \in SUBSET Blocks /\ C \in SUBSET Blocks
    <3> HIDE DEF cleared, orphans, C
    <3> QED BY <1>3, <1>4 DEF Indexes
  <2>2. r = [t EXCEPT !.failedValid = fv, !.failedBlocks = fb, !.candidates = C]
    BY <1>1
  <2> HIDE DEF cleared, orphans, C, fv, fb
  <2>3. /\ r \in Indexes /\ r.known = t.known /\ r.data = t.data /\ r.tip = t.tip
        /\ r.failedValid = fv /\ r.failedChild = t.failedChild
        /\ r.conflicting = t.conflicting /\ r.failedBlocks = fb /\ r.candidates = C
    BY <1>3, <2>1, <2>2 DEF Indexes
  <2> QED BY <1>3, <2>3 DEF fv, fb
<1>6. Failed(r) = Failed(s) \ cleared
  BY <1>3, <1>4, <1>5 DEF Failed
<1>7. KeepsClear(s, r)
  <2> HIDE DEF cleared
  <2> QED BY <1>5, <1>6 DEF KeepsClear, Clear
<1>8. Clear(r.tip, r)
  BY <1>0, <1>5, <1>7 DEF KeepsClear, IndexSound
<1>9. FailedInherited(r)
  <2> SUFFICES ASSUME NEW y \in r.failedChild \ r.failedValid
               PROVE  y # Genesis /\ Parent[y] \in Failed(r)
    BY DEF FailedInherited
  <2>1. /\ y \in s.failedChild /\ y \notin cleared /\ y \notin orphans /\ y \notin s.failedValid
        /\ y \in Blocks /\ y \in Failed(s)
    BY <1>0, <1>5 DEF Indexes, Failed
  <2>2. y # Genesis /\ Parent[y] \in Failed(s)
    BY <2>1 DEF IndexSound, FailedInherited
  <2>3. ASSUME Parent[y] \in cleared PROVE FALSE
    <3>1. Parent[y] \notin roots
      BY <1>3, <2>1
    <3>2. b \in Chain[Parent[y]]
      BY <2>3, <3>1
    <3>3. b \in Chain[y]
      BY <2>1, <2>2, <3>2, ChainDef
    <3> QED BY <2>1, <3>3
  <2> QED BY <1>6, <2>2, <2>3
<1>10. CandidatesAhead(r)
  <2>1. \A c \in C : c \in s.candidates \/ Worse(s.tip, c, t)
    BY <1>3
  <2>2. \A c \in Chain[s.tip] \ {s.tip} : ~Worse(s.tip, c, t)
    <3> SUFFICES ASSUME NEW c \in Chain[s.tip] \ {s.tip} PROVE ~Worse(s.tip, c, t)
      OBVIOUS
    <3>1. ChainWork[c] < ChainWork[s.tip] /\ ChainWork[c] \in Nat /\ ChainWork[s.tip] \in Nat
      BY <1>0, ChainWorkGrows, ChainDef, TreeAssumption
    <3> QED BY <3>1 DEF Worse
  <2> HIDE DEF C
  <2> QED BY <1>5, <2>1, <2>2 DEF IndexSound, CandidatesAhead
<1>11. r.failedBlocks \subseteq r.failedValid
  BY <1>5 DEF IndexSound
<1> QED BY <1>5, <1>7, <1>8, <1>9, <1>10, <1>11 DEF IndexSound

LEMMA PreciousSound ==
    ASSUME NEW s, IndexSound(s), NEW b \in Blocks, ChainWork[b] >= ChainWork[s.tip],
           NEW r, r = PreciousBlock(b, s)
    PROVE  IndexSound(r) /\ KeepsClear(s, r) /\ r.tip = s.tip
<1> DEFINE id == IF ChainWork[s.tip] > s.lastPrecious THEN -1 ELSE s.reverseSeq
           t == [s EXCEPT !.seq[b] = id, !.reverseSeq = id - 1,
                          !.lastPrecious = ChainWork[s.tip], !.candidates = @ \ {b}]
           u == [t EXCEPT !.candidates = @ \cup {b}]
<1>0. s \in Indexes /\ s.tip \in Blocks /\ ChainWork[s.tip] \in Nat
  BY TreeAssumption DEF IndexSound, Indexes
<1>1. r = IF b \in Connectable(t) \ t.conflicting THEN PruneBlockIndexCandidates(u) ELSE t
  BY Zenon DEF PreciousBlock
<1>2. id \in Int
  BY <1>0 DEF Indexes
<1> HIDE DEF id
<1>3. /\ t \in Indexes /\ t.known = s.known /\ t.data = s.data /\ t.tip = s.tip
      /\ t.failedValid = s.failedValid /\ t.failedChild = s.failedChild
      /\ t.conflicting = s.conflicting /\ t.failedBlocks = s.failedBlocks
      /\ t.candidates = s.candidates \ {b}
  <2> DEFINE seq == [s.seq EXCEPT ![b] = id]
             C == s.candidates \ {b}
             w == ChainWork[s.tip]
             rev == id - 1
  <2>1. seq \in [Blocks -> Int] /\ C \in SUBSET Blocks /\ w \in Nat /\ rev \in Int
    BY <1>0, <1>2 DEF Indexes
  <2>2. t = [s EXCEPT !.seq = seq, !.reverseSeq = rev, !.lastPrecious = w, !.candidates = C]
    OBVIOUS
  <2> HIDE DEF t, seq, C, w, rev
  <2>3. /\ t \in Indexes /\ t.known = s.known /\ t.data = s.data /\ t.tip = s.tip
        /\ t.failedValid = s.failedValid /\ t.failedChild = s.failedChild
        /\ t.conflicting = s.conflicting /\ t.failedBlocks = s.failedBlocks
        /\ t.candidates = C
    BY <1>0, <2>1, <2>2 DEF Indexes
  <2> QED BY <2>3 DEF C
<1> HIDE DEF t
<1>4. /\ u \in Indexes /\ u.known = t.known /\ u.data = t.data /\ u.tip = t.tip
      /\ u.failedValid = t.failedValid /\ u.failedChild = t.failedChild
      /\ u.conflicting = t.conflicting /\ u.failedBlocks = t.failedBlocks
      /\ u.candidates = t.candidates \cup {b}
  BY <1>3 DEF Indexes
<1> HIDE DEF u
<1>5. IndexSound(t) /\ KeepsClear(s, t)
  BY <1>3, UnmarkedSound DEF IndexSound, CandidatesAhead
<1>6. b \notin Chain[s.tip] \ {s.tip}
  <2>1. b \in Chain[s.tip] /\ b # s.tip => ChainWork[b] < ChainWork[s.tip]
    BY <1>0, ChainWorkGrows
  <2> QED BY <1>0, <2>1, TreeAssumption
<1>7. IndexSound(u) /\ KeepsClear(t, u)
  BY <1>3, <1>4, <1>5, <1>6, UnmarkedSound DEF IndexSound, CandidatesAhead
<1>8. CASE r = t
  BY <1>3, <1>5, <1>8
<1>9. CASE r = PruneBlockIndexCandidates(u)
  BY <1>3, <1>4, <1>5, <1>7, <1>9, PruneSound DEF KeepsClear
<1> QED BY <1>1, <1>8, <1>9

\* The index after the calls of MarkConflictingBlock, but for their sweeps.
CutBack(b, s) ==
    LET marked == ToMarkConflicting(b, s)
        cut == {x \in Chain[s.tip] : Chain[x] \cap marked # {}}
        fork == CHOOSE x \in Chain[s.tip] \ cut :
                    \A y \in Chain[s.tip] \ cut : ChainWork[y] <= ChainWork[x]
    IN  [s EXCEPT !.tip = fork, !.conflicting = @ \cup marked \cup cut,
                  !.candidates = @ \ (marked \cup cut)]

\* EnforceBlock cuts the active chain below the first block that it marks.
LEMMA CutBackSound ==
    ASSUME NEW s, IndexSound(s), NEW b \in Blocks, NEW t, t = CutBack(b, s)
    PROVE  /\ IndexSound(t) /\ t.tip \in Chain[s.tip]
           /\ t.data = s.data /\ t.linked = s.linked /\ t.unlinked = s.unlinked
           /\ t.seq = s.seq /\ t.candidates \subseteq s.candidates
           /\ Chain[t.tip] \cap ToMarkConflicting(b, s) = {}
           /\ \A c \in t.conflicting \ s.conflicting :
                 c \in Blocks /\ Chain[c] \cap ToMarkConflicting(b, s) # {}
<1> DEFINE marked == ToMarkConflicting(b, s)
           cut == {x \in Chain[s.tip] : Chain[x] \cap marked # {}}
           fork == CHOOSE x \in Chain[s.tip] \ cut :
                     \A y \in Chain[s.tip] \ cut : ChainWork[y] <= ChainWork[x]
<1>0. s \in Indexes /\ s.tip \in Blocks /\ Chain[s.tip] \in SUBSET Blocks /\ Chain[b] \in SUBSET Blocks
  BY ChainDef DEF IndexSound, Indexes
<1>1. t = [s EXCEPT !.tip = fork, !.conflicting = @ \cup marked \cup cut,
                    !.candidates = @ \ (marked \cup cut)]
  BY Zenon DEF CutBack
<1>2. marked \in SUBSET (Blocks \ {Genesis})
  BY <1>0 DEF ToMarkConflicting, Siblings, Indexes
<1>3. fork \in Chain[s.tip] \ cut
  <2>1. Genesis \in Chain[s.tip] /\ Genesis \notin cut
    BY <1>0, <1>2, ChainHolds, ChainDef
  <2>2. Chain[s.tip] \ cut \in SUBSET Blocks /\ Chain[s.tip] \ cut # {}
    BY <1>0, <2>1
  <2> HIDE DEF cut
  <2>3. \E x \in Chain[s.tip] \ cut : \A y \in Chain[s.tip] \ cut : ChainWork[y] <= ChainWork[x]
    BY <2>2, HighestExists
  <2> QED BY <2>3
<1>4. /\ fork \in Blocks /\ cut \in SUBSET Blocks /\ Chain[fork] \subseteq Chain[s.tip]
      /\ Chain[fork] \cap marked = {}
  BY <1>0, <1>3, ChainHolds
<1>5. Chain[fork] \cap cut = {}
  BY <1>4, ChainHolds
<1>6. /\ t \in Indexes /\ t.known = s.known /\ t.data = s.data /\ t.tip = fork
      /\ t.failedValid = s.failedValid /\ t.failedChild = s.failedChild
      /\ t.conflicting = s.conflicting \cup marked \cup cut /\ t.failedBlocks = s.failedBlocks
      /\ t.candidates \subseteq s.candidates
      /\ t.linked = s.linked /\ t.unlinked = s.unlinked /\ t.seq = s.seq
  <2> DEFINE G == s.conflicting \cup marked \cup cut
             C == s.candidates \ (marked \cup cut)
  <2>1. t = [s EXCEPT !.tip = fork, !.conflicting = G, !.candidates = C]
    BY <1>1
  <2> HIDE DEF marked, cut, fork
  <2>2. G \in SUBSET Blocks /\ C \in SUBSET Blocks /\ C \subseteq s.candidates
    BY <1>0, <1>2, <1>4 DEF Indexes
  <2>3. G = s.conflicting \cup marked \cup cut
    OBVIOUS
  <2> HIDE DEF G, C
  <2> QED BY <1>0, <1>4, <2>1, <2>2, <2>3 DEF Indexes
<1>7. \A c \in t.conflicting \ s.conflicting : c \in Blocks /\ Chain[c] \cap marked # {}
  <2>1. \A c \in marked : c \in Blocks /\ c \in Chain[c]
    BY <1>2, ChainHolds
  <2>2. \A c \in cut : c \in Blocks /\ Chain[c] \cap marked # {}
    BY <1>4
  <2> HIDE DEF marked, cut, fork
  <2> QED BY <1>6, <2>1, <2>2
<1> HIDE DEF marked, cut, fork
<1>8. IndexSound(t)
  <2>1. Failed(t) = Failed(s)
    BY <1>6 DEF Failed
  <2>2. Clear(fork, t)
    BY <1>4, <1>5, <1>6, <2>1 DEF IndexSound, Clear
  <2>3. CandidatesAhead(t)
    <3>1. s.tip # fork => s.tip \notin Chain[fork]
      BY <1>0, <1>3, ChainWorkGrows
    <3> QED BY <1>4, <1>6, <3>1 DEF IndexSound, CandidatesAhead
  <2> QED BY <1>6, <2>1, <2>2, <2>3 DEF IndexSound, FailedInherited
<1> QED BY <1>3, <1>4, <1>6, <1>7, <1>8 DEF marked

\* EnforceBlock in these terms.
LEMMA EnforceIs ==
    ASSUME NEW s, NEW b
    PROVE  \E u : /\ u = IF ToMarkConflicting(b, s) = {} THEN s ELSE AddCandidates(CutBack(b, s))
                  /\ EnforceBlock(b, s) = IF b \in Failed(u) \cup (Blocks \ u.data)
                                         THEN ResetBlockFailureFlags(b, u) ELSE u
<1> DEFINE u == IF ToMarkConflicting(b, s) = {} THEN s ELSE AddCandidates(CutBack(b, s))
<1>1. EnforceBlock(b, s) = IF b \in Failed(u) \cup (Blocks \ u.data)
                           THEN ResetBlockFailureFlags(b, u) ELSE u
  BY Zenon DEF EnforceBlock, CutBack
<1> HIDE DEF u
<1> QED BY <1>1 DEF u

LEMMA EnforceSound ==
    ASSUME NEW s, IndexSound(s), NEW b \in Blocks
    PROVE  IndexSound(EnforceBlock(b, s))
<1>1. PICK u : /\ u = IF ToMarkConflicting(b, s) = {} THEN s ELSE AddCandidates(CutBack(b, s))
               /\ EnforceBlock(b, s) = IF b \in Failed(u) \cup (Blocks \ u.data)
                                      THEN ResetBlockFailureFlags(b, u) ELSE u
  BY EnforceIs
<1>2. IndexSound(u)
  BY <1>1, CutBackSound, AddCandidatesSound
<1> QED BY <1>1, <1>2, ResetSound

\* The startup: LoadBlockIndex marks what builds on a failed block.
LEMMA LoadSound ==
    ASSUME NEW s, IndexSound(s), NEW kept \in SUBSET s.conflicting,
           NEW k, k = [s EXCEPT !.conflicting = kept], NEW r, r = LoadBlockIndex(k)
    PROVE  /\ IndexSound(r) /\ r.data = s.data /\ r.tip = s.tip
           /\ r.linked = {b \in s.data : Chain[b] \subseteq s.data}
           /\ r.unlinked = s.data \ r.linked
           /\ \A c \in Blocks : c \in r.candidates <=> c \in Connectable(r) /\ ~Worse(c, r.tip, r)
<1> DEFINE failed == {b \in k.known : Chain[b] \cap Failed(k) # {}}
           linked == {b \in k.data : Chain[b] \subseteq k.data}
           seq == [b \in Blocks |-> 0]
           t == [k EXCEPT !.failedChild = @ \cup (failed \ Failed(k)),
                          !.failedBlocks = {}, !.seq = seq,
                          !.nextSeq = 1, !.reverseSeq = -1, !.lastPrecious = 0,
                          !.linked = linked, !.unlinked = k.data \ linked]
           C == Connectable(t)
           u == [t EXCEPT !.candidates = C]
<1>0. s \in Indexes /\ s.tip \in Blocks
  BY DEF IndexSound, Indexes
<1>1. LoadBlockIndex(k) = PruneBlockIndexCandidates(u)
  BY Zenon DEF LoadBlockIndex
<1>2. /\ k \in Indexes /\ k.known = s.known /\ k.data = s.data /\ k.tip = s.tip
      /\ k.failedValid = s.failedValid /\ k.failedChild = s.failedChild
      /\ k.conflicting = kept
  BY <1>0 DEF Indexes
<1>3. Failed(k) = Failed(s)
  BY <1>2 DEF Failed
<1>4. failed \in SUBSET Blocks /\ linked \in SUBSET Blocks /\ k.data \ linked \in SUBSET Blocks
      /\ seq \in [Blocks -> Int] /\ 1 \in Nat /\ -1 \in Int /\ 0 \in Nat
      /\ k.failedChild \cup (failed \ Failed(k)) \in SUBSET Blocks
  BY <1>2 DEF Indexes
<1>5. /\ t \in Indexes /\ t.known = s.known /\ t.data = s.data /\ t.tip = s.tip
      /\ t.failedValid = s.failedValid
      /\ t.failedChild = s.failedChild \cup (failed \ Failed(s))
      /\ t.conflicting = kept /\ t.failedBlocks = {} /\ t.candidates = k.candidates
      /\ t.linked = linked /\ t.unlinked = k.data \ linked
  <2> HIDE DEF failed, linked, seq
  <2> QED BY <1>2, <1>3, <1>4 DEF Indexes
<1> HIDE DEF t
<1>6. C \in SUBSET Blocks
  BY <1>5 DEF Connectable, Indexes
<1> HIDE DEF C
<1>7. /\ u \in Indexes /\ u.known = s.known /\ u.data = s.data /\ u.tip = s.tip
      /\ u.failedValid = s.failedValid
      /\ u.failedChild = s.failedChild \cup (failed \ Failed(s))
      /\ u.conflicting = kept /\ u.failedBlocks = {} /\ u.candidates = C
      /\ u.linked = linked /\ u.unlinked = k.data \ linked
  <2> HIDE DEF failed, linked
  <2> QED BY <1>5, <1>6 DEF Indexes
<1> HIDE DEF u
<1>8. LoadBlockIndex(k) = [u EXCEPT !.candidates = {c \in C : ~Worse(c, s.tip, u)}]
  BY <1>1, <1>7 DEF PruneBlockIndexCandidates
<1> DEFINE D == {c \in C : ~Worse(c, s.tip, u)}
           v == LoadBlockIndex(k)
<1>9. D \in SUBSET Blocks /\ \A c \in D : ~Worse(c, s.tip, u)
  BY <1>6
<1>10. /\ v \in Indexes /\ v.known = s.known /\ v.data = s.data /\ v.tip = s.tip
       /\ v.failedValid = s.failedValid
       /\ v.failedChild = s.failedChild \cup (failed \ Failed(s))
       /\ v.conflicting = kept /\ v.failedBlocks = {} /\ v.candidates = D
       /\ v.linked = linked /\ v.unlinked = k.data \ linked /\ v.seq = u.seq
  <2> HIDE DEF failed, linked, D
  <2> QED BY <1>7, <1>8, <1>9 DEF Indexes, D
<1> HIDE DEF D, v
<1>11. Failed(v) = Failed(s) \cup failed
  BY <1>10 DEF Failed
<1>12. CandidatesAhead(v)
  BY <1>0, <1>7, <1>9, <1>10, AncestorWorse DEF CandidatesAhead
<1>13. Clear(v.tip, v)
  <2>1. \A c \in Chain[s.tip] : Chain[c] \subseteq Chain[s.tip]
    BY <1>0, ChainHolds
  <2>2. Chain[s.tip] \cap failed = {}
    BY <1>3, <2>1 DEF IndexSound, Clear
  <2> QED BY <1>10, <1>11, <2>2 DEF IndexSound, Clear
<1>14. FailedInherited(v)
  <2> SUFFICES ASSUME NEW y \in failed \ Failed(s)
               PROVE  y # Genesis /\ Parent[y] \in failed
    BY <1>10, <1>11 DEF IndexSound, FailedInherited
  <2>1. y \in s.known /\ y \in Blocks
    BY <1>0, <1>2 DEF Indexes
  <2>2. PICK z \in Chain[y] : z \in Failed(s)
    BY <1>3
  <2>3. y # Genesis /\ z \in Chain[Parent[y]]
    BY <2>1, <2>2, ChainWorkGrows
  <2>4. Parent[y] \in s.known
    BY <2>1, <2>3 DEF IndexSound
  <2> QED BY <1>2, <1>3, <2>2, <2>3, <2>4
<1>15. IndexSound(v)
  BY <1>10, <1>12, <1>13, <1>14 DEF IndexSound
<1>16. Connectable(v) = C /\ \A c \in Blocks : c \in D <=> c \in C /\ ~Worse(c, v.tip, v)
  <2>1. Connectable(v) = C
    BY <1>5, <1>7, <1>10 DEF C, Connectable, Failed
  <2>2. \A c \in Blocks : Worse(c, v.tip, v) <=> Worse(c, s.tip, u)
    BY <1>10 DEF Worse
  <2> QED BY <2>1, <2>2 DEF D
<1> QED BY <1>2, <1>10, <1>15, <1>16 DEF v

LEMMA StartupSound ==
    ASSUME NEW s, IndexSound(s), NEW kept \in SUBSET s.conflicting
    PROVE  IndexSound(Startup([s EXCEPT !.conflicting = kept]))
<1> DEFINE v == LoadBlockIndex([s EXCEPT !.conflicting = kept])
<1>1. IndexSound(v)
  BY LoadSound
<1>2. \/ Startup([s EXCEPT !.conflicting = kept]) = v
      \/ /\ Failed(v) # {}
         /\ Startup([s EXCEPT !.conflicting = kept]) = ResetBlockFailureFlags(BestInvalid(v), v)
  BY Zenon DEF Startup
<1> HIDE DEF v
<1>3. Failed(v) # {} => BestInvalid(v) \in Blocks
  <2>1. v \in Indexes /\ Failed(v) \subseteq Blocks
    BY <1>1 DEF Failed, IndexSound, Indexes
  <2> QED BY <2>1, BestInvalidIs
<1> QED BY <1>1, <1>2, <1>3, ResetSound

\* A block of the active chain that InvalidateBlock disconnects and marks.  The
\* block it would give BLOCK_FAILED_CHILD instead lies below the tip, and no
\* block of the active chain is failed.
LEMMA InvalidateTipSound ==
    ASSUME NEW s, IndexSound(s), s.tip # Genesis, NEW B \in SUBSET Blocks,
           \A c \in B : ~Worse(c, Parent[s.tip], s),
           NEW t, t = [s EXCEPT !.tip = Parent[s.tip], !.failedValid = @ \cup {s.tip},
                                !.candidates = (@ \ {s.tip}) \cup {Parent[s.tip]} \cup B]
    PROVE  IndexSound(t) /\ s.tip \notin Chain[t.tip]
<1> DEFINE prev == Parent[s.tip]
           fv == s.failedValid \cup {s.tip}
           C == (s.candidates \ {s.tip}) \cup {prev} \cup B
<1>0. s \in Indexes /\ s.tip \in Blocks /\ prev \in Blocks /\ Chain[s.tip] = {s.tip} \cup Chain[prev]
  BY TreeAssumption, ChainDef DEF IndexSound, Indexes
<1>1. s.tip \notin Chain[prev]
  <2>1. prev \in Chain[s.tip] /\ prev # s.tip
    BY <1>0, ChainHolds, TreeAssumption
  <2> QED BY <1>0, <2>1, ChainWorkGrows
<1>2. fv \in SUBSET Blocks /\ C \in SUBSET Blocks
  BY <1>0 DEF Indexes
<1>3. /\ t \in Indexes /\ t.known = s.known /\ t.data = s.data /\ t.tip = prev
      /\ t.failedValid = fv /\ t.failedChild = s.failedChild
      /\ t.conflicting = s.conflicting /\ t.failedBlocks = s.failedBlocks
      /\ t.candidates = C
  <2>1. t = [s EXCEPT !.tip = prev, !.failedValid = fv, !.candidates = C]
    OBVIOUS
  <2> HIDE DEF prev, fv, C
  <2> QED BY <1>0, <1>2, <2>1 DEF Indexes
<1>4. Failed(t) = Failed(s) \cup {s.tip}
  BY <1>3 DEF Failed
<1>5. Clear(prev, t)
  BY <1>0, <1>1, <1>3, <1>4 DEF IndexSound, Clear
<1>6. CandidatesAhead(t)
  <2>1. \A c \in C : c \in s.candidates \ {s.tip} \/ c = prev \/ ~Worse(c, prev, s)
    OBVIOUS
  <2> HIDE DEF C, prev
  <2>2. \A c \in Chain[prev] \ {prev} : Worse(c, prev, s)
    BY <1>0, AncestorWorse
  <2> QED BY <1>0, <1>3, <2>1, <2>2 DEF IndexSound, CandidatesAhead
<1> QED BY <1>1, <1>3, <1>4, <1>5, <1>6 DEF IndexSound, FailedInherited

-----------------------------------------------------------------------------
\* The blocks with all their data are what their flags say, and the candidates
\* are among them and do not sort before the tip.
LinksSound(s) ==
    /\ s.linked \subseteq s.data /\ s.unlinked \subseteq s.data
    /\ s.linked \cap s.unlinked = {}
    /\ \A b \in s.linked : Chain[b] \subseteq s.linked
    /\ s.tip \in s.linked
    /\ \A c \in s.candidates : c \in s.linked /\ ~Worse(c, s.tip, s)

\* No candidate is missing that sorts neither before the tip nor before from.
\* The candidates with a failed or conflicting ancestor that have not been
\* marked for it belong to them: ResetBlockFailureFlags may make them usable
\* and adds only blocks that it takes a flag from.
Complete(s, from) ==
    \A b \in Connectable(s) \ s.conflicting :
        ~Worse(b, s.tip, s) /\ ~Worse(b, from, s) => b \in s.candidates

\* The blocks that Usable of ChainActivation is about.
UsableBlocks(s) ==
    {b \in s.linked : Chain[b] \cap (s.failedValid \cup s.conflicting) = {}}

LEMMA WorseSame ==
    ASSUME NEW s, NEW t, t.seq = s.seq, NEW a, NEW b
    PROVE  Worse(a, b, t) <=> Worse(a, b, s)
BY DEF Worse

LEMMA WorseTotal ==
    ASSUME NEW s \in Indexes, NEW a \in Blocks, NEW b \in Blocks
    PROVE  ~Worse(a, a, s) /\ (a # b => Worse(a, b, s) \/ Worse(b, a, s))
<1>1. /\ ChainWork[a] \in Nat /\ Address[a] \in Nat /\ s.seq[a] \in Int
      /\ ChainWork[b] \in Nat /\ Address[b] \in Nat /\ s.seq[b] \in Int
      /\ Address[a] = Address[b] => a = b
  BY TreeAssumption DEF Indexes
<1> QED BY <1>1 DEF Worse

\* A block does not sort before its ancestors.
LEMMA AncestorNotBetter ==
    ASSUME NEW s \in Indexes, NEW b \in Blocks, NEW c \in Chain[b]
    PROVE  c \in Blocks /\ ~Worse(b, c, s)
<1>1. c \in Blocks
  BY ChainDef
<1>2. CASE c = b
  BY <1>1, <1>2, WorseTotal
<1>3. CASE c # b
  BY <1>1, <1>3, AncestorWorse, WorseOrders
<1> QED BY <1>1, <1>2, <1>3

\* A usable block may be connected.
LEMMA UsableConnectable ==
    ASSUME NEW s, IndexSound(s), NEW b \in UsableBlocks(s)
    PROVE  b \in Connectable(s) \ s.conflicting
<1>1. b \in s.linked /\ b \in Chain[b]
  BY ChainHolds DEF UsableBlocks, IndexSound, Indexes
<1>2. b \notin Failed(s)
  BY CauseFound DEF UsableBlocks
<1> QED BY <1>1, <1>2 DEF Connectable, UsableBlocks

\* A clear chain that is linked may be connected.
LEMMA ClearConnectable ==
    ASSUME NEW s, IndexSound(s), NEW b \in s.linked, Clear(b, s)
    PROVE  b \in Connectable(s) \ s.conflicting
BY ChainHolds DEF Clear, Connectable, IndexSound, Indexes

\* Moving the tip down, and changing the candidates.
LEMMA LinksKept ==
    ASSUME NEW s \in Indexes, LinksSound(s), NEW t \in Indexes,
           t.linked = s.linked, t.unlinked = s.unlinked, s.data \subseteq t.data,
           t.seq = s.seq, t.tip \in Chain[s.tip],
           \A c \in t.candidates : c \in s.candidates \/ (c \in s.linked /\ ~Worse(c, t.tip, s))
    PROVE  LinksSound(t)
<1>0. s.tip \in Blocks /\ t.tip \in Blocks /\ t.candidates \subseteq Blocks
  BY DEF Indexes
<1>1. t.tip \in t.linked
  BY DEF LinksSound
<1>2. ASSUME NEW c \in t.candidates PROVE c \in t.linked /\ ~Worse(c, t.tip, t)
  <2>1. CASE c \in s.candidates
    <3>1. c \in s.linked /\ ~Worse(c, s.tip, s) /\ ~Worse(s.tip, t.tip, s)
      BY <1>0, <2>1, AncestorNotBetter DEF LinksSound
    <3> QED BY <1>0, <3>1, WorseOrders, WorseSame
  <2>2. CASE c \in s.linked /\ ~Worse(c, t.tip, s)
    BY <2>2, WorseSame
  <2> QED BY <2>1, <2>2
<1> QED BY <1>1, <1>2 DEF LinksSound

\* A step that only marks blocks, and drops the candidates that it marks.
OnlyMarks(s, t) ==
    /\ t \in Indexes
    /\ t.linked = s.linked /\ t.unlinked = s.unlinked /\ t.data = s.data
    /\ t.seq = s.seq /\ t.tip = s.tip
    /\ Failed(s) \cup s.conflicting \subseteq Failed(t) \cup t.conflicting
    /\ s.failedValid \cup s.conflicting \subseteq t.failedValid \cup t.conflicting
    /\ t.candidates \subseteq s.candidates
    /\ s.candidates \ t.candidates \subseteq Failed(t) \cup t.conflicting

LEMMA MarksKeep ==
    ASSUME NEW s \in Indexes, LinksSound(s), NEW t, OnlyMarks(s, t)
    PROVE  /\ LinksSound(t) /\ UsableBlocks(t) \subseteq UsableBlocks(s)
           /\ \A from : Complete(s, from) => Complete(t, from)
<1>1. LinksSound(t)
  BY LinksKept, ChainHolds DEF OnlyMarks, Indexes
<1>2. UsableBlocks(t) \subseteq UsableBlocks(s)
  BY DEF OnlyMarks, UsableBlocks
<1>3. ASSUME NEW from, Complete(s, from) PROVE Complete(t, from)
  <2> SUFFICES ASSUME NEW b \in Connectable(t) \ t.conflicting,
                      ~Worse(b, t.tip, t), ~Worse(b, from, t)
               PROVE  b \in t.candidates
    BY DEF Complete
  <2>1. b \in Connectable(s) \ s.conflicting
    BY DEF OnlyMarks, Connectable
  <2>2. ~Worse(b, s.tip, s) /\ ~Worse(b, from, s)
    BY WorseSame DEF OnlyMarks
  <2>3. b \in s.candidates
    BY <1>3, <2>1, <2>2 DEF Complete
  <2> QED BY <2>3 DEF OnlyMarks, Connectable
<1> QED BY <1>1, <1>2, <1>3

\* The steps of FindMostWorkChain and AcceptBlockHeader, and the failures found,
\* only mark.  The chain of a candidate is there, so what FindMostWorkChain
\* meets is failed or conflicting.
LEMMA DropChainMarks ==
    ASSUME NEW s, IndexSound(s), LinksSound(s), NEW b \in s.candidates, Unusable(b, s) # {}
    PROVE  OnlyMarks(s, DropChain(b, s))
<1> DEFINE x == FirstUnusable(b, s)
           above == Chain[b] \ Chain[x]
           failed == x \in Failed(s)
           conflict == ~failed /\ x \in s.conflicting
           t == DropChain(b, s)
<1>0. s \in Indexes /\ b \in Blocks /\ b \in s.linked
  BY DEF IndexSound, Indexes, LinksSound
<1>1. x \in Unusable(b, s)
  <2>1. Unusable(b, s) \in SUBSET Blocks
    BY <1>0, ChainDef DEF Unusable
  <2>2. \E y \in Unusable(b, s) : \A z \in Unusable(b, s) : ChainWork[z] <= ChainWork[y]
    BY <2>1, HighestExists
  <2> QED BY <2>2 DEF FirstUnusable
<1>2. x \in Chain[b] /\ x \in Blocks /\ above \in SUBSET Blocks /\ (failed \/ conflict)
  BY <1>0, <1>1, ChainDef DEF Unusable, LinksSound
<1>3. /\ t \in Indexes /\ t.data = s.data /\ t.tip = s.tip /\ t.failedValid = s.failedValid
      /\ t.linked = s.linked /\ t.unlinked = s.unlinked /\ t.seq = s.seq
      /\ t.failedChild = IF failed THEN s.failedChild \cup above ELSE s.failedChild
      /\ t.conflicting = IF conflict THEN s.conflicting \cup above ELSE s.conflicting
      /\ t.candidates = s.candidates \ (above \cup {x})
  <2> HIDE DEF x
  <2>1. t = [s EXCEPT !.failedChild = IF failed THEN @ \cup above ELSE @,
                      !.conflicting = IF conflict THEN @ \cup above ELSE @,
                      !.unlinked = IF failed \/ conflict THEN @ ELSE @ \cup above,
                      !.candidates = @ \ (above \cup {x})]
    BY DEF DropChain, x
  <2> HIDE DEF t, failed, conflict, above
  <2> QED BY <1>0, <1>2, <2>1 DEF Indexes
<1> HIDE DEF t, x, above
<1> QED BY <1>2, <1>3 DEF OnlyMarks, Failed, t

LEMMA InvalidFoundMarks ==
    ASSUME NEW s, IndexSound(s), NEW b \in Blocks
    PROVE  OnlyMarks(s, InvalidBlockFound(b, s))
<1> DEFINE t == InvalidBlockFound(b, s)
<1>1. /\ t \in Indexes /\ t.data = s.data /\ t.tip = s.tip
      /\ t.linked = s.linked /\ t.unlinked = s.unlinked /\ t.seq = s.seq
      /\ t.failedValid = s.failedValid \cup {b} /\ t.failedChild = s.failedChild
      /\ t.conflicting = s.conflicting /\ t.candidates = s.candidates \ {b}
  BY DEF IndexSound, Indexes, InvalidBlockFound
<1> HIDE DEF t
<1> QED BY <1>1 DEF OnlyMarks, Failed, t

LEMMA HeaderMarks ==
    ASSUME NEW s, IndexSound(s), NEW b \in Blocks \ {Genesis}, Parent[b] \in s.known,
           NEW conflicts \in BOOLEAN,
           NEW t, t = AcceptBlockHeader(b, s, conflicts)
    PROVE  OnlyMarks(s, t) /\ t.failedValid = s.failedValid
<1>0. s \in Indexes
  BY DEF IndexSound
<1>1. CASE t = s
  BY <1>0, <1>1 DEF OnlyMarks
<1>2. CASE t = MarkFailedBelow(b, s)
  <2> DEFINE above == Chain[Parent[b]] \
                        Chain[CHOOSE f \in FailedBelow(b, s) :
                                \A g \in FailedBelow(b, s) : Address[f] <= Address[g]]
             F == s.failedChild \cup above
  <2>1. F \in SUBSET Blocks /\ s.failedChild \subseteq F
    BY <1>0, ChainDef, TreeAssumption DEF Indexes
  <2>2. t = [s EXCEPT !.failedChild = F]
    BY <1>2 DEF MarkFailedBelow
  <2> HIDE DEF F
  <2> QED BY <1>0, <2>1, <2>2 DEF OnlyMarks, Failed, Indexes
<1>3. CASE \E C \in SUBSET Blocks : s.conflicting \subseteq C
                /\ t = [s EXCEPT !.known = @ \cup {b}, !.conflicting = C]
  <2>1. PICK C \in SUBSET Blocks : s.conflicting \subseteq C
                /\ t = [s EXCEPT !.known = @ \cup {b}, !.conflicting = C]
    BY <1>3
  <2>2. s.known \cup {b} \in SUBSET Blocks
    BY <1>0 DEF Indexes
  <2>3. /\ t \in Indexes /\ t.data = s.data /\ t.tip = s.tip
        /\ t.linked = s.linked /\ t.unlinked = s.unlinked /\ t.seq = s.seq
        /\ t.failedValid = s.failedValid /\ t.failedChild = s.failedChild
        /\ t.conflicting = C /\ t.candidates = s.candidates
    BY <1>0, <2>1, <2>2 DEF Indexes
  <2> QED BY <2>1, <2>3 DEF OnlyMarks, Failed
<1>4. \/ t = s
      \/ t = MarkFailedBelow(b, s)
      \/ t = [s EXCEPT !.known = @ \cup {b},
                       !.conflicting = IF conflicts THEN @ \cup {b} ELSE @]
  BY DEF AcceptBlockHeader
<1>5. ASSUME t = [s EXCEPT !.known = @ \cup {b},
                           !.conflicting = IF conflicts THEN @ \cup {b} ELSE @]
      PROVE  \E C \in SUBSET Blocks : s.conflicting \subseteq C
                /\ t = [s EXCEPT !.known = @ \cup {b}, !.conflicting = C]
  <2> DEFINE C == IF conflicts THEN s.conflicting \cup {b} ELSE s.conflicting
  <2>1. C \in SUBSET Blocks /\ s.conflicting \subseteq C
    BY <1>0 DEF Indexes
  <2>2. t = [s EXCEPT !.known = @ \cup {b}, !.conflicting = C]
    BY <1>5
  <2> HIDE DEF C
  <2> QED BY <2>1, <2>2
<1> QED BY <1>1, <1>2, <1>3, <1>4, <1>5

\* It marks a new block as conflicting, and only if told so.
LEMMA HeaderConflicts ==
    ASSUME NEW s, IndexSound(s), NEW b, NEW conflicts
    PROVE  \A c \in AcceptBlockHeader(b, s, conflicts).conflicting \ s.conflicting : c = b /\ conflicts
BY DEF AcceptBlockHeader, MarkFailedBelow, IndexSound, Indexes

LEMMA ContextBadMarks ==
    ASSUME NEW s, IndexSound(s), NEW b \in Blocks, NEW t, t = [s EXCEPT !.failedValid = @ \cup {b}]
    PROVE  OnlyMarks(s, t)
<1>1. /\ t \in Indexes /\ t.data = s.data /\ t.tip = s.tip
      /\ t.linked = s.linked /\ t.unlinked = s.unlinked /\ t.seq = s.seq
      /\ t.failedValid = s.failedValid \cup {b} /\ t.failedChild = s.failedChild
      /\ t.conflicting = s.conflicting /\ t.candidates = s.candidates
  BY DEF IndexSound, Indexes
<1> QED BY <1>1 DEF OnlyMarks, Failed

-----------------------------------------------------------------------------
\* DisconnectTip: what sorted before the tip and not before from, there was none.
LEMMA DisconnectLinks ==
    ASSUME NEW s, IndexSound(s), LinksSound(s), s.tip # Genesis,
           NEW t, t = [s EXCEPT !.tip = Parent[@]]
    PROVE  /\ LinksSound(t) /\ UsableBlocks(t) = UsableBlocks(s)
           /\ \A from \in Blocks : ~Worse(from, s.tip, s) /\ Complete(s, from)
                 => ~Worse(from, t.tip, t) /\ Complete(t, from)
<1>0. s \in Indexes /\ s.tip \in Blocks /\ Parent[s.tip] \in Blocks
  BY TreeAssumption DEF IndexSound, Indexes
<1>1. /\ t \in Indexes /\ t.data = s.data /\ t.tip = Parent[s.tip]
      /\ t.linked = s.linked /\ t.unlinked = s.unlinked /\ t.seq = s.seq
      /\ t.failedValid = s.failedValid /\ t.failedChild = s.failedChild
      /\ t.conflicting = s.conflicting /\ t.candidates = s.candidates
  BY <1>0 DEF Indexes
<1>2. t.tip \in Chain[s.tip]
  BY <1>0, <1>1, ChainDef, ChainHolds
<1>3. LinksSound(t)
  BY <1>0, <1>1, <1>2, LinksKept
<1>4. Failed(t) = Failed(s) /\ Connectable(t) = Connectable(s)
  BY <1>1 DEF Failed, Connectable
<1>5. ASSUME NEW from \in Blocks, ~Worse(from, s.tip, s), Complete(s, from)
      PROVE  ~Worse(from, t.tip, t) /\ Complete(t, from)
  <2>1. ~Worse(s.tip, t.tip, s)
    BY <1>0, <1>2, AncestorNotBetter
  <2>2. ~Worse(from, t.tip, t)
    <3>1. ~Worse(from, t.tip, s)
      BY <1>0, <1>1, <1>5, <2>1, WorseOrders
    <3> QED BY <1>1, <3>1, WorseSame
  <2>3. ASSUME NEW b \in Connectable(t) \ t.conflicting, ~Worse(b, from, t)
        PROVE  b \in t.candidates
    <3>1. b \in Blocks /\ ~Worse(b, from, s)
      BY <1>1, <2>3, WorseSame DEF Connectable, Indexes
    <3>2. ~Worse(b, s.tip, s)
      BY <1>0, <1>5, <3>1, WorseOrders
    <3> QED BY <1>1, <1>4, <1>5, <3>1, <3>2 DEF Complete
  <2> QED BY <2>2, <2>3 DEF Complete
<1> QED BY <1>1, <1>3, <1>5 DEF UsableBlocks

\* Connected: what does not sort before the new tip did not before the old one.
LEMMA ConnectedLinks ==
    ASSUME NEW s, IndexSound(s), LinksSound(s), NEW b \in s.linked, b # Genesis, Parent[b] = s.tip,
           NEW t, t = Connected(b, s)
    PROVE  /\ LinksSound(t) /\ UsableBlocks(t) = UsableBlocks(s)
           /\ t.seq = s.seq /\ t.tip = b
           /\ \A from \in Blocks : Complete(s, from) => Complete(t, from)
<1> DEFINE u == [s EXCEPT !.tip = b, !.scripts = @ \cup {b}]
           C == {c \in s.candidates : ~Worse(c, b, u)}
<1>0. s \in Indexes /\ b \in Blocks /\ s.tip \in Blocks
  BY DEF IndexSound, Indexes
<1>1. /\ u \in Indexes /\ u.data = s.data /\ u.tip = b
      /\ u.linked = s.linked /\ u.unlinked = s.unlinked /\ u.seq = s.seq
      /\ u.failedValid = s.failedValid /\ u.failedChild = s.failedChild
      /\ u.conflicting = s.conflicting /\ u.candidates = s.candidates
  BY <1>0 DEF Indexes
<1>2. t = [u EXCEPT !.candidates = C]
  BY <1>1 DEF Connected, PruneBlockIndexCandidates
<1>3. C \in SUBSET Blocks /\ \A c \in Blocks : c \in C <=> c \in s.candidates /\ ~Worse(c, b, s)
  BY <1>0, <1>1, WorseSame DEF Indexes
<1> HIDE DEF u, C
<1>4. /\ t \in Indexes /\ t.data = s.data /\ t.tip = b
      /\ t.linked = s.linked /\ t.unlinked = s.unlinked /\ t.seq = s.seq
      /\ t.failedValid = s.failedValid /\ t.failedChild = s.failedChild
      /\ t.conflicting = s.conflicting /\ t.candidates = C
  BY <1>1, <1>2, <1>3 DEF Indexes
<1>5. LinksSound(t)
  BY <1>0, <1>3, <1>4, WorseSame DEF LinksSound
<1>6. Failed(t) = Failed(s) /\ Connectable(t) = Connectable(s)
  BY <1>4 DEF Failed, Connectable
<1>7. s.tip \in Chain[b]
  BY <1>0, ChainDef, ChainHolds
<1>8. ASSUME NEW from \in Blocks, Complete(s, from),
             NEW c \in Connectable(t) \ t.conflicting, ~Worse(c, b, t), ~Worse(c, from, t)
      PROVE  c \in t.candidates
  <2>1. c \in Blocks /\ ~Worse(c, b, s) /\ ~Worse(c, from, s)
    BY <1>4, <1>8, WorseSame DEF Connectable, Indexes
  <2>2. ~Worse(c, s.tip, s)
    BY <1>0, <1>7, <2>1, AncestorNotBetter, WorseOrders
  <2>3. c \in s.candidates
    BY <1>4, <1>6, <1>8, <2>1, <2>2 DEF Complete
  <2> QED BY <1>3, <1>4, <2>1, <2>3
<1>9. \A from \in Blocks : Complete(s, from) => Complete(t, from)
  BY <1>4, <1>8 DEF Complete
<1> QED BY <1>4, <1>5, <1>9 DEF UsableBlocks

LEMMA AddCandidatesLinks ==
    ASSUME NEW s, IndexSound(s), LinksSound(s), NEW t, t = AddCandidates(s)
    PROVE  /\ LinksSound(t) /\ UsableBlocks(t) = UsableBlocks(s) /\ t.tip = s.tip
           /\ Complete(t, t.tip)
<1> DEFINE A == {b \in Connectable(s) \ s.conflicting : ~Worse(b, s.tip, s)}
           C == s.candidates \cup A
<1>0. s \in Indexes /\ s.tip \in Blocks
  BY DEF IndexSound, Indexes
<1>1. C \in SUBSET Blocks /\ A \subseteq s.linked
  BY <1>0 DEF Indexes, Connectable
<1>2. t = [s EXCEPT !.candidates = C]
  BY DEF AddCandidates
<1>3. \A b \in Connectable(s) \ s.conflicting : ~Worse(b, s.tip, s) => b \in C
  OBVIOUS
<1>4. \A c \in C : c \in s.candidates \/ (c \in s.linked /\ ~Worse(c, s.tip, s))
  BY <1>1
<1> HIDE DEF C
<1>5. /\ t \in Indexes /\ t.data = s.data /\ t.tip = s.tip
      /\ t.linked = s.linked /\ t.unlinked = s.unlinked /\ t.seq = s.seq
      /\ t.failedValid = s.failedValid /\ t.failedChild = s.failedChild
      /\ t.conflicting = s.conflicting /\ t.candidates = C
  BY <1>0, <1>1, <1>2 DEF Indexes
<1>6. LinksSound(t)
  BY <1>0, <1>4, <1>5, LinksKept, ChainHolds
<1>7. Failed(t) = Failed(s) /\ Connectable(t) = Connectable(s)
  BY <1>5 DEF Failed, Connectable
<1>8. Complete(t, t.tip)
  BY <1>3, <1>5, <1>7, WorseSame DEF Complete
<1> QED BY <1>5, <1>6, <1>8 DEF UsableBlocks

\* A sequence of SetToSeqs(S) holds all of S.
LEMMA OrderHolds ==
    ASSUME NEW S, IsFiniteSet(S), NEW q \in SetToSeqs(S)
    PROVE  ToSet(q) = S
<1> DEFINE n == Cardinality(S)
<1>1. n \in Nat /\ q \in [1..n -> S] /\ \A i, j \in 1..n : i # j => q[i] # q[j]
  BY FS_CardinalityType DEF SetToSeqs
<1>2. ASSUME NEW x \in S, \A i \in 1..n : q[i] # x PROVE FALSE
  <2> DEFINE T == S \ {x}
  <2>1. IsFiniteSet(T) /\ Cardinality(T) = n - 1
    BY <1>2, FS_RemoveElement
  <2>2. IsFiniteSet(1..n) /\ Cardinality(1..n) = n
    BY <1>1, FS_Interval
  <2>3. q \in [1..n -> T]
    BY <1>1, <1>2
  <2>4. Cardinality(T) < Cardinality(1..n)
    BY <1>1, <2>1, <2>2
  <2> HIDE DEF T, n
  <2>5. \E i, j \in 1..n : i # j /\ q[i] = q[j]
    BY <2>1, <2>2, <2>3, <2>4, FS_PigeonHole
  <2> QED BY <1>1, <2>5
<1> HIDE DEF n
<1> QED BY <1>1, <1>2 DEF ToSet

\* The blocks that the arrival of b links had no number in the order yet, and
\* are candidates from now on unless they sort before the tip.
LEMMA LinkedLinks ==
    ASSUME NEW s, IndexSound(s), LinksSound(s), NEW N \in SUBSET Blocks, NEW q \in SetToSeqs(N),
           N \cap s.linked = {}, N \subseteq s.data,
           \A x \in N : Chain[x] \subseteq s.linked \cup N,
           NEW t, t = Linked(q, s)
    PROVE  LinksSound(t) /\ (Complete(s, s.tip) => Complete(t, t.tip))
<1> DEFINE M == ToSet(q)
           place(x) == CHOOSE i \in DOMAIN q : q[i] = x
           seq == [x \in Blocks |-> IF x \in M THEN s.nextSeq + place(x) - 1 ELSE s.seq[x]]
           u == [s EXCEPT !.linked = @ \cup M, !.unlinked = @ \ M, !.seq = seq,
                          !.nextSeq = @ + Len(q)]
           C == s.candidates \cup {x \in M \ s.conflicting : ~Worse(x, s.tip, u)}
<1>0. s \in Indexes /\ s.tip \in Blocks
  BY DEF IndexSound, Indexes
<1>1. M = N /\ Cardinality(N) \in Nat
  BY TreeAssumption, FS_Subset, FS_CardinalityType, OrderHolds
<1>2. /\ Len(q) \in Nat /\ DOMAIN q \subseteq Nat
      /\ \A x \in N : \E i \in DOMAIN q : q[i] = x
  <2>1. q \in [1..Cardinality(N) -> N]
    BY DEF SetToSeqs
  <2> QED BY <1>1, <2>1 DEF ToSet
<1>3. seq \in [Blocks -> Int] /\ \A x \in Blocks \ N : seq[x] = s.seq[x]
  <2>1. \A x \in N : place(x) \in Nat
    BY <1>2
  <2> HIDE DEF place, M
  <2> QED BY <1>0, <1>1, <2>1 DEF Indexes
<1> HIDE DEF seq
<1>types. /\ s.linked \cup N \in SUBSET Blocks /\ s.unlinked \ N \in SUBSET Blocks
       /\ s.nextSeq + Len(q) \in Nat
  BY <1>0, <1>2 DEF Indexes
<1>4. /\ u \in Indexes /\ u.data = s.data /\ u.tip = s.tip
      /\ u.linked = s.linked \cup N /\ u.unlinked = s.unlinked \ N /\ u.seq = seq
      /\ u.failedValid = s.failedValid /\ u.failedChild = s.failedChild
      /\ u.conflicting = s.conflicting /\ u.candidates = s.candidates
  <2> HIDE DEF M
  <2> QED BY <1>0, <1>1, <1>3, <1>types DEF Indexes
<1>5. t = [u EXCEPT !.candidates = C]
  <2>1. t = [u EXCEPT !.candidates = @ \cup {x \in M \ u.conflicting : ~Worse(x, u.tip, u)}]
    BY Zenon DEF Linked, seq
  <2> HIDE DEF u, M
  <2> QED BY <1>4, <2>1
<1> HIDE DEF M
<1>6. /\ C \in SUBSET Blocks
      /\ \A c \in C : c \in s.candidates \/ (c \in N /\ ~Worse(c, s.tip, u))
      /\ \A x \in N \ s.conflicting : ~Worse(x, s.tip, u) => x \in C
      /\ s.candidates \subseteq C
  BY <1>0, <1>1 DEF Indexes
<1> HIDE DEF u, C
<1>7. /\ t \in Indexes /\ t.data = s.data /\ t.tip = s.tip
      /\ t.linked = s.linked \cup N /\ t.unlinked = s.unlinked \ N /\ t.seq = seq
      /\ t.failedValid = s.failedValid /\ t.failedChild = s.failedChild
      /\ t.conflicting = s.conflicting /\ t.candidates = C
  BY <1>4, <1>5, <1>6 DEF Indexes
<1>8. \A x \in s.linked : x \in Blocks \ N /\ (Worse(x, s.tip, t) <=> Worse(x, s.tip, s))
  <2> SUFFICES ASSUME NEW x \in s.linked
               PROVE  x \in Blocks \ N /\ (Worse(x, s.tip, t) <=> Worse(x, s.tip, s))
    OBVIOUS
  <2>1. x \in Blocks \ N /\ s.tip \in Blocks \ N
    BY <1>0 DEF Indexes, LinksSound
  <2>2. t.seq[x] = s.seq[x] /\ t.seq[s.tip] = s.seq[s.tip]
    BY <1>3, <1>7, <2>1
  <2> QED BY <2>1, <2>2 DEF Worse
<1>9. \A x \in N : Worse(x, s.tip, t) <=> Worse(x, s.tip, u)
  BY <1>4, <1>7, WorseSame
<1>10. LinksSound(t)
  <2>1. \A c \in C : c \in t.linked /\ ~Worse(c, t.tip, t)
    BY <1>6, <1>7, <1>8, <1>9 DEF LinksSound
  <2>2. \A c \in t.linked : Chain[c] \subseteq t.linked
    BY <1>7 DEF LinksSound
  <2> QED BY <1>7, <2>1, <2>2 DEF LinksSound
<1>11. ASSUME Complete(s, s.tip), NEW c \in Connectable(t) \ t.conflicting, ~Worse(c, t.tip, t)
       PROVE  c \in t.candidates
  <2>1. CASE c \in N
    BY <1>6, <1>7, <1>9, <1>11, <2>1
  <2>2. CASE c \in s.linked
    BY <1>6, <1>7, <1>8, <1>11, <2>2 DEF Complete, Connectable, Failed
  <2> QED BY <1>7, <1>11, <2>1, <2>2 DEF Connectable
<1> QED BY <1>10, <1>11 DEF Complete

LEMMA ReceivedLinks ==
    ASSUME NEW s, IndexSound(s), LinksSound(s), NEW b \in s.known \ s.data, b # Genesis,
           NEW t \in ReceivedBlockTransactions(b, s)
    PROVE  LinksSound(t) /\ s.linked \subseteq t.linked /\ (Complete(s, s.tip) => Complete(t, t.tip))
<1> DEFINE u == [s EXCEPT !.data = @ \cup {b}]
<1>0. s \in Indexes /\ b \in Blocks /\ b \notin s.linked
  BY DEF IndexSound, Indexes, LinksSound
<1>1. /\ u \in Indexes /\ u.known = s.known /\ u.data = s.data \cup {b} /\ u.tip = s.tip
      /\ u.linked = s.linked /\ u.unlinked = s.unlinked /\ u.seq = s.seq
      /\ u.failedValid = s.failedValid /\ u.failedChild = s.failedChild
      /\ u.conflicting = s.conflicting /\ u.failedBlocks = s.failedBlocks
      /\ u.candidates = s.candidates
  BY <1>0 DEF Indexes
<1>2. \/ Parent[b] \in u.linked /\ \E q \in LinkOrders(b, u) : t = Linked(q, u)
      \/ t = u
      \/ t = [u EXCEPT !.unlinked = @ \cup {b}]
  BY DEF ReceivedBlockTransactions
<1> HIDE DEF u
<1>3. IndexSound(u)
  BY <1>1, UnmarkedSound DEF IndexSound, CandidatesAhead
<1>4. LinksSound(u)
  BY <1>0, <1>1, LinksKept, ChainHolds DEF Indexes
<1>5. Complete(s, s.tip) => Complete(u, u.tip)
  BY <1>1, WorseSame DEF Complete, Connectable, Failed
<1>6. CASE Parent[b] \in u.linked /\ \E q \in LinkOrders(b, u) : t = Linked(q, u)
  <2> DEFINE N == NewlyLinked(b, u)
  <2>1. PICK q \in SetToSeqs(N) : t = Linked(q, u)
    BY <1>6 DEF LinkOrders
  <2>2. N \in SUBSET Blocks /\ N \subseteq u.data /\ N \cap u.linked = {}
    BY <1>0, <1>1, <1>4 DEF NewlyLinked, Indexes, LinksSound
  <2>3. ASSUME NEW x \in N PROVE Chain[x] \subseteq u.linked \cup N
    <3>1. x \in Blocks /\ b \in Chain[x] /\ Chain[x] \ Chain[b] \subseteq u.unlinked
      BY <2>2 DEF NewlyLinked
    <3>2. Chain[b] = {b} \cup Chain[Parent[b]] /\ Chain[Parent[b]] \subseteq u.linked
      BY <1>0, <1>4, <1>6, ChainDef DEF LinksSound
    <3>3. b \in N
      BY <1>0, ChainHolds DEF NewlyLinked
    <3>4. ASSUME NEW y \in Chain[x] \ Chain[b] PROVE y \in N
      <4>1. y \in u.unlinked /\ Chain[y] \subseteq Chain[x] /\ b \in Chain[y]
        BY <3>1, <3>4, ChainHolds, ChainLinear
      <4> QED BY <3>1, <4>1 DEF NewlyLinked
    <3> QED BY <3>2, <3>3, <3>4
  <2> HIDE DEF N
  <2>4. LinksSound(t) /\ (Complete(u, u.tip) => Complete(t, t.tip))
    BY <1>3, <1>4, <2>1, <2>2, <2>3, LinkedLinks
  <2>5. u.linked \subseteq t.linked
    <3>1. t.linked = u.linked \cup ToSet(q)
      BY <1>1, <2>1 DEF Linked, Indexes
    <3> QED BY <3>1
  <2> QED BY <1>1, <1>5, <2>4, <2>5
<1>7. CASE t = u
  BY <1>1, <1>4, <1>5, <1>7
<1>8. CASE t = [u EXCEPT !.unlinked = @ \cup {b}]
  <2>1. /\ t \in Indexes /\ t.data = u.data /\ t.tip = u.tip
        /\ t.linked = u.linked /\ t.unlinked = u.unlinked \cup {b} /\ t.seq = u.seq
        /\ t.failedValid = u.failedValid /\ t.failedChild = u.failedChild
        /\ t.conflicting = u.conflicting /\ t.candidates = u.candidates
    BY <1>0, <1>1, <1>8 DEF Indexes
  <2>2. LinksSound(t)
    BY <1>0, <1>1, <1>4, <2>1, WorseSame DEF LinksSound
  <2>3. Complete(u, u.tip) => Complete(t, t.tip)
    BY <2>1, WorseSame DEF Complete, Connectable, Failed
  <2> QED BY <1>1, <1>5, <2>1, <2>2, <2>3
<1> QED BY <1>2, <1>6, <1>7, <1>8

\* ResetBlockFailureFlags: a block that has become connectable has lost a flag.
LEMMA ResetLinks ==
    ASSUME NEW s, IndexSound(s), LinksSound(s), NEW b \in Blocks,
           NEW r, r = ResetBlockFailureFlags(b, s)
    PROVE  /\ LinksSound(r) /\ r.linked = s.linked
           /\ Complete(s, s.tip) => Complete(r, r.tip)
<1> DEFINE cleared == {x \in Failed(s) : b \in Chain[x] \/ x \in Chain[b]}
           roots == cleared \cap Chain[b]
           t == [s EXCEPT !.failedValid = @ \ cleared, !.failedChild = @ \ cleared]
           orphans == {x \in t.failedChild : Parent[x] \in roots}
           C == (t.candidates \cup {x \in (cleared \cap t.linked) \ t.conflicting :
                                      Worse(t.tip, x, t)}) \ orphans
<1>0. s \in Indexes /\ s.tip \in Blocks /\ s.linked \subseteq Blocks
  BY DEF IndexSound, Indexes
<1>1. r = [t EXCEPT !.failedValid = @ \cup orphans,
                    !.failedBlocks = (@ \ cleared) \cup orphans, !.candidates = C]
  BY Zenon DEF ResetBlockFailureFlags
<1>2. cleared \in SUBSET Blocks /\ cleared \subseteq Failed(s)
  BY <1>0 DEF Failed, Indexes
<1>3. /\ t \in Indexes /\ t.data = s.data /\ t.tip = s.tip
      /\ t.linked = s.linked /\ t.unlinked = s.unlinked /\ t.seq = s.seq
      /\ t.failedValid = s.failedValid \ cleared /\ t.failedChild = s.failedChild \ cleared
      /\ t.conflicting = s.conflicting /\ t.candidates = s.candidates
      /\ t.failedBlocks = s.failedBlocks
  <2> HIDE DEF cleared
  <2> QED BY <1>0, <1>2 DEF Indexes
<1> HIDE DEF t
<1>4. orphans \subseteq s.failedChild \ cleared
  BY <1>3
<1>5. /\ C \in SUBSET Blocks
      /\ \A c \in C : c \in s.candidates \/ (c \in s.linked /\ Worse(s.tip, c, s))
      /\ s.candidates \ orphans \subseteq C
      /\ \A x \in (cleared \cap s.linked) \ s.conflicting : Worse(s.tip, x, s) => x \in C
  <2>1. \A x \in Blocks : Worse(s.tip, x, t) <=> Worse(s.tip, x, s)
    BY <1>3, WorseSame
  <2>2. cleared \cap orphans = {}
    BY <1>4
  <2> HIDE DEF cleared, orphans
  <2> QED BY <1>0, <1>2, <1>3, <2>1, <2>2 DEF Indexes
<1> HIDE DEF C, orphans, cleared
<1>6. /\ r \in Indexes /\ r.data = s.data /\ r.tip = s.tip
      /\ r.linked = s.linked /\ r.unlinked = s.unlinked /\ r.seq = s.seq
      /\ r.failedValid = (s.failedValid \ cleared) \cup orphans
      /\ r.failedChild = s.failedChild \ cleared
      /\ r.conflicting = s.conflicting /\ r.candidates = C
  <2> DEFINE fv == t.failedValid \cup orphans
             fb == (t.failedBlocks \ cleared) \cup orphans
  <2>1. fv \in SUBSET Blocks /\ fb \in SUBSET Blocks
    BY <1>3, <1>4 DEF Indexes
  <2>2. r = [t EXCEPT !.failedValid = fv, !.failedBlocks = fb, !.candidates = C]
    BY <1>1
  <2>3. fv = (s.failedValid \ cleared) \cup orphans
    BY <1>3
  <2> HIDE DEF fv, fb
  <2> QED BY <1>3, <1>5, <2>1, <2>2, <2>3 DEF Indexes
<1>7. Failed(r) = Failed(s) \ cleared
  BY <1>4, <1>6 DEF Failed
<1>8. LinksSound(r)
  <2>1. \A c \in r.candidates : c \in s.candidates \/ (c \in s.linked /\ ~Worse(c, r.tip, s))
    BY <1>0, <1>5, <1>6, WorseOrders
  <2>2. r.tip \in Chain[s.tip]
    BY <1>0, <1>6, ChainHolds
  <2> QED BY <1>0, <1>6, <2>1, <2>2, LinksKept
<1>9. ASSUME Complete(s, s.tip), NEW c \in Connectable(r) \ r.conflicting, ~Worse(c, r.tip, r)
      PROVE  c \in r.candidates
  <2>1. /\ c \in Blocks /\ c \in s.linked /\ c \notin s.conflicting /\ ~Worse(c, s.tip, s)
        /\ c \notin Failed(s) \/ c \in cleared
        /\ c \notin orphans
    BY <1>0, <1>6, <1>7, <1>9, WorseSame DEF Connectable, Failed
  <2>2. CASE c \notin Failed(s)
    BY <1>5, <1>6, <1>9, <2>1, <2>2 DEF Complete, Connectable
  <2>3. CASE c \in cleared
    <3>1. c # s.tip
      BY <1>0, <1>2, <2>3, ChainHolds DEF IndexSound, Clear
    <3>2. Worse(s.tip, c, s)
      BY <1>0, <2>1, <3>1, WorseTotal
    <3> QED BY <1>5, <1>6, <2>1, <2>3, <3>2
  <2> QED BY <2>1, <2>2, <2>3
<1> QED BY <1>6, <1>8, <1>9 DEF Complete

\* PreciousBlock: no candidate is missed unless it gives the tip a higher number.
LEMMA PreciousLinks ==
    ASSUME NEW s, IndexSound(s), LinksSound(s), NEW b \in Blocks, NEW r, r = PreciousBlock(b, s)
    PROVE  /\ LinksSound(r) /\ r.linked = s.linked
           /\ Complete(s, s.tip) /\ ~(b = s.tip /\ s.seq[b] < r.seq[b]) => Complete(r, r.tip)
<1> DEFINE id == IF ChainWork[s.tip] > s.lastPrecious THEN -1 ELSE s.reverseSeq
           seq == [s.seq EXCEPT ![b] = id]
           w == ChainWork[s.tip]
           rev == id - 1
           C == s.candidates \ {b}
           t == [s EXCEPT !.seq[b] = id, !.reverseSeq = id - 1,
                          !.lastPrecious = ChainWork[s.tip], !.candidates = @ \ {b}]
           u == [t EXCEPT !.candidates = @ \cup {b}]
           D == {c \in u.candidates : ~Worse(c, u.tip, u)}
<1>0. s \in Indexes /\ s.tip \in Blocks /\ ChainWork[s.tip] \in Nat
  BY TreeAssumption DEF IndexSound, Indexes
<1>1. r = IF b \in Connectable(t) \ t.conflicting THEN PruneBlockIndexCandidates(u) ELSE t
  BY Zenon DEF PreciousBlock
<1>2. id \in Int
  BY <1>0 DEF Indexes
<1> HIDE DEF id
<1>3. /\ t \in Indexes /\ t.data = s.data /\ t.tip = s.tip
      /\ t.linked = s.linked /\ t.unlinked = s.unlinked /\ t.seq = seq
      /\ t.failedValid = s.failedValid /\ t.failedChild = s.failedChild
      /\ t.conflicting = s.conflicting /\ t.candidates = s.candidates \ {b}
  <2>1. seq \in [Blocks -> Int] /\ C \in SUBSET Blocks /\ w \in Nat /\ rev \in Int
    BY <1>0, <1>2 DEF Indexes
  <2>2. t = [s EXCEPT !.seq = seq, !.reverseSeq = rev, !.lastPrecious = w, !.candidates = C]
    OBVIOUS
  <2>3. C = s.candidates \ {b}
    OBVIOUS
  <2> HIDE DEF t, seq, C, w, rev
  <2> QED BY <1>0, <2>1, <2>2, <2>3 DEF Indexes
<1>4. seq \in [Blocks -> Int] /\ seq[b] = id /\ \A x \in Blocks \ {b} : seq[x] = s.seq[x]
  BY <1>0, <1>2 DEF Indexes
<1> HIDE DEF t, seq
<1>5. /\ u \in Indexes /\ u.data = s.data /\ u.tip = s.tip
      /\ u.linked = s.linked /\ u.unlinked = s.unlinked /\ u.seq = seq
      /\ u.failedValid = s.failedValid /\ u.failedChild = s.failedChild
      /\ u.conflicting = s.conflicting /\ u.candidates = s.candidates \cup {b}
  BY <1>0, <1>3 DEF Indexes
<1> HIDE DEF u
<1>6. Connectable(t) = Connectable(s)
  BY <1>3 DEF Connectable, Failed
<1>7. \A x \in Blocks \ {b} : b # s.tip => (Worse(x, s.tip, t) <=> Worse(x, s.tip, s))
  BY <1>0, <1>3, <1>4 DEF Worse
<1>8. CASE b \in Connectable(s) \ s.conflicting
  <2>1. r = [u EXCEPT !.candidates = D]
    BY <1>1, <1>3, <1>6, <1>8 DEF PruneBlockIndexCandidates
  <2>2. /\ D \in SUBSET Blocks
        /\ \A c \in D : (c \in s.candidates \/ c = b) /\ ~Worse(c, s.tip, t)
        /\ \A c \in s.candidates \cup {b} : ~Worse(c, s.tip, t) => c \in D
    <3>1. \A c \in Blocks : Worse(c, u.tip, u) <=> Worse(c, s.tip, t)
      BY <1>3, <1>5, WorseSame
    <3> QED BY <1>0, <1>5, <3>1 DEF Indexes
  <2> HIDE DEF D
  <2>3. /\ r \in Indexes /\ r.data = s.data /\ r.tip = s.tip
        /\ r.linked = s.linked /\ r.unlinked = s.unlinked /\ r.seq = seq
        /\ r.failedValid = s.failedValid /\ r.failedChild = s.failedChild
        /\ r.conflicting = s.conflicting /\ r.candidates = D
    BY <1>5, <2>1, <2>2 DEF Indexes
  <2>4. \A c \in Blocks : Worse(c, r.tip, r) <=> Worse(c, s.tip, t)
    BY <1>3, <2>3, WorseSame
  <2>5. LinksSound(r)
    <3>1. \A c \in D : c \in r.linked /\ ~Worse(c, r.tip, r)
      BY <1>8, <2>2, <2>3, <2>4 DEF LinksSound, Connectable
    <3> QED BY <2>3, <3>1 DEF LinksSound
  <2>6. ASSUME Complete(s, s.tip), ~(b = s.tip /\ s.seq[b] < r.seq[b]),
               NEW c \in Connectable(r) \ r.conflicting, ~Worse(c, r.tip, r)
        PROVE  c \in r.candidates
    <3>1. c \in Blocks /\ ~Worse(c, s.tip, t) /\ c \in Connectable(s) \ s.conflicting
      BY <1>0, <2>3, <2>4, <2>6 DEF Connectable, Failed, Indexes
    <3>2. CASE c = b
      BY <2>2, <2>3, <3>1, <3>2
    <3>3. CASE c # b
      <4>1. ~Worse(c, s.tip, s)
        <5>1. CASE b # s.tip
          BY <1>7, <3>1, <3>3, <5>1
        <5>2. CASE b = s.tip
          <6>1. /\ s.seq[c] = t.seq[c] /\ ~(s.seq[s.tip] < t.seq[s.tip]) /\ s.seq[c] \in Int
                /\ s.seq[s.tip] \in Int /\ t.seq[s.tip] \in Int
            BY <1>0, <1>3, <1>4, <2>3, <2>6, <3>1, <3>3, <5>2 DEF Indexes
          <6>2. ChainWork[c] \in Nat
            BY <3>1, TreeAssumption
          <6> QED BY <1>0, <3>1, <6>1, <6>2 DEF Worse
        <5> QED BY <5>1, <5>2
      <4>2. c \in s.candidates
        BY <2>6, <3>1, <4>1 DEF Complete
      <4> QED BY <2>2, <2>3, <3>1, <4>2
    <3> QED BY <3>2, <3>3
  <2>7. Complete(s, s.tip) /\ ~(b = s.tip /\ s.seq[b] < r.seq[b]) => Complete(r, r.tip)
    BY <2>6 DEF Complete
  <2> QED BY <2>3, <2>5, <2>7
<1>9. CASE b \notin Connectable(s) \ s.conflicting
  <2>1. r = t
    BY <1>1, <1>3, <1>6, <1>9
  <2>2. b # s.tip
    BY <1>9, ClearConnectable DEF LinksSound, IndexSound
  <2>3. \A c \in r.candidates : c \in r.linked /\ ~Worse(c, r.tip, r)
    <3> SUFFICES ASSUME NEW c \in r.candidates PROVE c \in r.linked /\ ~Worse(c, r.tip, r)
      OBVIOUS
    <3>1. c \in s.candidates /\ c \in Blocks \ {b}
      BY <1>0, <1>3, <2>1 DEF Indexes
    <3> QED BY <1>3, <1>7, <2>1, <2>2, <3>1 DEF LinksSound
  <2>4. LinksSound(r)
    BY <1>3, <2>1, <2>3 DEF LinksSound
  <2>5. ASSUME Complete(s, s.tip), NEW c \in Connectable(r) \ r.conflicting, ~Worse(c, r.tip, r)
        PROVE  c \in r.candidates
    <3>1. c \in Connectable(s) \ s.conflicting /\ c \in Blocks \ {b}
      BY <1>0, <1>3, <1>6, <1>9, <2>1, <2>5 DEF Connectable, Indexes
    <3>2. ~Worse(c, s.tip, s)
      BY <1>3, <1>7, <2>1, <2>2, <2>5, <3>1
    <3> QED BY <1>3, <2>1, <2>5, <3>1, <3>2 DEF Complete
  <2> QED BY <1>3, <2>1, <2>4, <2>5 DEF Complete
<1> QED BY <1>8, <1>9

\* EnforceBlock collects the candidates if it marks a block, and changes nothing
\* when the locked block is active.  It never brings the block into the chain.
LEMMA EnforceLinks ==
    ASSUME NEW s, IndexSound(s), LinksSound(s), NEW b \in Blocks, NEW r, r = EnforceBlock(b, s)
    PROVE  /\ LinksSound(r) /\ r.linked = s.linked
           /\ Complete(s, s.tip) \/ ToMarkConflicting(b, s) # {} => Complete(r, r.tip)
           /\ b \in Chain[s.tip] => r = s
           /\ r.tip \in Chain[s.tip]
<1>1. PICK u : /\ u = IF ToMarkConflicting(b, s) = {} THEN s ELSE AddCandidates(CutBack(b, s))
               /\ r = IF b \in Failed(u) \cup (Blocks \ u.data)
                      THEN ResetBlockFailureFlags(b, u) ELSE u
  BY EnforceIs
<1>0. s \in Indexes /\ s.tip \in Blocks
  BY DEF IndexSound, Indexes
<1>2. /\ IndexSound(u) /\ LinksSound(u) /\ u.linked = s.linked /\ u.tip \in Chain[s.tip]
      /\ Complete(s, s.tip) \/ ToMarkConflicting(b, s) # {} => Complete(u, u.tip)
  <2>1. CASE ToMarkConflicting(b, s) = {}
    BY <1>0, <1>1, <2>1, ChainHolds
  <2>2. CASE ToMarkConflicting(b, s) # {}
    <3> DEFINE t == CutBack(b, s)
    <3>1. /\ IndexSound(t) /\ t.tip \in Chain[s.tip]
          /\ t.data = s.data /\ t.linked = s.linked /\ t.unlinked = s.unlinked
          /\ t.seq = s.seq /\ t.candidates \subseteq s.candidates
      <4> HIDE DEF t
      <4> QED BY CutBackSound DEF t
    <3> HIDE DEF t
    <3>2. LinksSound(t)
      BY <1>0, <3>1, LinksKept DEF IndexSound
    <3>3. u = AddCandidates(t)
      BY <1>1, <2>2 DEF t
    <3>4. u.linked = t.linked
      BY <3>1, <3>3 DEF AddCandidates, IndexSound, Indexes
    <3> QED BY <3>1, <3>2, <3>3, <3>4, AddCandidatesSound, AddCandidatesLinks
  <2> QED BY <2>1, <2>2
<1>3. LinksSound(r) /\ r.linked = s.linked /\ r.tip = u.tip /\ (Complete(u, u.tip) => Complete(r, r.tip))
  BY <1>1, <1>2, ResetLinks, ResetSound
<1>4. ASSUME b \in Chain[s.tip] PROVE r = s
  <2>1. Chain[b] \subseteq Chain[s.tip] /\ b \in Chain[b]
    BY <1>0, <1>4, ChainHolds
  <2>2. ToMarkConflicting(b, s) = {}
    BY <2>1 DEF ToMarkConflicting
  <2>3. u = s
    BY <1>1, <2>2
  <2>4. b \notin Failed(s) \cup (Blocks \ s.data)
    BY <2>1 DEF IndexSound, Clear
  <2> QED BY <1>1, <2>3, <2>4
<1> QED BY <1>2, <1>3, <1>4

LEMMA StartupLinks ==
    ASSUME NEW s, IndexSound(s), NEW kept \in SUBSET s.conflicting,
           NEW r, r = Startup([s EXCEPT !.conflicting = kept])
    PROVE  LinksSound(r) /\ Complete(r, r.tip)
<1> DEFINE v == LoadBlockIndex([s EXCEPT !.conflicting = kept])
<1>1. /\ IndexSound(v) /\ v.data = s.data /\ v.tip = s.tip
      /\ v.linked = {b \in s.data : Chain[b] \subseteq s.data}
      /\ v.unlinked = s.data \ v.linked
      /\ \A c \in Blocks : c \in v.candidates <=> c \in Connectable(v) /\ ~Worse(c, v.tip, v)
  <2> HIDE DEF v
  <2> QED BY LoadSound DEF v
<1>2. \/ r = v
      \/ Failed(v) # {} /\ r = ResetBlockFailureFlags(BestInvalid(v), v)
  BY Zenon DEF Startup
<1> HIDE DEF v
<1>3. v \in Indexes /\ v.candidates \subseteq Blocks /\ s.tip \in Blocks /\ s.data \subseteq Blocks
  BY <1>1 DEF IndexSound, Indexes
<1>4. LinksSound(v)
  <2>1. \A b \in v.linked : Chain[b] \subseteq v.linked
    BY <1>1, <1>3, ChainHolds
  <2>2. v.tip \in v.linked
    BY <1>1, <1>3, ChainHolds DEF IndexSound, Clear
  <2>3. \A c \in v.candidates : c \in v.linked /\ ~Worse(c, v.tip, v)
    BY <1>1, <1>3 DEF Connectable
  <2> QED BY <1>1, <2>1, <2>2, <2>3 DEF LinksSound
<1>5. Complete(v, v.tip)
  BY <1>1, <1>3 DEF Complete, Connectable, Indexes
<1>6. Failed(v) # {} => BestInvalid(v) \in Blocks
  <2>1. Failed(v) \subseteq Blocks
    BY <1>3 DEF Failed, Indexes
  <2> QED BY <1>3, <2>1, BestInvalidIs
<1> QED BY <1>1, <1>2, <1>4, <1>5, <1>6, ResetLinks

\* InvalidateBlock's own steps keep the candidates linked.
LEMMA InvalidateTipLinks ==
    ASSUME NEW s, IndexSound(s), LinksSound(s), s.tip # Genesis, NEW B \in SUBSET s.linked,
           \A c \in B : ~Worse(c, Parent[s.tip], s),
           NEW t, t = [s EXCEPT !.tip = Parent[s.tip], !.failedValid = @ \cup {s.tip},
                                !.candidates = (@ \ {s.tip}) \cup {Parent[s.tip]} \cup B]
    PROVE  LinksSound(t) /\ t.linked = s.linked
<1> DEFINE prev == Parent[s.tip]
           fv == s.failedValid \cup {s.tip}
           C == (s.candidates \ {s.tip}) \cup {prev} \cup B
<1>0. s \in Indexes /\ s.tip \in Blocks /\ prev \in Blocks
  BY TreeAssumption DEF IndexSound, Indexes
<1>1. prev \in Chain[s.tip] /\ prev \in s.linked
  BY <1>0, ChainDef, ChainHolds DEF LinksSound
<1>2. fv \in SUBSET Blocks /\ C \in SUBSET Blocks
  BY <1>0 DEF Indexes
<1>3. \A c \in C : c \in s.candidates \/ (c \in s.linked /\ ~Worse(c, prev, s))
  BY <1>0, <1>1, WorseTotal
<1>4. /\ t \in Indexes /\ t.data = s.data /\ t.tip = prev /\ t.candidates = C
      /\ t.linked = s.linked /\ t.unlinked = s.unlinked /\ t.seq = s.seq
  <2>1. t = [s EXCEPT !.tip = prev, !.failedValid = fv, !.candidates = C]
    OBVIOUS
  <2> HIDE DEF prev, fv, C
  <2> QED BY <1>0, <1>2, <2>1 DEF Indexes
<1> HIDE DEF prev, C
<1> QED BY <1>0, <1>1, <1>3, <1>4, LinksKept

LEMMA GenesisLinks == LinksSound(GenesisIndex) /\ Complete(GenesisIndex, Genesis)
<1> DEFINE s == GenesisIndex
<1>1. /\ s.data = {Genesis} /\ s.linked = {Genesis} /\ s.unlinked = {}
      /\ s.candidates = {Genesis} /\ s.tip = Genesis /\ s \in Indexes
  BY GenesisSound DEF GenesisIndex, IndexSound
<1>2. Chain[Genesis] = {Genesis} /\ ~Worse(Genesis, Genesis, s) /\ Genesis \in Blocks
  BY <1>1, ChainDef, WorseTotal, TreeAssumption
<1> HIDE DEF s
<1>3. LinksSound(s) /\ Complete(s, Genesis)
  BY <1>1, <1>2 DEF LinksSound, Complete, Connectable
<1> QED BY <1>3 DEF s

-----------------------------------------------------------------------------
\* Heights order the blocks of one chain.
LEMMA HeightOrders ==
    ASSUME NEW b \in Blocks, NEW a \in Chain[b]
    PROVE  /\ a \in Blocks /\ Height(a) \in Int /\ Height(b) \in Int
           /\ Height(a) <= Height(b) /\ (Height(b) <= Height(a) => b \in Chain[a])
<1>1. a \in Blocks /\ Chain[a] \subseteq Chain[b] /\ b \in Chain[b]
  BY ChainHolds
<1>2. IsFiniteSet(Chain[b])
  BY ChainHolds, TreeAssumption, FS_Subset
<1>3. /\ IsFiniteSet(Chain[a]) /\ Cardinality(Chain[a]) \in Nat /\ Cardinality(Chain[b]) \in Nat
      /\ Cardinality(Chain[a]) <= Cardinality(Chain[b])
      /\ Cardinality(Chain[a]) = Cardinality(Chain[b]) => Chain[a] = Chain[b]
  BY <1>1, <1>2, FS_Subset, FS_CardinalityType
<1> QED BY <1>1, <1>3 DEF Height

\* A lock further up the same branch rules out whatever the old one did.
LEMMA HigherLockConflicts ==
    ASSUME NEW j \in Blocks, NEW i \in Chain[j], NEW b \in Blocks,
           Height(b) <= Height(i), b \notin Chain[i]
    PROVE  Height(b) <= Height(j) /\ b \notin Chain[j]
<1>1. i \in Blocks /\ Height(i) <= Height(j) /\ Height(i) \in Int /\ Height(j) \in Int
  BY HeightOrders
<1>2. b \in Chain[b] /\ Height(b) \in Int
  BY ChainHolds, HeightOrders
<1>3. ASSUME b \in Chain[j] PROVE FALSE
  <2>1. i \in Chain[b]
    BY <1>3, ChainLinear
  <2> QED BY <2>1, HeightOrders
<1> QED BY <1>1, <1>2, <1>3

-----------------------------------------------------------------------------
\* A chain has one block on top of another.
LEMMA OneChild ==
    ASSUME NEW c \in Blocks, NEW x \in Chain[c], NEW y \in Chain[c], x # Genesis, y # Genesis,
           Parent[x] = Parent[y]
    PROVE  x = y
<1>1. ASSUME NEW a \in Chain[c], NEW b \in Chain[c], a # Genesis, b # Genesis,
             Parent[a] = Parent[b], a \in Chain[b]
      PROVE  a = b
  <2>1. a \in Blocks /\ b \in Blocks
    BY ChainHolds
  <2>2. Parent[a] \in Chain[a] /\ Parent[a] # a
    BY <1>1, <2>1, ChainDef, ChainHolds, TreeAssumption
  <2>3. a \notin Chain[Parent[a]]
    BY <2>1, <2>2, ChainWorkGrows
  <2>4. a # b => a \in Chain[Parent[b]]
    BY <1>1, <2>1, ChainWorkGrows
  <2> QED BY <1>1, <2>3, <2>4
<1> QED BY <1>1, ChainLinear

LEMMA ChildHeight ==
    ASSUME NEW b \in Blocks \ {Genesis}
    PROVE  Height(b) = Height(Parent[b]) + 1
<1>1. Parent[b] \in Blocks /\ Chain[b] = {b} \cup Chain[Parent[b]]
  BY ChainDef, TreeAssumption
<1>2. b \notin Chain[Parent[b]]
  <2>1. Parent[b] \in Chain[b] /\ Parent[b] # b
    BY <1>1, ChainHolds, TreeAssumption
  <2> QED BY <2>1, ChainWorkGrows
<1>3. IsFiniteSet(Chain[Parent[b]])
  BY <1>1, ChainHolds, TreeAssumption, FS_Subset
<1>4. /\ Cardinality(Chain[Parent[b]] \cup {b}) = Cardinality(Chain[Parent[b]]) + 1
      /\ Cardinality(Chain[Parent[b]]) \in Nat
  BY <1>2, <1>3, FS_AddElement, FS_CardinalityType
<1>5. Chain[b] = Chain[Parent[b]] \cup {b}
  BY <1>1
<1> QED BY <1>4, <1>5 DEF Height

\* One of the two builds on the other.
OneBranch(a, b) == a \in Chain[b] \/ b \in Chain[a]

LEMMA BranchBelow ==
    ASSUME NEW a \in Blocks, NEW b \in Blocks, OneBranch(a, b), NEW c \in Chain[b]
    PROVE  OneBranch(a, c)
<1>1. CASE a \in Chain[b]
  BY <1>1, ChainLinear DEF OneBranch
<1>2. CASE b \in Chain[a]
  BY <1>2, ChainHolds DEF OneBranch
<1> QED BY <1>1, <1>2 DEF OneBranch

\* What EnforceBlock is going to mark is on no chain that builds on the locked
\* block or that it builds on.
LEMMA MarkedOffBranch ==
    ASSUME NEW s, IndexSound(s), NEW b \in Blocks, NEW l \in Blocks, OneBranch(b, l)
    PROVE  Chain[l] \cap ToMarkConflicting(b, s) = {}
<1> SUFFICES ASSUME NEW y \in Chain[l], y \in ToMarkConflicting(b, s) PROVE FALSE
  OBVIOUS
<1>1. PICK x \in Chain[b] \ Chain[s.tip] : y \in Siblings(x, s)
  BY DEF ToMarkConflicting
<1>2. y # Genesis /\ y # x /\ Parent[y] = Parent[x]
  BY <1>1 DEF Siblings
<1>3. x # Genesis
  BY <1>1, ChainHolds DEF IndexSound, Indexes
<1>4. CASE b \in Chain[l]
  <2>1. x \in Chain[l]
    BY <1>1, <1>4, ChainHolds
  <2> QED BY <1>2, <1>3, <2>1, OneChild
<1>5. CASE l \in Chain[b]
  <2>1. y \in Chain[b]
    BY <1>5, ChainHolds
  <2> QED BY <1>1, <1>2, <1>3, <2>1, OneChild
<1> QED BY <1>4, <1>5 DEF OneBranch

\* After EnforceBlock the active chain and that of the locked block are on one
\* branch, and what it has marked is not.
LEMMA EnforceBranch ==
    ASSUME NEW s, IndexSound(s), LinksSound(s), NEW b \in Blocks, NEW r, r = EnforceBlock(b, s)
    PROVE  /\ OneBranch(b, r.tip)
           /\ \A c \in r.conflicting \ s.conflicting :
                 c \in Blocks /\ Chain[c] \cap ToMarkConflicting(b, s) # {}
<1>0. s \in Indexes /\ s.tip \in Blocks
  BY DEF IndexSound, Indexes
<1>1. PICK u : /\ u = IF ToMarkConflicting(b, s) = {} THEN s ELSE AddCandidates(CutBack(b, s))
               /\ r = IF b \in Failed(u) \cup (Blocks \ u.data)
                      THEN ResetBlockFailureFlags(b, u) ELSE u
  BY EnforceIs
<1>2. /\ IndexSound(u) /\ Chain[u.tip] \cap ToMarkConflicting(b, s) = {} /\ u.tip \in Chain[s.tip]
      /\ \A c \in u.conflicting \ s.conflicting :
            c \in Blocks /\ Chain[c] \cap ToMarkConflicting(b, s) # {}
  <2>1. CASE ToMarkConflicting(b, s) = {}
    BY <1>0, <1>1, <2>1, ChainHolds
  <2>2. CASE ToMarkConflicting(b, s) # {}
    <3>1. PICK t : t = CutBack(b, s)
      OBVIOUS
    <3>2. /\ IndexSound(t) /\ Chain[t.tip] \cap ToMarkConflicting(b, s) = {} /\ t.tip \in Chain[s.tip]
          /\ \A c \in t.conflicting \ s.conflicting :
                c \in Blocks /\ Chain[c] \cap ToMarkConflicting(b, s) # {}
      BY <3>1, CutBackSound
    <3>3. u = AddCandidates(t)
      BY <1>1, <2>2, <3>1
    <3>4. u.tip = t.tip /\ u.conflicting = t.conflicting
      BY <3>2, <3>3 DEF AddCandidates, IndexSound, Indexes
    <3> QED BY <3>2, <3>3, <3>4, AddCandidatesSound
  <2> QED BY <2>1, <2>2
<1>3. r.tip = u.tip /\ r.conflicting = u.conflicting
  <2>1. CASE r = u
    BY <2>1
  <2>2. CASE r = ResetBlockFailureFlags(b, u)
    BY <1>2, <2>2 DEF ResetBlockFailureFlags, IndexSound, Indexes
  <2> QED BY <1>1, <2>1, <2>2
<1>4. ASSUME b \in Chain[s.tip] PROVE OneBranch(b, r.tip)
  <2>1. r.tip \in Chain[s.tip]
    BY <1>2, <1>3
  <2> QED BY <1>0, <1>4, <2>1, ChainLinear DEF OneBranch
<1>5. ASSUME b \notin Chain[s.tip] PROVE OneBranch(b, r.tip)
  <2>1. ASSUME r.tip \notin Chain[b] PROVE FALSE
    <3> DEFINE S == Chain[r.tip] \ Chain[b]
    <3>1. r.tip \in Blocks /\ S \in SUBSET Blocks /\ S # {}
      BY <1>0, <1>2, <1>3, <2>1, ChainHolds
    <3>2. PICK y \in S : y = Genesis \/ Parent[y] \notin S
      <4> HIDE DEF S
      <4> QED BY <3>1, BlocksTree DEF IsTree
    <3>3. y # Genesis /\ y \in Blocks /\ y \in Chain[s.tip] /\ y \in s.known
      BY <1>0, <1>2, <1>3, <3>1, <3>2, ChainHolds DEF IndexSound, Clear
    <3>4. Parent[y] \in Chain[y] /\ Parent[y] \in Blocks
      BY <3>3, ChainDef, ChainHolds, TreeAssumption
    <3>5. Parent[y] \in Chain[r.tip] /\ Parent[y] \in Chain[s.tip]
      BY <1>0, <3>1, <3>2, <3>3, <3>4, ChainHolds
    <3>6. Parent[y] \in Chain[b] /\ b \notin Chain[Parent[y]]
      BY <1>0, <1>5, <3>2, <3>3, <3>5, ChainHolds
    <3>7. PICK x \in Chain[b] \ Chain[Parent[y]] : Parent[x] = Parent[y]
      BY <3>4, <3>6, NextExists
    <3>8. x # Genesis /\ x # y
      BY <3>2, <3>4, <3>7, ChainHolds
    <3>9. x \notin Chain[s.tip]
      BY <1>0, <3>3, <3>7, <3>8, OneChild
    <3>10. y \in ToMarkConflicting(b, s)
      BY <3>3, <3>7, <3>8, <3>9 DEF ToMarkConflicting, Siblings
    <3> QED BY <1>2, <1>3, <3>2, <3>10
  <2> QED BY <2>1 DEF OneBranch
<1> QED BY <1>2, <1>3, <1>4, <1>5

\* DropChain marks above a conflicting block only.
LEMMA DropChainConflicts ==
    ASSUME NEW s, IndexSound(s), NEW b \in Blocks, Unusable(b, s) # {}
    PROVE  \A c \in DropChain(b, s).conflicting \ s.conflicting : Chain[c] \cap s.conflicting # {}
<1> DEFINE x == FirstUnusable(b, s)
           above == Chain[b] \ Chain[x]
           conflict == x \notin Failed(s) /\ x \in s.conflicting
<1>1. x \in Unusable(b, s)
  <2>1. Unusable(b, s) \in SUBSET Blocks
    BY ChainDef DEF Unusable
  <2>2. \E y \in Unusable(b, s) : \A z \in Unusable(b, s) : ChainWork[z] <= ChainWork[y]
    BY <2>1, HighestExists
  <2> QED BY <2>2 DEF FirstUnusable
<1>2. x \in Chain[b]
  BY <1>1 DEF Unusable
<1>3. DropChain(b, s).conflicting = IF conflict THEN s.conflicting \cup above ELSE s.conflicting
  <2> HIDE DEF x
  <2> QED BY DEF DropChain, IndexSound, Indexes, x
<1>4. \A c \in above : x \in Chain[c]
  BY <1>2, ChainLinear
<1> HIDE DEF x
<1> QED BY <1>3, <1>4
=============================================================================
