---------------------------- MODULE TreeRecursion ----------------------------
(***************************************************************************)
(* Recursion along a tree of blocks: where every block leads to the first  *)
(* one, a function may be defined from the parent of a block to the block. *)
(* The chain of a block, the coins of a block and what a replay rolls      *)
(* forward are such functions.  The facts are stated for sets and          *)
(* functions, so that they can be cited without an operator to supply.     *)
(***************************************************************************)
EXTENDS Integers, FiniteSetTheorems, WellFoundedInduction, TLAPS

\* P is the parent of every block of B but the first one, G, and there is no
\* way along parents that never ends.
IsTree(B, G, P) ==
    /\ G \in B
    /\ P \in [B \ {G} -> B]
    /\ \A S \in SUBSET B : S # {} => \E b \in S : b = G \/ P[b] \notin S

\* A nonempty set of natural numbers has a least element.
LEMMA LeastNatural ==
    ASSUME NEW T, T \subseteq Nat, T # {}
    PROVE  \E n \in T : \A m \in T : n <= m
<1> DEFINE R == OpToRel(<, Nat)
<1>1. PICK x \in T : \A y \in T : ~(<<y, x>> \in R)
  <2> HIDE DEF R
  <2>1. IsWellFoundedOn(R, Nat)
    BY NatLessThanWellFounded DEF R
  <2> QED BY <2>1, WFMin
<1>2. \A y \in T : ~(y < x)
  BY <1>1 DEF OpToRel
<1> QED BY <1>2

\* A finite set that a relation R orders totally has a greatest element.
LEMMA GreatestExists ==
    ASSUME NEW A, IsFiniteSet(A), NEW R,
           \A a, b \in A : <<a, b>> \in R \/ <<b, a>> \in R,
           \A a, b, c \in A : <<a, b>> \in R /\ <<b, c>> \in R => <<a, c>> \in R,
           NEW S \in SUBSET A, S # {}
    PROVE  \E m \in S : \A c \in S : <<c, m>> \in R
<1> DEFINE Bad(T) == T \in SUBSET A /\ T # {} /\ ~\E m \in T : \A c \in T : <<c, m>> \in R
           Sizes == {Cardinality(T) : T \in {U \in SUBSET A : Bad(U)}}
<1>1. \A T \in SUBSET A : IsFiniteSet(T) /\ Cardinality(T) \in Nat
  BY FS_Subset, FS_CardinalityType
<1>2. ASSUME Sizes # {} PROVE FALSE
  <2>1. Sizes \subseteq Nat
    BY <1>1
  <2>2. PICK n \in Sizes : \A k \in Sizes : n <= k
    <3> HIDE DEF Sizes
    <3> QED BY <1>2, <2>1, LeastNatural
  <2>3. PICK T \in SUBSET A : Bad(T) /\ n = Cardinality(T)
    BY <2>2
  <2>4. PICK x \in T : TRUE
    BY <2>3
  <2> DEFINE U == T \ {x}
  <2>5. Cardinality(U) = n - 1 /\ U \in SUBSET A /\ n \in Nat
    <3>1. Cardinality(U) = IF x \in T THEN Cardinality(T) - 1 ELSE Cardinality(T)
      BY <1>1, FS_RemoveElement
    <3> QED BY <3>1, <2>1, <2>3, <2>4
  <2>6. ~Bad(U)
    <3>1. Bad(U) => Cardinality(U) \in Sizes
      BY <2>5
    <3> HIDE DEF Sizes, Bad, U
    <3> QED BY <3>1, <2>2, <2>5
  <2>7. CASE U = {}
    <3>1. T = {x}
      BY <2>4, <2>7
    <3> QED BY <2>3, <3>1
  <2>8. CASE U # {}
    <3>1. PICK m \in U : \A c \in U : <<c, m>> \in R
      BY <2>5, <2>6, <2>8
    <3>2. m \in A /\ x \in A /\ \A c \in T : c = x \/ c \in U
      BY <2>3, <2>4, <3>1
    <3>3. CASE <<x, m>> \in R
      BY <2>3, <3>1, <3>2, <3>3
    <3>4. CASE <<m, x>> \in R
      <4>1. \A c \in U : <<c, x>> \in R
        BY <2>5, <3>1, <3>2, <3>4
      <4>2. <<x, x>> \in R
        BY <3>2
      <4> QED BY <2>3, <2>4, <3>2, <4>1, <4>2
    <3> QED BY <3>2, <3>3, <3>4
  <2> QED BY <2>7, <2>8
<1>3. ~Bad(S)
  BY <1>2
<1> QED BY <1>3

\* A number that grows from parent to child makes a tree.
LEMMA RankedTree ==
    ASSUME NEW B, NEW G \in B, NEW P \in [B \ {G} -> B], NEW rank \in [B -> Nat],
           \A b \in B \ {G} : rank[b] > rank[P[b]]
    PROVE  IsTree(B, G, P)
<1> SUFFICES ASSUME NEW S \in SUBSET B, S # {} PROVE \E b \in S : b = G \/ P[b] \notin S
  BY DEF IsTree
<1> DEFINE T == {rank[b] : b \in S}
<1>0. T \subseteq Nat /\ T # {}
  OBVIOUS
<1>1. PICK n \in T : \A m \in T : n <= m
  BY <1>0, LeastNatural
<1>2. PICK b \in S : n = rank[b]
  BY <1>1
<1>3. ASSUME b # G, P[b] \in S PROVE FALSE
  <2>1. rank[P[b]] \in T /\ rank[b] > rank[P[b]] /\ rank[P[b]] \in Nat /\ rank[b] \in Nat
    BY <1>3
  <2> QED BY <2>1, <1>1, <1>2
<1> QED BY <1>3

-----------------------------------------------------------------------------
\* A solution of the recursion on a part D of the blocks that holds the parents
\* of its blocks.
Solves(B, G, P, V, stop, base, step, D, g) ==
    /\ D \subseteq B /\ g \in [D -> V]
    /\ \A b \in D \ {G} : P[b] \in D
    /\ \A b \in D : g[b] = IF b \in stop THEN base[b] ELSE step[<<b, g[P[b]]>>]

\* Two solutions agree wherever both are defined.
LEMMA SolutionsAgree ==
    ASSUME NEW B, NEW G, NEW P, IsTree(B, G, P), NEW V, NEW stop, G \in stop,
           NEW base, NEW step, NEW D, NEW g, NEW E, NEW h,
           Solves(B, G, P, V, stop, base, step, D, g),
           Solves(B, G, P, V, stop, base, step, E, h)
    PROVE  \A b \in D \cap E : g[b] = h[b]
<1> DEFINE S == {b \in D \cap E : g[b] # h[b]}
<1>1. S \in SUBSET B
  BY DEF Solves
<1>2. ASSUME S # {} PROVE FALSE
  <2>1. PICK b \in S : b = G \/ P[b] \notin S
    BY <1>1, <1>2 DEF IsTree
  <2>2. b # G /\ b \notin stop
    BY <2>1 DEF Solves
  <2>3. P[b] \in D \cap E /\ g[P[b]] = h[P[b]]
    BY <2>1, <2>2 DEF Solves
  <2> QED BY <2>1, <2>2, <2>3 DEF Solves
<1> QED BY <1>2

\* Every block lies in the domain of a solution.
LEMMA SolutionReaches ==
    ASSUME NEW B, NEW G, NEW P, IsTree(B, G, P), NEW V, NEW stop, G \in stop,
           NEW base \in [B -> V], NEW step \in [B \X V -> V]
    PROVE  \A b \in B : \E D, g : b \in D /\ Solves(B, G, P, V, stop, base, step, D, g)
<1> DEFINE Reached(b) == \E D, g : b \in D /\ Solves(B, G, P, V, stop, base, step, D, g)
           S == {b \in B : ~Reached(b)}
<1>1. ASSUME S # {} PROVE FALSE
  <2>1. PICK b \in S : b = G \/ P[b] \notin S
    <3>1. S \in SUBSET B
      OBVIOUS
    <3> HIDE DEF S
    <3> QED BY <3>1, <1>1 DEF IsTree
  <2>2. CASE b = G
    <3> DEFINE D == {G}
               g == [c \in D |-> base[c]]
    <3>1. Solves(B, G, P, V, stop, base, step, D, g)
      BY DEF Solves, IsTree
    <3>2. Reached(G)
      BY <3>1
    <3> QED BY <3>2, <2>2, <2>1
  <2>3. CASE b # G
    <3>0. b \in B /\ P[b] \in B
      BY <2>1, <2>3 DEF IsTree
    <3>1. PICK D, g : P[b] \in D /\ Solves(B, G, P, V, stop, base, step, D, g)
      BY <2>1, <2>3, <3>0
    <3>2. b \notin D
      BY <2>1, <3>1
    <3> DEFINE D2 == D \cup {b}
               g2 == [c \in D2 |-> IF c \in D THEN g[c]
                                   ELSE IF c \in stop THEN base[c] ELSE step[<<c, g[P[c]]>>]]
    <3>3. g[P[b]] \in V /\ base[b] \in V /\ step[<<b, g[P[b]]>>] \in V
      BY <3>0, <3>1 DEF Solves
    <3>4. D2 \subseteq B /\ g2 \in [D2 -> V]
      BY <3>0, <3>1, <3>3 DEF Solves
    <3>5. \A c \in D2 \ {G} : P[c] \in D
      BY <3>1, <2>3 DEF Solves
    <3>6. \A c \in D : g2[c] = g[c]
      OBVIOUS
    <3>7. \A c \in D2 : g2[c] = IF c \in stop THEN base[c] ELSE step[<<c, g2[P[c]]>>]
      <4> SUFFICES ASSUME NEW c \in D2 PROVE g2[c] = IF c \in stop THEN base[c] ELSE step[<<c, g2[P[c]]>>]
        OBVIOUS
      <4>0. c \notin stop => P[c] \in D
        BY <3>5
      <4>1. c \notin stop => g2[P[c]] = g[P[c]]
        BY <4>0, <3>6
      <4>2. CASE c \in D
        BY <4>1, <4>2, <3>1, <3>6 DEF Solves
      <4>3. CASE c = b
        BY <4>1, <4>3, <3>2
      <4> QED BY <4>2, <4>3
    <3>8. Solves(B, G, P, V, stop, base, step, D2, g2)
      <4> HIDE DEF g2
      <4> QED BY <3>4, <3>5, <3>7 DEF Solves
    <3>9. Reached(b)
      BY <3>8
    <3> QED BY <3>9, <2>1
  <2> QED BY <2>2, <2>3
<1> QED BY <1>1

\* The recursion has a solution on all blocks.
THEOREM TreeRecursion ==
    ASSUME NEW B, NEW G, NEW P, IsTree(B, G, P), NEW V, NEW stop, G \in stop,
           NEW base \in [B -> V], NEW step \in [B \X V -> V]
    PROVE  \E f \in [B -> V] :
             \A b \in B : f[b] = IF b \in stop THEN base[b] ELSE step[<<b, f[P[b]]>>]
<1> DEFINE At(b, v) == \E D, g : /\ Solves(B, G, P, V, stop, base, step, D, g)
                                 /\ b \in D /\ v = g[b]
           f == [b \in B |-> CHOOSE v : At(b, v)]
<1>1. \A b \in B : \E v : At(b, v)
  BY SolutionReaches
<1>2. \A b \in B : At(b, f[b])
  BY <1>1
<1>3. \A b \in B : \A D, g : Solves(B, G, P, V, stop, base, step, D, g) /\ b \in D => g[b] = f[b]
  BY <1>2, SolutionsAgree
<1>4. \A b \in B : /\ f[b] \in V
                   /\ f[b] = IF b \in stop THEN base[b] ELSE step[<<b, f[P[b]]>>]
  <2> SUFFICES ASSUME NEW b \in B
               PROVE  /\ f[b] \in V
                      /\ f[b] = IF b \in stop THEN base[b] ELSE step[<<b, f[P[b]]>>]
    OBVIOUS
  <2>1. PICK D, g : Solves(B, G, P, V, stop, base, step, D, g) /\ b \in D /\ f[b] = g[b]
    BY <1>2
  <2>2. b \notin stop => P[b] \in D /\ P[b] \in B /\ g[P[b]] = f[P[b]]
    <3> HIDE DEF f
    <3> QED BY <2>1, <1>3 DEF Solves
  <2> HIDE DEF f
  <2> QED BY <2>1, <2>2 DEF Solves
<1>5. f \in [B -> V]
  BY <1>4
<1> HIDE DEF f
<1> QED BY <1>4, <1>5
=============================================================================
