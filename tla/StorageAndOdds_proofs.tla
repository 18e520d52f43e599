------------------------ MODULE StorageAndOdds_proofs ------------------------
(***************************************************************************)
(* Proofs about the parts that stand on their own: the flushable storage,  *)
(* for any keys and values; its merging iterator, for any finite set of    *)
(* keys, any store and any map of changes; and the odds of spreads and     *)
(* totals, for any odds, handicap and score.                               *)
(***************************************************************************)
EXTENDS FlushableStorage, MergingIterator, OddsCheck, TreeRecursion

-----------------------------------------------------------------------------
\* The flushable storage.

\* Laying a change map over contents gives contents.
LEMMA OverlayType ==
    ASSUME NEW b \in Contents, NEW m \in Changes
    PROVE  Overlay(b, m) \in Contents
BY DEF Overlay, Contents, Changes

\* An empty change map hides nothing.
LEMMA OverlayEmpty ==
    ASSUME NEW b \in Contents
    PROVE  Overlay(b, Empty) = b
BY DEF Overlay, Empty, Contents

\* Setting the entry of one key of a change map to a value or a tombstone
\* changes what is seen through it at that key only.
LEMMA OverlayPut ==
    ASSUME NEW b \in Contents, NEW m \in Changes, NEW k \in Keys, NEW v \in Optional
    PROVE  Overlay(b, [m EXCEPT ![k] = v]) = [Overlay(b, m) EXCEPT ![k] = v]
BY NoEntryAssumption DEF Overlay, Contents, Changes, Optional

\* Copying an entry of a change map into the level below is invisible through
\* the map.
LEMMA OverlayCopy ==
    ASSUME NEW b \in Contents, NEW m \in Changes, NEW k \in Changed(m)
    PROVE  Overlay([b EXCEPT ![k] = m[k]], m) = Overlay(b, m)
BY DEF Overlay, Contents, Changes, Changed

\* A map whose every entry has been copied can be cleared.
LEMMA OverlayFlushed ==
    ASSUME NEW b \in Contents, NEW m \in Changes,
           \A k \in Changed(m) : b[k] = m[k]
    PROVE  Overlay(b, m) = b
BY DEF Overlay, Contents, Changes, Changed

-----------------------------------------------------------------------------
\* TypeOK is not inductive by itself: Flush copies view[k] to the disk, which
\* is a value or a tombstone only because every key left to copy has an entry
\* in the map.  FlushInv says so.
IInv == TypeOK /\ FlushInv

\* The inductive step, one case per operation.
LEMMA IInvStep == IInv /\ [Next]_vars => IInv'
<1> SUFFICES ASSUME IInv, [Next]_vars PROVE IInv'
  OBVIOUS
<1> USE DEF IInv, TypeOK, FlushInv, Contents, Changes, Optional, Changed
<1>0. CacheContents \in Contents
  BY OverlayType DEF CacheContents, ViewContents
<1>1. ASSUME NEW k \in Keys, NEW v \in Values, Write(k, v) PROVE IInv'
  BY <1>1, NoEntryAssumption DEF Write, Put, Fail, Empty
<1>2. ASSUME NEW k \in Keys, NEW v \in Values, Update(k, v) PROVE IInv'
  BY <1>2, NoEntryAssumption DEF Update, Put, Fail, Empty
<1>3. ASSUME NEW k \in Keys, Erase(k) PROVE IInv'
  BY <1>3, NoEntryAssumption DEF Erase, Put, Fail, Empty
<1>4. ASSUME NEW k \in Keys, Read(k) PROVE IInv'
  BY <1>0, <1>4 DEF Read, Exists
<1>5. CASE OpenCache \/ DropCache
  BY <1>5 DEF OpenCache, DropCache, Empty
<1>6. CASE StartFlushCache \/ StartFlushView
  BY <1>6 DEF StartFlushCache, StartFlushView
<1>7. CASE FlushKey
  <2>1. PICK k \in todo : FlushOne(k)
    BY <1>7 DEF FlushKey
  <2>2. CASE flushing = "cache"
    BY <2>1, <2>2 DEF FlushOne
  <2>3. CASE flushing = "view"
    BY <2>1, <2>3 DEF FlushOne
  <2> QED BY <2>1, <2>2, <2>3 DEF FlushOne
<1>8. CASE EndFlush
  BY <1>8 DEF EndFlush, Empty
<1>9. CASE FlushFails
  BY <1>9 DEF FlushFails
<1>10. CASE Crash
  BY <1>10 DEF Crash, Empty
<1>11. CASE UNCHANGED vars
  BY <1>11 DEF vars
<1> QED BY <1>1, <1>2, <1>3, <1>4, <1>5, <1>6, <1>7, <1>8, <1>9, <1>10, <1>11 DEF Next

LEMMA IInvInit == Init => IInv
BY DEF Init, IInv, TypeOK, FlushInv, Empty, Changes, Contents, Optional

LEMMA Inductive == Spec => []IInv
BY IInvInit, IInvStep, PTL DEF Spec

\* Type correctness: every operation of CBettingDB, every step of Flush and a
\* crash leave maps from keys to values, tombstones or nothing.
THEOREM TypeCorrect == Spec => []TypeOK
BY Inductive, PTL DEF IInv

\* Flush never loses an entry: what it has still to copy is in the map, and
\* what it has copied is below.
THEOREM FlushCorrect == Spec => []FlushInv
BY Inductive, PTL DEF IInv

-----------------------------------------------------------------------------
\* Refinement.  Each step of the layered database is a step of
\* TransactionalStore, or changes nothing that specification mentions.

\* The contents seen at each level are contents.
LEMMA LevelTypes ==
    ASSUME IInv
    PROVE  ViewContents \in Contents /\ CacheContents \in Contents
BY OverlayType DEF IInv, TypeOK, ViewContents, CacheContents

\* Without a block cache the top level is bettingsView.
LEMMA NoCache ==
    ASSUME IInv, ~open
    PROVE  CacheContents = ViewContents
BY LevelTypes, OverlayEmpty DEF IInv, FlushInv, CacheContents

\* An edit of the top level edits the abstract map at the same key.
LEMMA PutStep ==
    ASSUME IInv, IInv', flushing = "no", NEW k \in Keys, NEW v \in Optional,
           NEW o, Put(o, k, v)
    PROVE  Abstract!Edit(o, k, v)
<1>1. /\ disk' = disk /\ open' = open /\ flushing' = "no" /\ val' = val /\ ret' = TRUE /\ op' = o
      /\ disk \in Contents /\ view \in Changes /\ cache \in Changes
  BY DEF Put, IInv, TypeOK
<1>2. CASE open
  <2>1. ViewContents' = ViewContents
    BY <1>1, <1>2 DEF Put, ViewContents
  <2>2. CacheContents' = [CacheContents EXCEPT ![k] = v]
    <3>1. cache' = [cache EXCEPT ![k] = v]
      BY <1>2 DEF Put
    <3>2. Overlay(ViewContents, [cache EXCEPT ![k] = v])
            = [Overlay(ViewContents, cache) EXCEPT ![k] = v]
      BY <1>1, LevelTypes, OverlayPut
    <3> QED BY <2>1, <3>1, <3>2 DEF CacheContents
  <2> QED BY <1>1, <1>2, <2>1, <2>2 DEF Abstract!Edit, Committed
<1>3. CASE ~open
  <2>1. ViewContents' = [ViewContents EXCEPT ![k] = v]
    <3>1. view' = [view EXCEPT ![k] = v]
      BY <1>3 DEF Put
    <3>2. Overlay(disk, [view EXCEPT ![k] = v]) = [Overlay(disk, view) EXCEPT ![k] = v]
      BY <1>1, OverlayPut
    <3> QED BY <1>1, <3>1, <3>2 DEF ViewContents
  <2>2. CacheContents' = [CacheContents EXCEPT ![k] = v]
    <3>1. CacheContents = ViewContents
      BY <1>3, NoCache
    <3>2. cache = Empty /\ cache' = Empty
      BY <1>1, <1>3 DEF IInv, FlushInv, Put
    <3>3. ViewContents' \in Contents
      BY <1>1, <2>1, LevelTypes DEF Contents
    <3>4. CacheContents' = ViewContents'
      BY <3>2, <3>3, OverlayEmpty DEF CacheContents
    <3> QED BY <3>1, <3>4, <2>1
  <2> QED BY <1>1, <1>3, <2>1, <2>2 DEF Abstract!Edit, Committed
<1> QED BY <1>2, <1>3

\* A refused operation changes the success flag only.
LEMMA FailStep ==
    ASSUME IInv, NEW o, Fail(o)
    PROVE  Abstract!Reject(o)
BY DEF Fail, Abstract!Reject, Committed, ViewContents, CacheContents

\* Every step maps to an abstract step or a stutter.
LEMMA RefinementStep ==
    ASSUME IInv, IInv', [Next]_vars
    PROVE  [Abstract!Next]_(Abstract!vars)
<1>0. /\ disk \in Contents /\ view \in Changes /\ cache \in Changes
      /\ ViewContents \in Contents /\ CacheContents \in Contents
  BY LevelTypes DEF IInv, TypeOK
<1>1. ASSUME NEW k \in Keys, NEW v \in Values, Write(k, v) PROVE Abstract!Write(k, v)
  BY <1>1, PutStep, FailStep DEF Write, Exists, Abstract!Write, Optional
<1>2. ASSUME NEW k \in Keys, NEW v \in Values, Update(k, v) PROVE Abstract!Update(k, v)
  BY <1>2, PutStep, FailStep DEF Update, Exists, Abstract!Update, Optional
<1>3. ASSUME NEW k \in Keys, Erase(k) PROVE Abstract!Erase(k)
  BY <1>3, PutStep, FailStep DEF Erase, Exists, Abstract!Erase, Optional
<1>4. ASSUME NEW k \in Keys, Read(k) PROVE Abstract!Read(k)
  BY <1>4 DEF Read, Exists, Abstract!Read, Committed, ViewContents, CacheContents
<1>5. CASE OpenCache
  <2>1. cache = Empty
    BY <1>5 DEF OpenCache, IInv, FlushInv
  <2> QED BY <1>5, <2>1 DEF OpenCache, Abstract!Begin, Abstract!Next, Committed, ViewContents, CacheContents
<1>6. CASE DropCache
  <2>1. ViewContents' = ViewContents
    BY <1>6 DEF DropCache, ViewContents
  <2>2. CacheContents' = ViewContents
    BY <1>0, <1>6, <2>1, OverlayEmpty DEF DropCache, CacheContents
  <2> QED BY <1>6, <2>1, <2>2 DEF DropCache, Abstract!Rollback, Abstract!Next, Committed
<1>7. CASE StartFlushCache
  <2>1. CacheContents' = CacheContents
    BY <1>7 DEF StartFlushCache, ViewContents, CacheContents
  <2> QED BY <1>7, <2>1 DEF StartFlushCache, Abstract!Commit, Abstract!Next, Committed
<1>8. CASE StartFlushView
  <2>1. CacheContents' = CacheContents /\ ViewContents' = ViewContents
    BY <1>8 DEF StartFlushView, ViewContents, CacheContents
  <2> QED BY <1>8, <2>1 DEF StartFlushView, Abstract!vars, Committed
<1>9. CASE FlushKey
  <2>1. PICK k \in todo : FlushOne(k)
    BY <1>9 DEF FlushKey
  <2>2. CASE flushing = "cache"
    <3>1. k \in Changed(cache) /\ view' = [view EXCEPT ![k] = cache[k]]
      BY <2>1, <2>2 DEF FlushOne, IInv, FlushInv
    <3>2. k \in Keys /\ cache[k] \in Optional
      BY <1>0, <3>1 DEF Changed, Changes
    <3>3. ViewContents' = [ViewContents EXCEPT ![k] = cache[k]]
      <4>1. Overlay(disk, [view EXCEPT ![k] = cache[k]])
              = [Overlay(disk, view) EXCEPT ![k] = cache[k]]
        BY <1>0, <3>2, OverlayPut
      <4> QED BY <2>1, <2>2, <3>1, <4>1 DEF FlushOne, ViewContents
    <3>4. CacheContents' = CacheContents
      <4>1. Overlay([ViewContents EXCEPT ![k] = cache[k]], cache)
              = Overlay(ViewContents, cache)
        BY <1>0, <3>1, OverlayCopy
      <4> QED BY <2>1, <3>3, <4>1 DEF FlushOne, CacheContents
    <3> QED BY <2>1, <2>2, <3>4 DEF FlushOne, Abstract!vars, Committed
  <2>3. CASE flushing = "view"
    <3>1. k \in Changed(view) /\ disk' = [disk EXCEPT ![k] = view[k]]
      BY <2>1, <2>3 DEF FlushOne, IInv, FlushInv
    <3>2. ViewContents' = ViewContents
      <4>1. Overlay([disk EXCEPT ![k] = view[k]], view) = Overlay(disk, view)
        BY <1>0, <3>1, OverlayCopy
      <4> QED BY <2>1, <2>3, <3>1, <4>1 DEF FlushOne, ViewContents
    <3>3. CacheContents' = CacheContents
      BY <2>1, <3>2 DEF FlushOne, CacheContents
    <3>4. k \in Keys /\ ViewContents[k] = view[k]
      BY <3>1 DEF Changed, ViewContents, Overlay
    <3>5. Abstract!Persist(k)
      BY <2>1, <2>3, <3>1, <3>2, <3>3, <3>4 DEF FlushOne, Abstract!Persist, Committed
    <3> QED BY <3>4, <3>5 DEF Abstract!Next
  <2> QED BY <2>1, <2>2, <2>3 DEF FlushOne
<1>10. CASE EndFlush
  <2>1. CASE flushing = "cache"
    <3>1. \A k \in Changed(cache) : ViewContents[k] = cache[k]
      <4> SUFFICES ASSUME NEW k \in Changed(cache) PROVE ViewContents[k] = cache[k]
        OBVIOUS
      <4>1. k \in Keys /\ cache[k] # NoEntry /\ view[k] = cache[k]
        BY <1>10, <2>1 DEF EndFlush, IInv, FlushInv, Changed
      <4> QED BY <4>1 DEF ViewContents, Overlay
    <3>2. CacheContents = ViewContents
      BY <1>0, <3>1, OverlayFlushed DEF CacheContents
    <3>3. ViewContents' = ViewContents
      BY <1>10, <2>1 DEF EndFlush, ViewContents
    <3>4. CacheContents' = ViewContents'
      BY <1>0, <1>10, <2>1, <3>3, OverlayEmpty DEF EndFlush, CacheContents
    <3> QED BY <1>10, <2>1, <3>2, <3>3, <3>4 DEF EndFlush, Abstract!vars, Committed
  <2>2. CASE flushing = "view"
    <3>1. ~open /\ cache = Empty /\ \A k \in Changed(view) : disk[k] = view[k]
      BY <1>10, <2>2 DEF EndFlush, IInv, FlushInv
    <3>2. ViewContents = disk
      BY <1>0, <3>1, OverlayFlushed DEF ViewContents
    <3>3. ViewContents' = disk
      BY <1>0, <1>10, <2>2, OverlayEmpty DEF EndFlush, ViewContents
    <3>4. CacheContents' = CacheContents
      BY <1>10, <2>2, <3>2, <3>3 DEF EndFlush, CacheContents
    <3> QED BY <1>10, <2>2, <3>2, <3>3, <3>4 DEF EndFlush, Abstract!vars, Committed
  <2> QED BY <1>10, <2>1, <2>2 DEF EndFlush, IInv, TypeOK
<1>11. CASE FlushFails
  <2>1. CacheContents' = CacheContents /\ ViewContents' = ViewContents
    BY <1>11 DEF FlushFails, ViewContents, CacheContents
  <2> QED BY <1>11, <2>1 DEF FlushFails, Abstract!vars, Committed
<1>12. CASE Crash
  <2>1. ViewContents' = disk
    BY <1>0, <1>12, OverlayEmpty DEF Crash, ViewContents
  <2>2. CacheContents' = disk
    BY <1>0, <1>12, <2>1, OverlayEmpty DEF Crash, CacheContents
  <2> QED BY <1>12, <2>1, <2>2 DEF Crash, Abstract!Crash, Abstract!Next, Committed
<1>13. CASE UNCHANGED vars
  BY <1>13 DEF vars, Abstract!vars, Committed, ViewContents, CacheContents
<1> QED BY <1>1, <1>2, <1>3, <1>4, <1>5, <1>6, <1>7, <1>8, <1>9, <1>10, <1>11, <1>12, <1>13
        DEF Next, Abstract!Next

\* The stack of change maps implements the transactional store.
THEOREM Refinement == Spec => Implements
<1>1. Init => Abstract!Init
  <2> SUFFICES ASSUME Init PROVE Abstract!Init
    OBVIOUS
  <2>1. ViewContents = disk
    BY OverlayEmpty DEF Init, ViewContents
  <2>2. CacheContents = disk
    BY <2>1, OverlayEmpty DEF Init, CacheContents
  <2> QED BY <2>1, <2>2 DEF Init, Abstract!Init, Abstract!Contents, Contents, Optional, Committed
<1>2. IInv /\ IInv' /\ [Next]_vars => [Abstract!Next]_(Abstract!vars)
  BY RefinementStep
<1> QED BY <1>1, <1>2, Inductive, PTL DEF Spec, Implements, Abstract!Spec

-----------------------------------------------------------------------------
\* Some keys have a least and a greatest one.
LEMMA MinIs ==
    ASSUME NEW S \in SUBSET ScanKeys, S # {}
    PROVE  Min(S) \in S /\ \A x \in S : Min(S) <= x
<1>1. S \subseteq Nat
  BY ScanKeysAssumption
<1>2. \E m \in S : \A x \in S : m <= x
  BY <1>1, LeastNatural
<1> QED BY <1>2 DEF Min

LEMMA MaxIs ==
    ASSUME NEW S \in SUBSET ScanKeys, S # {}
    PROVE  Max(S) \in S /\ \A x \in S : Max(S) >= x
<1> DEFINE R == {p \in ScanKeys \X ScanKeys : p[1] <= p[2]}
<1>1. \A a, b \in ScanKeys : <<a, b>> \in R <=> a <= b
  OBVIOUS
<1>2. \A a \in ScanKeys : a \in Nat
  BY ScanKeysAssumption
<1> HIDE DEF R
<1>3. \A a, b \in ScanKeys : <<a, b>> \in R \/ <<b, a>> \in R
  <2> SUFFICES ASSUME NEW a \in ScanKeys, NEW b \in ScanKeys PROVE <<a, b>> \in R \/ <<b, a>> \in R
    OBVIOUS
  <2> QED BY <1>1, <1>2
<1>4. \A a, b, c \in ScanKeys : <<a, b>> \in R /\ <<b, c>> \in R => <<a, c>> \in R
  BY <1>1, <1>2
<1>5. \E m \in S : \A x \in S : <<x, m>> \in R
  BY <1>3, <1>4, ScanKeysAssumption, GreatestExists
<1>6. \E m \in S : \A x \in S : m >= x
  BY <1>1, <1>2, <1>5
<1> QED BY <1>6 DEF Max

LEMMA FirstFromIs ==
    ASSUME NEW S \in SUBSET ScanKeys, NEW k \in Int
    PROVE  /\ FirstFrom(S, k) \in S \cup {NoKey}
           /\ FirstFrom(S, k) # NoKey => FirstFrom(S, k) >= k
           /\ \A x \in S : x >= k => FirstFrom(S, k) # NoKey /\ FirstFrom(S, k) <= x
<1> DEFINE T == {x \in S : x >= k}
<1>1. T \in SUBSET ScanKeys /\ S \subseteq Nat \ {0}
  BY ScanKeysAssumption
<1>2. CASE T = {}
  BY <1>1, <1>2 DEF FirstFrom, NoKey
<1>3. CASE T # {}
  <2>1. FirstFrom(S, k) = Min(T)
    BY <1>3 DEF FirstFrom
  <2>2. Min(T) \in T /\ \A x \in T : Min(T) <= x
    <3> HIDE DEF T
    <3> QED BY <1>1, <1>3, MinIs
  <2> QED BY <1>1, <2>1, <2>2 DEF NoKey
<1> QED BY <1>2, <1>3

LEMMA LastFromIs ==
    ASSUME NEW S \in SUBSET ScanKeys, NEW k \in Int
    PROVE  /\ LastFrom(S, k) \in S \cup {NoKey}
           /\ LastFrom(S, k) # NoKey => LastFrom(S, k) <= k
           /\ \A x \in S : x <= k => LastFrom(S, k) # NoKey /\ LastFrom(S, k) >= x
<1> DEFINE T == {x \in S : x <= k}
<1>1. T \in SUBSET ScanKeys /\ S \subseteq Nat \ {0}
  BY ScanKeysAssumption
<1>2. CASE T = {}
  BY <1>1, <1>2 DEF LastFrom, NoKey
<1>3. CASE T # {}
  <2>1. LastFrom(S, k) = Max(T)
    BY <1>3 DEF LastFrom
  <2>2. Max(T) \in T /\ \A x \in T : Max(T) >= x
    <3> HIDE DEF T
    <3> QED BY <1>1, <1>3, MaxIs
  <2> QED BY <1>1, <2>1, <2>2 DEF NoKey
<1> QED BY <1>2, <1>3

-----------------------------------------------------------------------------
\* The way of the scan, and where it has got to.
Ahead(k, x) == IF call \in {"seek", "next", "shown"} THEN k > x ELSE k < x
Reached == IF prevKey = NoKey THEN from ELSE prevKey

ScanTypes ==
    /\ below \in SUBSET ScanKeys
    /\ changed \in [ScanKeys -> {"value", "tombstone", "none"}]
    /\ pIt \in below \cup {NoKey} /\ mIt \in Entries \cup {NoKey}
    /\ prevKey \in ScanKeys \cup {NoKey} /\ key \in ScanKeys \cup {NoKey} /\ from \in Int
    /\ call \in {"fresh", "seek", "next", "seekLast", "prev", "shown", "shownBack"}

\* The two iterators stand at the first keys ahead of where the scan is, the
\* parent's perhaps at a key that the map has just shown or hidden.
BothAhead ==
    /\ Reached = from \/ Ahead(Reached, from)
    /\ mIt # NoKey => Ahead(mIt, Reached)
    /\ pIt # NoKey => Ahead(pIt, Reached) \/ pIt = prevKey
    /\ \A k \in Entries : Ahead(k, Reached) => mIt # NoKey /\ ~Ahead(mIt, k)
    /\ \A k \in below : Ahead(k, Reached) => pIt # NoKey /\ ~Ahead(pIt, k)

\* While a call runs, nothing that is to be shown has been passed.
NothingPassed ==
    key = NoKey /\ \A k \in Visible : Ahead(k, from) => Ahead(k, Reached)

\* What a call has returned.
ShownNext ==
    /\ key # NoKey =>
         /\ key = prevKey /\ key \in Visible
         /\ source = IF changed[key] = "value" THEN "map" ELSE "parent"
         /\ \A k \in Visible : Ahead(k, from) => ~Ahead(key, k)
    /\ key = NoKey => \A k \in Visible : ~Ahead(k, from)

ScanInv ==
    /\ ScanTypes
    /\ call = "fresh" => key = NoKey
    /\ call # "fresh" => BothAhead
    /\ call \in {"seek", "next", "seekLast", "prev"} => NothingPassed
    /\ call \in {"shown", "shownBack"} => ShownNext

Calls == {"seek", "next", "seekLast", "prev"}

LEMMA BeyondIs ==
    ASSUME call \in Calls, NEW S \in SUBSET ScanKeys, NEW k \in ScanKeys
    PROVE  /\ Beyond(S, k) \in S \cup {NoKey}
           /\ Beyond(S, k) # NoKey => Ahead(Beyond(S, k), k)
           /\ \A x \in S : Ahead(x, k) => Beyond(S, k) # NoKey /\ ~Ahead(Beyond(S, k), x)
<1>1. ScanKeys \subseteq Nat \ {0} /\ k \in Nat /\ k + 1 \in Int /\ k - 1 \in Int
  BY ScanKeysAssumption
<1>2. CASE Forward
  <2> DEFINE b == Beyond(S, k)
  <2>1. b = FirstFrom(S, k + 1)
    BY <1>2 DEF Beyond
  <2>2. call \in {"seek", "next", "shown"}
    BY <1>2 DEF Forward
  <2>3. /\ b \in S \cup {NoKey} /\ (b # NoKey => b >= k + 1)
        /\ \A x \in S : x >= k + 1 => b # NoKey /\ b <= x
    BY <1>1, <2>1, FirstFromIs
  <2> HIDE DEF b
  <2>4. /\ b # NoKey => Ahead(b, k)
        /\ \A x \in S : Ahead(x, k) => b # NoKey /\ ~Ahead(b, x)
    BY <1>1, <2>2, <2>3 DEF Ahead, NoKey
  <2> QED BY <2>3, <2>4 DEF b
<1>3. CASE ~Forward
  <2> DEFINE b == Beyond(S, k)
  <2>1. b = LastFrom(S, k - 1)
    BY <1>3 DEF Beyond
  <2>2. call \notin {"seek", "next", "shown"}
    BY <1>3 DEF Forward, Calls
  <2>3. /\ b \in S \cup {NoKey} /\ (b # NoKey => b <= k - 1)
        /\ \A x \in S : x <= k - 1 => b # NoKey /\ b >= x
    BY <1>1, <2>1, LastFromIs
  <2> HIDE DEF b
  <2>4. /\ b # NoKey => Ahead(b, k)
        /\ \A x \in S : Ahead(x, k) => b # NoKey /\ ~Ahead(b, x)
    BY <1>1, <2>2, <2>3 DEF Ahead, NoKey
  <2> QED BY <2>3, <2>4 DEF b
<1> QED BY <1>2, <1>3

LEMMA ScanInvInit == ScanInit => ScanInv
BY DEF ScanInit, ScanInv, ScanTypes, NoKey

LEMMA SeekKeeps ==
    ASSUME ScanInv, NEW k \in ScanKeys, Seek(k)
    PROVE  ScanInv'
<1>1. ScanKeys \subseteq Nat \ {0} /\ k \in Nat /\ k \in Int /\ k - 1 \in Int
  BY ScanKeysAssumption
<1>2. Entries \in SUBSET ScanKeys /\ below \in SUBSET ScanKeys /\ Entries' = Entries /\ Visible' = Visible
  BY DEF Entries, Visible, ScanInv, ScanTypes, Seek
<1>3. /\ mIt' \in Entries \cup {NoKey} /\ (mIt' # NoKey => mIt' >= k)
      /\ \A x \in Entries : x >= k => mIt' # NoKey /\ mIt' <= x
  BY <1>1, <1>2, FirstFromIs DEF Seek
<1>4. /\ pIt' \in below \cup {NoKey} /\ (pIt' # NoKey => pIt' >= k)
      /\ \A x \in below : x >= k => pIt' # NoKey /\ pIt' <= x
  BY <1>1, <1>2, FirstFromIs DEF Seek
<1>5. /\ call = "fresh" /\ key' = NoKey /\ prevKey' = NoKey /\ from' = k - 1 /\ call' = "seek"
      /\ below' = below /\ changed' = changed
  BY DEF Seek, ScanInv
<1>6. ScanTypes'
  BY <1>1, <1>2, <1>3, <1>4, <1>5 DEF ScanInv, ScanTypes
<1>7. BothAhead'
  BY <1>1, <1>2, <1>3, <1>4, <1>5 DEF BothAhead, Reached, Ahead, NoKey
<1>8. NothingPassed'
  BY <1>5 DEF NothingPassed, Reached
<1> QED BY <1>5, <1>6, <1>7, <1>8 DEF ScanInv

LEMMA SeekToLastKeeps ==
    ASSUME ScanInv, SeekToLast
    PROVE  ScanInv'
<1> DEFINE k == Max(ScanKeys)
<1>1. ScanKeys \subseteq Nat \ {0} /\ k \in ScanKeys /\ k \in Int
  <2>1. ScanKeys \in SUBSET ScanKeys /\ ScanKeys # {} /\ ScanKeys \subseteq Nat \ {0}
    BY ScanKeysAssumption
  <2>2. k \in ScanKeys
    BY <2>1, MaxIs
  <2> HIDE DEF k
  <2> QED BY <2>1, <2>2
<1>2. Entries \in SUBSET ScanKeys /\ below \in SUBSET ScanKeys /\ Entries' = Entries /\ Visible' = Visible
  BY DEF Entries, Visible, ScanInv, ScanTypes, SeekToLast
<1>3. /\ call = "fresh" /\ key' = NoKey /\ prevKey' = NoKey /\ from' = k + 1 /\ call' = "seekLast"
      /\ below' = below /\ changed' = changed
      /\ mIt' = LastFrom(Entries, k) /\ pIt' = LastFrom(below, k)
  BY DEF SeekToLast, ScanInv
<1> HIDE DEF k
<1>4. /\ mIt' \in Entries \cup {NoKey} /\ (mIt' # NoKey => mIt' <= k)
      /\ \A x \in Entries : x <= k => mIt' # NoKey /\ mIt' >= x
  BY <1>1, <1>2, <1>3, LastFromIs
<1>5. /\ pIt' \in below \cup {NoKey} /\ (pIt' # NoKey => pIt' <= k)
      /\ \A x \in below : x <= k => pIt' # NoKey /\ pIt' >= x
  BY <1>1, <1>2, <1>3, LastFromIs
<1>6. ScanTypes'
  BY <1>1, <1>2, <1>3, <1>4, <1>5 DEF ScanInv, ScanTypes
<1>7. BothAhead'
  BY <1>1, <1>2, <1>3, <1>4, <1>5 DEF BothAhead, Reached, Ahead, NoKey
<1>8. NothingPassed'
  BY <1>3 DEF NothingPassed, Reached
<1> QED BY <1>3, <1>6, <1>7, <1>8 DEF ScanInv

\* The scan goes on from the key that was shown.
LEMMA NextCallKeeps ==
    ASSUME ScanInv, NEW c, NEW after, <<c, after>> \in {<<"next", "shown">>, <<"prev", "shownBack">>},
           NextCall(c, after)
    PROVE  ScanInv'
<1>1. ScanKeys \subseteq Nat \ {0}
  BY ScanKeysAssumption
<1>2. /\ key # NoKey /\ key = prevKey /\ key \in ScanKeys /\ ShownNext /\ BothAhead
      /\ from' = key /\ key' = NoKey
      /\ UNCHANGED <<below, changed, pIt, mIt, prevKey, source>>
  BY DEF NextCall, ScanInv, ScanTypes, ShownNext
<1>3. (call = "shown" /\ call' = "next") \/ (call = "shownBack" /\ call' = "prev")
  BY DEF NextCall
<1>4. Entries' = Entries /\ Visible' = Visible /\ Entries \subseteq ScanKeys /\ Visible \subseteq ScanKeys
  BY <1>2 DEF Entries, Visible
<1>5. ScanTypes'
  BY <1>1, <1>2, <1>3, <1>4 DEF ScanInv, ScanTypes
<1>6. BothAhead'
  BY <1>1, <1>2, <1>3, <1>4 DEF BothAhead, Reached, Ahead
<1>7. NothingPassed'
  BY <1>2 DEF NothingPassed, Reached
<1> QED BY <1>3, <1>5, <1>6, <1>7 DEF ScanInv

\* What a step of the loop does not change: the keys and the way of the scan.
LEMMA StepFrame ==
    ASSUME call \in Calls, call' \in {call, Return}, UNCHANGED <<below, changed, from>>
    PROVE  /\ ScanKeys \subseteq Nat \ {0}
           /\ Entries' = Entries /\ Visible' = Visible
           /\ Entries \subseteq ScanKeys /\ Visible \subseteq ScanKeys
           /\ (call' \in {"seek", "next", "shown"}) <=> (call \in {"seek", "next", "shown"})
           /\ call' # "fresh"
<1>1. ScanKeys \subseteq Nat \ {0}
  BY ScanKeysAssumption
<1>2. Entries' = Entries /\ Visible' = Visible /\ Entries \subseteq ScanKeys /\ Visible \subseteq ScanKeys
  BY DEF Entries, Visible
<1> QED BY <1>1, <1>2 DEF Forward, Return, Calls

\* An entry of the map is always fresh, and its key is where the scan is then.
LEMMA StepMapKeeps ==
    ASSUME ScanInv, StepMap
    PROVE  ScanInv'
<1>1. /\ call \in Calls /\ call' \in {call, Return} /\ UNCHANGED <<below, changed, from, pIt>>
      /\ mIt # NoKey /\ mIt' = Beyond(Entries, mIt)
      /\ ScanTypes /\ BothAhead /\ NothingPassed
  BY DEF StepMap, ScanInv, MapFirst, Calls
<1>2. /\ ScanKeys \subseteq Nat \ {0}
      /\ Entries' = Entries /\ Visible' = Visible
      /\ Entries \subseteq ScanKeys /\ Visible \subseteq ScanKeys
      /\ (call' \in {"seek", "next", "shown"}) <=> (call \in {"seek", "next", "shown"})
      /\ call' # "fresh"
  BY <1>1, StepFrame
<1>3. mIt \in Entries /\ mIt \in ScanKeys /\ Ahead(mIt, Reached) /\ Reached \in Int /\ from \in Int
  BY <1>1, <1>2 DEF ScanTypes, BothAhead, Reached, NoKey
<1>4. Fresh(mIt)
  BY <1>1, <1>2, <1>3 DEF Fresh, Ahead, Reached, Forward, Calls
<1>5. prevKey' = mIt /\ Reached' = mIt
  BY <1>2, <1>3, <1>4 DEF StepMap, Reached, NoKey
<1>6. pIt = NoKey \/ ~Ahead(mIt, pIt)
  BY <1>1, <1>2, <1>3 DEF StepMap, MapFirst, Ahead, Forward, Calls, ScanTypes
<1>7. /\ mIt' \in Entries \cup {NoKey} /\ (mIt' # NoKey => Ahead(mIt', mIt))
      /\ \A x \in Entries : Ahead(x, mIt) => mIt' # NoKey /\ ~Ahead(mIt', x)
  BY <1>1, <1>2, <1>3, BeyondIs
<1>8. \A k \in Visible : Ahead(k, from) => ~Ahead(mIt, k)
  <2> SUFFICES ASSUME NEW k \in Visible, Ahead(k, from) PROVE ~Ahead(mIt, k)
    OBVIOUS
  <2>1. Ahead(k, Reached) /\ k \in ScanKeys
    BY <1>1, <1>2 DEF NothingPassed
  <2>2. CASE k \in Entries
    BY <1>1, <2>1, <2>2 DEF BothAhead
  <2>3. CASE k \notin Entries
    <3>1. k \in below
      BY <2>3 DEF Visible, Entries
    <3>2. pIt # NoKey /\ ~Ahead(pIt, k)
      BY <1>1, <2>1, <3>1 DEF BothAhead
    <3> QED BY <1>1, <1>2, <1>3, <1>6, <2>1, <3>2 DEF Ahead, ScanTypes
  <2> QED BY <2>2, <2>3
<1>9. BothAhead'
  <2>1. (Reached = from \/ Ahead(Reached, from)) /\ Ahead(mIt, from)
    BY <1>1, <1>2, <1>3 DEF BothAhead, Ahead
  <2>2. \A k \in below : Ahead(k, mIt) => pIt # NoKey /\ ~Ahead(pIt, k)
    BY <1>1, <1>2, <1>3 DEF BothAhead, Ahead, ScanTypes
  <2>3. pIt # NoKey => Ahead(pIt, mIt) \/ pIt = mIt
    BY <1>1, <1>2, <1>3, <1>6 DEF Ahead, ScanTypes
  <2> QED BY <1>1, <1>2, <1>5, <1>7, <2>1, <2>2, <2>3 DEF BothAhead, Ahead
<1>10. CASE changed[mIt] = "value"
  <2>1. key' = mIt /\ source' = "map" /\ call' = Return
    BY <1>4, <1>10 DEF StepMap
  <2>2. ScanTypes'
    BY <1>1, <1>2, <1>3, <1>5, <1>7, <2>1 DEF ScanTypes, Return
  <2>3. ShownNext'
    BY <1>1, <1>2, <1>3, <1>5, <1>8, <1>10, <2>1 DEF ShownNext, Visible, Ahead, NoKey
  <2> QED BY <1>2, <1>9, <2>1, <2>2, <2>3 DEF ScanInv, Return
<1>11. CASE changed[mIt] # "value"
  <2>1. key' = NoKey /\ call' = call
    BY <1>1, <1>11 DEF StepMap, NothingPassed
  <2>2. ScanTypes'
    BY <1>1, <1>2, <1>3, <1>5, <1>7, <2>1 DEF ScanTypes
  <2>3. mIt \notin Visible
    BY <1>3, <1>11 DEF Visible, Entries
  <2>4. NothingPassed'
    BY <1>1, <1>2, <1>3, <1>5, <1>8, <2>1, <2>3 DEF NothingPassed, Ahead
  <2> QED BY <1>1, <1>9, <2>1, <2>2, <2>4 DEF ScanInv, Calls
<1> QED BY <1>10, <1>11

\* The parent's key is fresh unless the map has just had it, and is in the map
\* only then.
LEMMA StepParentKeeps ==
    ASSUME ScanInv, StepParent
    PROVE  ScanInv'
<1>1. /\ call \in Calls /\ call' \in {call, Return} /\ UNCHANGED <<below, changed, from, mIt>>
      /\ pIt # NoKey /\ pIt' = Beyond(below, pIt)
      /\ ScanTypes /\ BothAhead /\ NothingPassed
  BY DEF StepParent, ScanInv, Calls
<1>2. /\ ScanKeys \subseteq Nat \ {0}
      /\ Entries' = Entries /\ Visible' = Visible
      /\ Entries \subseteq ScanKeys /\ Visible \subseteq ScanKeys
      /\ (call' \in {"seek", "next", "shown"}) <=> (call \in {"seek", "next", "shown"})
      /\ call' # "fresh"
  BY <1>1, StepFrame
<1>3. pIt \in below /\ pIt \in ScanKeys /\ below \in SUBSET ScanKeys /\ Reached \in Int /\ from \in Int
  BY <1>1, <1>2 DEF ScanTypes, Reached, NoKey
<1>4. mIt = NoKey \/ Ahead(mIt, pIt)
  BY <1>1, <1>2, <1>3 DEF StepParent, MapFirst, Ahead, Forward, Calls, ScanTypes
<1>5. /\ pIt' \in below \cup {NoKey} /\ (pIt' # NoKey => Ahead(pIt', pIt))
      /\ \A x \in below : Ahead(x, pIt) => pIt' # NoKey /\ ~Ahead(pIt', x)
  BY <1>1, <1>3, BeyondIs
<1>6. CASE Fresh(pIt)
  <2>1. key' = pIt /\ source' = "parent" /\ prevKey' = pIt /\ call' = Return /\ Reached' = pIt
    BY <1>1, <1>6 DEF StepParent, Reached
  <2>2. Ahead(pIt, Reached) /\ Ahead(pIt, from)
    BY <1>1, <1>2, <1>3, <1>6 DEF BothAhead, Fresh, Ahead, Reached, Forward, Calls
  <2>3. pIt \notin Entries
    BY <1>1, <1>2, <1>3, <1>4, <2>2 DEF BothAhead, Ahead, ScanTypes
  <2>4. changed[pIt] = "none" /\ pIt \in Visible
    BY <1>1, <1>3, <2>3 DEF Entries, Visible, ScanTypes
  <2>5. ScanTypes'
    BY <1>1, <1>2, <1>3, <1>5, <2>1 DEF ScanTypes, Return
  <2>6. BothAhead'
    <3>1. \A k \in Entries : Ahead(k, pIt) => mIt # NoKey /\ ~Ahead(mIt, k)
      BY <1>1, <1>2, <1>3, <2>2 DEF BothAhead, Ahead
    <3> QED BY <1>1, <1>2, <1>4, <1>5, <2>1, <2>2, <3>1 DEF BothAhead, Ahead
  <2>7. \A k \in Visible : Ahead(k, from) => ~Ahead(pIt, k)
    <3> SUFFICES ASSUME NEW k \in Visible, Ahead(k, from) PROVE ~Ahead(pIt, k)
      OBVIOUS
    <3>1. Ahead(k, Reached) /\ k \in ScanKeys
      BY <1>1, <1>2 DEF NothingPassed
    <3>2. CASE k \in below
      BY <1>1, <3>1, <3>2 DEF BothAhead
    <3>3. CASE k \notin below
      <4>1. k \in Entries
        BY <3>3 DEF Visible, Entries
      <4>2. mIt # NoKey /\ ~Ahead(mIt, k)
        BY <1>1, <3>1, <4>1 DEF BothAhead
      <4> QED BY <1>1, <1>2, <1>3, <1>4, <3>1, <4>2 DEF Ahead, ScanTypes
    <3> QED BY <3>2, <3>3
  <2>8. ShownNext'
    BY <1>1, <1>2, <1>3, <2>1, <2>4, <2>7 DEF ShownNext, Ahead
  <2> QED BY <1>2, <2>1, <2>5, <2>6, <2>8 DEF ScanInv, Return
<1>7. CASE ~Fresh(pIt)
  <2>1. key' = NoKey /\ prevKey' = prevKey /\ call' = call /\ Reached' = Reached
    BY <1>1, <1>7 DEF StepParent, NothingPassed, Reached
  <2>2. pIt = prevKey /\ Reached = pIt
    BY <1>1, <1>2, <1>3, <1>7 DEF BothAhead, Fresh, Ahead, Reached, Forward, Calls
  <2>3. ScanTypes'
    BY <1>1, <1>2, <1>3, <1>5, <2>1 DEF ScanTypes
  <2>4. BothAhead'
    BY <1>1, <1>2, <1>5, <2>1, <2>2 DEF BothAhead, Ahead
  <2>5. NothingPassed'
    BY <1>1, <1>2, <2>1 DEF NothingPassed, Ahead
  <2> QED BY <1>1, <2>1, <2>3, <2>4, <2>5 DEF ScanInv, Calls
<1> QED BY <1>6, <1>7

LEMMA StepEndKeeps ==
    ASSUME ScanInv, StepEnd
    PROVE  ScanInv'
<1>1. /\ call \in Calls /\ call' = Return /\ UNCHANGED <<below, changed, from, mIt, pIt, prevKey, key, source>>
      /\ pIt = NoKey /\ mIt = NoKey
      /\ ScanTypes /\ BothAhead /\ NothingPassed
  BY DEF StepEnd, ScanInv, Calls
<1>2. /\ ScanKeys \subseteq Nat \ {0}
      /\ Entries' = Entries /\ Visible' = Visible
      /\ Entries \subseteq ScanKeys /\ Visible \subseteq ScanKeys
      /\ (call' \in {"seek", "next", "shown"}) <=> (call \in {"seek", "next", "shown"})
      /\ call' # "fresh"
  BY <1>1, StepFrame
<1>3. \A k \in Visible : ~Ahead(k, from)
  BY <1>1 DEF BothAhead, NothingPassed, Visible, Entries
<1>4. ScanTypes' /\ BothAhead'
  BY <1>1, <1>2 DEF ScanTypes, BothAhead, Ahead, Reached, Return
<1>5. ShownNext'
  BY <1>1, <1>2, <1>3 DEF ShownNext, NothingPassed, Ahead
<1> QED BY <1>1, <1>2, <1>4, <1>5 DEF ScanInv, Return

LEMMA ScanInvStep == ScanInv /\ [ScanNext]_scanVars => ScanInv'
<1> SUFFICES ASSUME ScanInv, [ScanNext]_scanVars PROVE ScanInv'
  OBVIOUS
<1>1. ASSUME UNCHANGED scanVars PROVE ScanInv'
  BY <1>1 DEF scanVars, ScanInv, ScanTypes, BothAhead, NothingPassed, ShownNext, Reached, Ahead,
             Entries, Visible
<1>2. NextCall("next", "shown") \/ NextCall("prev", "shownBack") => ScanInv'
  BY NextCallKeeps
<1> QED BY <1>1, <1>2, SeekKeeps, SeekToLastKeeps, StepMapKeeps, StepParentKeeps, StepEndKeeps
        DEF ScanNext, ScanDone

\* A scan over a map of changes and the store below shows what one store would,
\* in order and in both directions, for any finite set of keys and whatever map
\* and store hold (CFlushableStorageKVIterator).
THEOREM ScanCorrect == ScanSpec => []ScanIsOrdered
<1>1. ScanInv => ScanIsOrdered
  <2> SUFFICES ASSUME ScanInv, call \in {"shown", "shownBack"}
               PROVE  LET rest == {k \in Visible : IF call = "shown" THEN k > from ELSE k < from}
                      IN  /\ key # NoKey =>
                               /\ key \in Visible
                               /\ source = IF changed[key] = "value" THEN "map" ELSE "parent"
                               /\ \A k \in rest : IF call = "shown" THEN k >= key ELSE k <= key
                          /\ key = NoKey => rest = {}
    BY Zenon DEF ScanIsOrdered
  <2>1. ShownNext /\ Visible \subseteq Nat \ {0}
    BY ScanKeysAssumption DEF ScanInv, Visible
  <2>2. call = "shown" \/ call = "shownBack"
    OBVIOUS
  <2>3. from \in Int /\ \A k \in Visible : k \in Int
    BY <2>1 DEF ScanInv, ScanTypes
  <2> DEFINE rest == {k \in Visible : IF call = "shown" THEN k > from ELSE k < from}
  <2>4. \A k \in Visible : k \in rest <=> Ahead(k, from)
    BY <2>2 DEF Ahead
  <2>5. \A k \in rest : k \in Visible
    OBVIOUS
  <2>6. \A a, b \in Visible : ~Ahead(a, b) => IF call = "shown" THEN b >= a ELSE b <= a
    BY <2>2, <2>3 DEF Ahead
  <2> HIDE DEF rest
  <2>7. key # NoKey =>
           /\ key \in Visible
           /\ source = IF changed[key] = "value" THEN "map" ELSE "parent"
           /\ \A k \in rest : IF call = "shown" THEN k >= key ELSE k <= key
    BY <2>1, <2>4, <2>5, <2>6 DEF ShownNext
  <2>8. key = NoKey => rest = {}
    BY <2>1, <2>4, <2>5 DEF ShownNext
  <2> QED BY <2>7, <2>8 DEF rest
<1> QED BY <1>1, ScanInvInit, ScanInvStep, PTL DEF ScanSpec

-----------------------------------------------------------------------------
(***************************************************************************)
(* The odds.  HalfOdds multiplies in 32 bits; its result is half the odds  *)
(* as long as the product does not wrap.                                   *)
(***************************************************************************)
Odds == BET_ODDSDIVISOR .. WrapsAbove

OddsDoNotWrap == OddsChoices \subseteq Odds

LEMMA LimitIs == WrapsAbove \in Nat /\ BET_ODDSDIVISOR \in Nat /\ WrapsAbove >= BET_ODDSDIVISOR
BY Z3 DEF WrapsAbove, BET_ODDSDIVISOR

LEMMA OddsIs ==
    ASSUME NEW odds \in Odds
    PROVE  odds \in 0 .. WrapsAbove /\ odds - BET_ODDSDIVISOR \in Nat
BY LimitIs DEF Odds

LEMMA HalfOddsIs ==
    ASSUME NEW x \in 0 .. WrapsAbove
    PROVE  /\ HalfOdds(x) \in Nat
           /\ 2 * HalfOdds(x) <= x /\ x <= 2 * HalfOdds(x) + 1
<1>1. x \in Nat /\ HalfOdds(x) = x \div 2
  BY LimitIs DEF HalfOdds
<1>2. x \div 2 \in Nat /\ 2 * (x \div 2) <= x /\ x <= 2 * (x \div 2) + 1
  BY <1>1
<1> QED BY <1>1, <1>2

LEMMA PaysIs ==
    ASSUME NEW odds \in Odds
    PROVE  Pays(odds) = <<odds, CalculateEffectiveOdds(odds)>> /\ CalculateEffectiveOdds(odds) \in 0 .. odds
<1>1. odds \in Nat /\ odds - BET_ODDSDIVISOR \in Nat /\ BET_ODDSDIVISOR \in Nat
  BY LimitIs, OddsIs
<1>2. ASSUME NEW n \in Nat PROVE (n * 94) \div 100 \in Nat /\ (n * 94) \div 100 <= n
  OBVIOUS
<1>3. /\ ((odds - BET_ODDSDIVISOR) * 94) \div 100 \in Nat
      /\ ((odds - BET_ODDSDIVISOR) * 94) \div 100 <= odds - BET_ODDSDIVISOR
  BY <1>1, <1>2
<1>4. CASE odds \in {0, BET_ODDSDIVISOR \div 2, BET_ODDSDIVISOR}
  BY <1>1, <1>4 DEF Pays, CalculateEffectiveOdds
<1>5. CASE odds \notin {0, BET_ODDSDIVISOR \div 2, BET_ODDSDIVISOR}
  BY <1>1, <1>3, <1>5 DEF Pays, CalculateEffectiveOdds
<1> QED BY <1>4, <1>5

LEMMA HalfLineIs ==
    ASSUME NEW odds \in Odds, NEW line \in Int, NEW difference \in Int
    PROVE  /\ line + difference = 0 => HalfLine(odds, line, difference) = Refund
           /\ line + difference > 0 => HalfLine(odds, line, difference) = Pays(odds)
           /\ line + difference < 0 => HalfLine(odds, line, difference) = Lost
BY DEF HalfLine

LEMMA HalfLineRange ==
    ASSUME NEW odds \in Odds, NEW line \in Int, NEW difference \in Int, NEW i \in 1..2
    PROVE  HalfLine(odds, line, difference)[i] \in 0 .. WrapsAbove
<1>1. i = 1 \/ i = 2
  OBVIOUS
<1>2. Refund[i] \in 0 .. WrapsAbove /\ Lost[i] \in 0 .. WrapsAbove
  BY <1>1, LimitIs DEF Refund, Lost
<1>3. Pays(odds)[i] \in 0 .. WrapsAbove
  BY <1>1, LimitIs, OddsIs, PaysIs
<1> QED BY <1>2, <1>3, HalfLineIs

\* The lines that a quarter line lies between, as the code finds them from
\* its absolute value.
LEMMA QuarterLine ==
    ASSUME NEW p \in Int, p % 50 # 0, p % 25 = 0
    PROVE  /\ p >= 0 => (Abs(p) \div 50) * 50 = p - 25
           /\ p < 0 => (Abs(p) \div 50) * 50 = -(p + 25)
<1>1. PICK q \in Int : p = 50 * q + 25
  <2>1. p = 50 * (p \div 50) + (p % 50) /\ p \div 50 \in Int /\ p % 50 \in 0..49
    OBVIOUS
  <2>2. p = 25 * (p \div 25)
    OBVIOUS
  <2> QED BY <2>1, <2>2
<1>2. ASSUME NEW n \in Nat, NEW r \in Int, n = 50 * r + 25 PROVE n \div 50 = r
  BY <1>2
<1>3. CASE p >= 0
  BY <1>1, <1>2, <1>3 DEF Abs
<1>4. CASE p < 0
  <2>1. -p = 50 * (-q - 1) + 25 /\ -p \in Nat /\ -q - 1 \in Int
    BY <1>1, <1>4
  <2>2. (-p) \div 50 = -q - 1
    BY <1>2, <2>1
  <2> QED BY <1>1, <1>4, <2>2 DEF Abs
<1> QED BY <1>3, <1>4

\* A bet on a quarter line is split over the two lines next to it, on either
\* side and for either sign of the handicap (CalculateAsianSpreadOdds).
LEMMA AsianIs ==
    ASSUME NEW event, NEW d \in Int, NEW home \in BOOLEAN,
           event.nSpreadPoints \in Int, event.nSpreadPoints % 50 # 0, event.nSpreadPoints % 25 = 0,
           event.odds["spreadHome"] \in Odds, event.odds["spreadAway"] \in Odds
    PROVE  LET odds == event.odds[IF home THEN "spreadHome" ELSE "spreadAway"]
               line == IF home THEN event.nSpreadPoints ELSE -event.nSpreadPoints
               Part(i, by) == HalfOdds(HalfLine(odds, line + by, d)[i])
           IN  CalculateAsianSpreadOdds(event, d, home)
                  = <<Part(1, -25) + Part(1, 25), Part(2, -25) + Part(2, 25)>>
<1> DEFINE p == event.nSpreadPoints
           odds == event.odds[IF home THEN "spreadHome" ELSE "spreadAway"]
           line == IF home THEN p ELSE -p
           Part(i, by) == HalfOdds(HalfLine(odds, line + by, d)[i])
           side == IF home THEN 1 ELSE -1
           sign == IF p < 0 THEN -side ELSE side
           base == (Abs(p) \div 50) * 50
           One(i) == HalfOdds(HalfLine(odds, base * sign, d)[i])
           Two(i) == HalfOdds(HalfLine(odds, (base + 50) * sign, d)[i])
<1>1. CalculateAsianSpreadOdds(event, d, home) = <<One(1) + Two(1), One(2) + Two(2)>>
  BY DEF CalculateAsianSpreadOdds
<1>2. odds \in Odds /\ p \in Int /\ line \in Int
  OBVIOUS
<1>3. \/ base * sign = line + (-25) /\ (base + 50) * sign = line + 25
      \/ base * sign = line + 25 /\ (base + 50) * sign = line + (-25)
  <2>1. /\ p >= 0 => base = p - 25
        /\ p < 0 => base = -(p + 25)
    BY QuarterLine
  <2> HIDE DEF base
  <2>2. CASE p >= 0
    BY <1>2, <2>1, <2>2
  <2>3. CASE p < 0
    BY <1>2, <2>1, <2>3
  <2> QED BY <1>2, <2>2, <2>3
<1>4. \A i \in 1..2 : Part(i, -25) \in Nat /\ Part(i, 25) \in Nat
  <2> HIDE DEF odds, line
  <2> QED BY <1>2, HalfLineRange, HalfOddsIs
<1>5. \A i \in 1..2 : One(i) + Two(i) = Part(i, -25) + Part(i, 25)
  <2> SUFFICES ASSUME NEW i \in 1..2 PROVE One(i) + Two(i) = Part(i, -25) + Part(i, 25)
    OBVIOUS
  <2>1. Part(i, -25) \in Nat /\ Part(i, 25) \in Nat
    BY <1>4
  <2> HIDE DEF odds, line, base, sign
  <2>2. \/ One(i) = Part(i, -25) /\ Two(i) = Part(i, 25)
        \/ One(i) = Part(i, 25) /\ Two(i) = Part(i, -25)
    BY <1>3
  <2> HIDE DEF One, Two, Part
  <2> QED BY <2>1, <2>2
<1> HIDE DEF One, Two, Part
<1>6. CalculateAsianSpreadOdds(event, d, home) = <<Part(1, -25) + Part(1, 25), Part(2, -25) + Part(2, 25)>>
  BY <1>1, <1>5
<1> QED BY <1>6 DEF Part

\* A game as OddsInit offers it, and what one side of its spread sees.
Offer(odds, points, total) ==
    [odds |-> [o \in Outcomes |-> odds], nSpreadPoints |-> points, nTotalPoints |-> total]

LineOf(home, points) == IF home THEN points ELSE -points
MarginOf(home, r) ==
    IF home THEN r.nHomeScore - r.nAwayScore ELSE -(r.nHomeScore - r.nAwayScore)

Halves(odds, line, d, i) == HalfOdds(HalfLine(odds, line + (-25), d)[i]) + HalfOdds(HalfLine(odds, line + 25, d)[i])

LEMMA NegatedRemainder ==
    ASSUME NEW p \in Int
    PROVE  ((-p) % 50 = 0 <=> p % 50 = 0) /\ ((-p) % 25 = 0 <=> p % 25 = 0)
OBVIOUS

\* The two kinds of line the code tells apart.
WholeLine(p) == p % 50 = 0
QuarterOnly(p) == p % 50 # 0 /\ p % 25 = 0

LEMMA SpreadIs ==
    ASSUME NEW n \in Odds, NEW p \in Int, NEW t, NEW home \in BOOLEAN, NEW r, MarginOf(home, r) \in Int
    PROVE  /\ WholeLine(p) =>
                SpreadOdds(Offer(n, p, t), home, r) = HalfLine(n, LineOf(home, p), MarginOf(home, r))
           /\ QuarterOnly(p) => \A i \in {1, 2} :
                SpreadOdds(Offer(n, p, t), home, r)[i] = Halves(n, LineOf(home, p), MarginOf(home, r), i)
<1> DEFINE event == Offer(n, p, t)
           line == LineOf(home, p)
           d == MarginOf(home, r)
           side == IF home THEN "spreadHome" ELSE "spreadAway"
<1>1. /\ event.nSpreadPoints = p
      /\ event.odds["spreadHome"] = n /\ event.odds["spreadAway"] = n /\ event.odds[side] = n
  BY DEF Offer, Outcomes, Spreads
<1>2. d \in Int /\ line \in Int
  BY DEF LineOf
<1>3. (line % 50 = 0 <=> p % 50 = 0) /\ (line % 25 = 0 <=> p % 25 = 0)
  BY NegatedRemainder DEF LineOf
<1>4. SpreadOdds(event, home, r) =
         CASE line % 50 = 0 -> HalfLine(n, line, d)
           [] line % 50 # 0 /\ line % 25 = 0 -> CalculateAsianSpreadOdds(event, d, home)
           [] OTHER -> Lost
  <2> HIDE DEF event
  <2> QED BY <1>1 DEF SpreadOdds, LineOf, MarginOf
<1>5. QuarterOnly(p) =>
         CalculateAsianSpreadOdds(event, d, home) = <<Halves(n, line, d, 1), Halves(n, line, d, 2)>>
  <2> HAVE QuarterOnly(p)
  <2>1. p % 50 # 0 /\ p % 25 = 0
    BY DEF QuarterOnly
  <2> HIDE DEF event, d
  <2> QED BY <1>1, <1>2, <2>1, AsianIs DEF Halves, LineOf
<1> HIDE DEF event, d, line
<1>6. /\ WholeLine(p) => SpreadOdds(event, home, r) = HalfLine(n, line, d)
      /\ QuarterOnly(p) => SpreadOdds(event, home, r) = CalculateAsianSpreadOdds(event, d, home)
  BY <1>3, <1>4 DEF WholeLine, QuarterOnly
<1>7. QuarterOnly(p) => \A i \in {1, 2} : SpreadOdds(event, home, r)[i] = Halves(n, line, d, i)
  BY <1>5, <1>6
<1> QED BY <1>6, <1>7 DEF event, d, line

LEMMA SpreadOffTheLines ==
    ASSUME NEW n \in Odds, NEW p \in Int, NEW t, NEW home \in BOOLEAN, NEW r,
           r.nHomeScore \in Int, r.nAwayScore \in Int, p % 25 # 0
    PROVE  SpreadOdds(Offer(n, p, t), home, r) = Lost
<1> DEFINE line == LineOf(home, p)
<1>1. line \in Int /\ line % 25 # 0
  BY NegatedRemainder DEF LineOf
<1>2. line % 50 # 0
  <2> HIDE DEF line
  <2> QED BY <1>1
<1>3. Offer(n, p, t).nSpreadPoints = p
  BY DEF Offer
<1> HIDE DEF line
<1> QED BY <1>1, <1>2, <1>3 DEF SpreadOdds, line, LineOf

\* A leg on the spread is given back with its market or its event, and else
\* worth what SpreadOdds says (GetBetOdds).
LEMMA SpreadLegIs ==
    ASSUME NEW n \in Odds, NEW p, NEW t, NEW o \in Spreads, NEW r
    PROVE  GetBetOdds(o, Offer(n, p, t), r) =
             IF r.nResultType \in {"eventRefund", "spreadsRefund"} THEN Refund
             ELSE SpreadOdds(Offer(n, p, t), o = "spreadHome", r)
<1>1. o \notin MoneyLine /\ o \in Outcomes
      /\ o # "moneyLineHomeWin" /\ o # "moneyLineAwayWin" /\ o # "moneyLineDraw"
      /\ o # "totalOver" /\ o # "totalUnder" /\ o \notin Totals
  BY DEF Spreads, MoneyLine, Totals, Outcomes
<1>2. MarketRefund(o) = "spreadsRefund"
  BY <1>1 DEF MarketRefund
<1>3. Offer(n, p, t).odds[o] = n /\ n # 0
  BY <1>1, LimitIs DEF Offer, Odds, BET_ODDSDIVISOR
<1> QED BY <1>1, <1>2, <1>3 DEF GetBetOdds

-----------------------------------------------------------------------------
\* What the oracle and the players can bring about.
OddsInv ==
    /\ \E odds \in OddsChoices, points \in Handicaps, sign \in {-1, 1} :
         game = Offer(odds, sign * points, points)
    /\ \/ result = NotPlayed
       \/ result \in [nResultType : ResultTypes, nHomeScore : Scores, nAwayScore : Scores]

LEMMA OddsInvInductive ==
    /\ OddsInit => OddsInv
    /\ OddsInv /\ [OddsNext]_oddsVars => OddsInv'
<1>1. OddsInit => OddsInv
  BY DEF OddsInit, OddsInv, Offer
<1>2. ASSUME OddsInv, NEW type \in ResultTypes, NEW home \in Scores, NEW away \in Scores,
             Play(type, home, away)
      PROVE  OddsInv'
  BY <1>2 DEF OddsInv, Play
<1>3. OddsInv /\ UNCHANGED oddsVars => OddsInv'
  BY DEF OddsInv, oddsVars
<1> QED BY <1>1, <1>2, <1>3 DEF OddsNext, OddsDone

LEMMA MovedIs ==
    ASSUME NEW n, NEW p \in Int, NEW t, NEW by \in Int
    PROVE  [Offer(n, p, t) EXCEPT !.nSpreadPoints = @ + by] = Offer(n, p + by, t)
BY DEF Offer

LEMMA AsianHalves ==
    ASSUME NEW n \in Odds, NEW p \in Int, NEW t, NEW r, NEW o \in Spreads, NEW i \in 1..2,
           r.nHomeScore \in Int, r.nAwayScore \in Int, p % 50 # 0
    PROVE  Near(2 * GetBetOdds(o, Offer(n, p, t), r)[i],
                GetBetOdds(o, Offer(n, p + (-25), t), r)[i] + GetBetOdds(o, Offer(n, p + 25, t), r)[i], 2)
<1> DEFINE home == o = "spreadHome"
           line == LineOf(home, p)
           d == MarginOf(home, r)
           Whole(x) == GetBetOdds(o, Offer(n, x, t), r)
<1>1. home \in BOOLEAN /\ i \in {1, 2}
  OBVIOUS
<1>2. ASSUME r.nResultType \in {"eventRefund", "spreadsRefund"}
      PROVE  Near(2 * Whole(p)[i], Whole(p + (-25))[i] + Whole(p + 25)[i], 2)
  <2>1. Whole(p) = Refund /\ Whole(p + (-25)) = Refund /\ Whole(p + 25) = Refund
    BY <1>2, SpreadLegIs
  <2>2. Refund[i] \in Int
    BY <1>1, LimitIs DEF Refund
  <2> HIDE DEF Whole
  <2> QED BY <2>1, <2>2 DEF Near, Abs
<1>3. ASSUME r.nResultType \notin {"eventRefund", "spreadsRefund"}
      PROVE  Near(2 * Whole(p)[i], Whole(p + (-25))[i] + Whole(p + 25)[i], 2)
  <2>1. \A x : Whole(x) = SpreadOdds(Offer(n, x, t), home, r)
    BY <1>3, SpreadLegIs
  <2>2. line \in Int /\ d \in Int
    BY DEF LineOf, MarginOf
  <2>3. CASE p % 25 # 0
    <3>1. \A x \in {p, p + (-25), p + 25} : x \in Int /\ x % 50 # 0 /\ x % 25 # 0
      BY <2>3
    <3>2. \A x \in {p, p + (-25), p + 25} : Whole(x) = Lost
      <4>1. ASSUME NEW x \in Int, x % 50 # 0, x % 25 # 0 PROVE Whole(x) = Lost
        <5>1. Whole(x) = SpreadOdds(Offer(n, x, t), home, r)
          BY <2>1
        <5> HIDE DEF home, Whole
        <5>2. SpreadOdds(Offer(n, x, t), home, r) = Lost
          BY <1>1, <4>1, SpreadOffTheLines
        <5> QED BY <5>1, <5>2
      <4> HIDE DEF Whole
      <4> QED BY <3>1, <4>1
    <3>3. Lost[i] = 0
      BY <1>1 DEF Lost
    <3> HIDE DEF Whole
    <3> QED BY <3>2, <3>3 DEF Near, Abs
  <2>4. CASE p % 25 = 0
    <3> DEFINE lo == HalfLine(n, line + (-25), d)[i]
               hi == HalfLine(n, line + 25, d)[i]
    <3>1. p + (-25) \in Int /\ p + 25 \in Int /\ (p + (-25)) % 50 = 0 /\ (p + 25) % 50 = 0
      BY <2>4
    <3>2. Whole(p)[i] = HalfOdds(lo) + HalfOdds(hi)
      <4>1. QuarterOnly(p)
        BY <2>4 DEF QuarterOnly
      <4>2. Whole(p)[i] = Halves(n, line, d, i)
        <5> HIDE DEF home
        <5> QED BY <1>1, <2>1, <2>2, <4>1, SpreadIs
      <4> QED BY <4>2 DEF Halves
    <3>3. /\ Whole(p + (-25)) = HalfLine(n, LineOf(home, p + (-25)), d)
          /\ Whole(p + 25) = HalfLine(n, LineOf(home, p + 25), d)
      <4> HIDE DEF home
      <4>1. WholeLine(p + (-25)) /\ WholeLine(p + 25)
        BY <3>1 DEF WholeLine
      <4> QED BY <1>1, <2>1, <2>2, <3>1, <4>1, SpreadIs
    <3>4. \/ LineOf(home, p + (-25)) = line + (-25) /\ LineOf(home, p + 25) = line + 25
          \/ LineOf(home, p + (-25)) = line + 25 /\ LineOf(home, p + 25) = line + (-25)
      BY DEF LineOf
    <3>5. \/ Whole(p + (-25))[i] = lo /\ Whole(p + 25)[i] = hi
          \/ Whole(p + (-25))[i] = hi /\ Whole(p + 25)[i] = lo
      <4> HIDE DEF home, d, line, Whole
      <4> QED BY <3>3, <3>4
    <3>6. lo \in 0 .. WrapsAbove /\ hi \in 0 .. WrapsAbove
      <4> HIDE DEF d, line
      <4> QED BY <2>2, HalfLineRange
    <3> HIDE DEF lo, hi, Whole
    <3>7. /\ HalfOdds(lo) \in Nat /\ 2 * HalfOdds(lo) <= lo /\ lo <= 2 * HalfOdds(lo) + 1
          /\ HalfOdds(hi) \in Nat /\ 2 * HalfOdds(hi) <= hi /\ hi <= 2 * HalfOdds(hi) + 1
      BY <3>6, HalfOddsIs
    <3>8. lo \in Int /\ hi \in Int
      BY <3>6, LimitIs
    <3> QED BY <3>2, <3>5, <3>7, <3>8 DEF Near, Abs
  <2> QED BY <2>3, <2>4
<1> QED BY <1>2, <1>3

\* A bet on a quarter line pays the mean of two bets on the lines next to it,
\* up to rounding, for all odds whose half does not wrap in 32 bits, any
\* handicap of either sign and any result (CalculateAsianSpreadOdds).
THEOREM QuarterLinesSplit == OddsDoNotWrap => (OddsSpec => []AsianIsTwoHalfBets)
<1> SUFFICES ASSUME OddsDoNotWrap PROVE OddsSpec => []AsianIsTwoHalfBets
  OBVIOUS
<1>1. OddsInv => AsianIsTwoHalfBets
  <2> SUFFICES ASSUME OddsInv, Played, game.nSpreadPoints % 50 # 0, NEW o \in Spreads, NEW i \in 1..2
               PROVE  Near(2 * Value(o)[i], Moved(o, -25)[i] + Moved(o, 25)[i], 2)
    BY DEF AsianIsTwoHalfBets
  <2>1. PICK n \in OddsChoices, h \in Handicaps, sign \in {-1, 1} : game = Offer(n, sign * h, h)
    BY DEF OddsInv
  <2> DEFINE p == sign * h
  <2>2. n \in Odds /\ p \in Int /\ game.nSpreadPoints = p /\ game = Offer(n, p, h)
    BY <2>1, ChoicesAssumption DEF OddsDoNotWrap, Offer
  <2>3. result.nHomeScore \in Int /\ result.nAwayScore \in Int
    <3>1. result \in [nResultType : ResultTypes, nHomeScore : Scores, nAwayScore : Scores]
      BY DEF OddsInv, Played
    <3>2. \A x \in Scores : x \in Int
      BY ChoicesAssumption
    <3> QED BY <3>1, <3>2
  <2> HIDE DEF p
  <2>4. /\ Value(o) = GetBetOdds(o, Offer(n, p, h), result)
        /\ Moved(o, -25) = GetBetOdds(o, Offer(n, p + (-25), h), result)
        /\ Moved(o, 25) = GetBetOdds(o, Offer(n, p + 25, h), result)
    BY <2>2, MovedIs DEF Value, Moved
  <2>5. p % 50 # 0
    BY <2>2
  <2> QED BY <2>2, <2>3, <2>4, <2>5, AsianHalves
<1> QED BY <1>1, OddsInvInductive, PTL DEF OddsSpec

-----------------------------------------------------------------------------
\* Handicaps come in quarters of a point and scores in halves, as the lines
\* of the spread do.
OnTheGrid == (\A h \in Handicaps : h % 25 = 0) /\ (\A s \in Scores : s % 50 = 0)

\* Outcome, from the odds offered and the odds paid.
Kind(n, odds) ==
    CASE odds = 0                      -> "lost"
      [] odds = BET_ODDSDIVISOR \div 2 -> "half lost"
      [] odds = BET_ODDSDIVISOR        -> "back"
      [] odds > BET_ODDSDIVISOR /\ odds < n - 1 -> "half won"
      [] OTHER                         -> "won"

HalfUnit == BET_ODDSDIVISOR \div 2

LEMMA UnitIs == HalfUnit \in Nat /\ HalfUnit > 1 /\ BET_ODDSDIVISOR = 2 * HalfUnit
BY SMT DEF HalfUnit, BET_ODDSDIVISOR

LEMMA KindIs ==
    ASSUME NEW n \in Nat, n > 2 * BET_ODDSDIVISOR
    PROVE  /\ Kind(n, 0) = "lost" /\ Kind(n, HalfUnit) = "half lost"
           /\ Kind(n, BET_ODDSDIVISOR) = "back"
           /\ Kind(n, n) = "won" /\ Kind(n, n - 1) = "won"
           /\ \A h \in Nat : 2 * h <= n /\ n <= 2 * h + 1 =>
                Kind(n, h + HalfUnit) = "half won" /\ Kind(n, HalfUnit + h) = "half won"
<1> DEFINE B == BET_ODDSDIVISOR
<1>1. B \in Nat /\ HalfUnit \in Nat /\ HalfUnit > 1 /\ B = 2 * HalfUnit
  BY UnitIs
<1>2. ASSUME NEW v \in Nat
      PROVE  /\ v = 0 => Kind(n, v) = "lost"
             /\ v = HalfUnit => Kind(n, v) = "half lost"
             /\ v = B => Kind(n, v) = "back"
             /\ v > B /\ v < n - 1 => Kind(n, v) = "half won"
             /\ v > B /\ v >= n - 1 => Kind(n, v) = "won"
  <2>1. Kind(n, v) = CASE v = 0 -> "lost" [] v = HalfUnit -> "half lost" [] v = B -> "back"
                       [] v > B /\ v < n - 1 -> "half won" [] OTHER -> "won"
    BY Zenon DEF Kind, HalfUnit
  <2> DEFINE inner == v > B /\ v < n - 1
             outer == v > B /\ v >= n - 1
  <2>2. /\ v = 0 => ~(v = HalfUnit) /\ ~(v = B) /\ ~inner /\ ~outer
        /\ v = HalfUnit => ~(v = B) /\ ~inner /\ ~outer
        /\ v = B => ~inner /\ ~outer
        /\ inner => ~outer
    BY <1>1
  <2>3. Kind(n, v) = CASE v = 0 -> "lost" [] v = HalfUnit -> "half lost" [] v = B -> "back"
                       [] inner -> "half won" [] OTHER -> "won"
    BY <2>1
  <2> HIDE DEF B, inner, outer
  <2>4. /\ v = 0 => Kind(n, v) = "lost"
        /\ v = HalfUnit => Kind(n, v) = "half lost"
        /\ v = B => Kind(n, v) = "back"
        /\ inner => Kind(n, v) = "half won"
        /\ outer => Kind(n, v) = "won"
    BY <2>2, <2>3, Zenon
  <2> QED BY <2>4 DEF inner, outer
<1> HIDE DEF B
<1>3. n > 2 * B
  BY DEF B
<1>4. \A h \in Nat : 2 * h <= n /\ n <= 2 * h + 1 =>
        /\ h + HalfUnit \in Nat /\ h + HalfUnit = HalfUnit + h
        /\ h + HalfUnit > B /\ h + HalfUnit < n - 1
  BY <1>1, <1>3
<1>5. n - 1 \in Nat /\ n - 1 > B /\ n > B
  BY <1>1, <1>3
<1>6. Kind(n, 0) = "lost" /\ Kind(n, HalfUnit) = "half lost" /\ Kind(n, B) = "back"
  BY <1>1, <1>2
<1>7. Kind(n, n) = "won" /\ Kind(n, n - 1) = "won"
  <2>1. n \in Nat /\ n >= n - 1 /\ n - 1 >= n - 1
    OBVIOUS
  <2> QED BY <1>2, <1>5, <2>1
<1>8. \A h \in Nat : 2 * h <= n /\ n <= 2 * h + 1 =>
        Kind(n, h + HalfUnit) = "half won" /\ Kind(n, HalfUnit + h) = "half won"
  BY <1>2, <1>4
<1> QED BY <1>6, <1>7, <1>8 DEF B

LEMMA OppositeIs ==
    /\ Opposite["lost"] = "won" /\ Opposite["won"] = "lost" /\ Opposite["back"] = "back"
    /\ Opposite["half lost"] = "half won" /\ Opposite["half won"] = "half lost"
BY DEF Opposite

\* What each half of a bet adds to the odds paid.
LEMMA HalfPaid ==
    ASSUME NEW n \in Odds, NEW line \in Int, NEW d \in Int
    PROVE  LET half == HalfOdds(HalfLine(n, line, d)[1])
           IN  /\ line + d = 0 => half = HalfUnit
               /\ line + d > 0 => half = HalfOdds(n)
               /\ line + d < 0 => half = 0
<1>1. HalfOdds(0) = 0 /\ HalfOdds(BET_ODDSDIVISOR) = HalfUnit
  <2>1. 0 \in 0 .. WrapsAbove /\ BET_ODDSDIVISOR \in 0 .. WrapsAbove
    BY LimitIs
  <2>2. /\ HalfOdds(0) \in Nat /\ 2 * HalfOdds(0) <= 0
        /\ HalfOdds(BET_ODDSDIVISOR) \in Nat
        /\ 2 * HalfOdds(BET_ODDSDIVISOR) <= BET_ODDSDIVISOR
        /\ BET_ODDSDIVISOR <= 2 * HalfOdds(BET_ODDSDIVISOR) + 1
    BY <2>1, HalfOddsIs
  <2> QED BY <2>2, UnitIs
<1>2. Refund[1] = BET_ODDSDIVISOR /\ Lost[1] = 0 /\ Pays(n)[1] = n
  BY DEF Refund, Lost, Pays
<1> QED BY <1>1, <1>2, HalfLineIs

\* The two sides of a spread, a and b being what their odds paid come to.
LEMMA SpreadSides ==
    ASSUME NEW n \in Odds, n > 2 * BET_ODDSDIVISOR, NEW p \in Int, p % 25 = 0, NEW t, NEW r,
           r.nHomeScore \in Int, r.nAwayScore \in Int,
           (r.nHomeScore - r.nAwayScore) % 50 = 0
    PROVE  Kind(n, GetBetOdds("spreadAway", Offer(n, p, t), r)[1])
              = Opposite[Kind(n, GetBetOdds("spreadHome", Offer(n, p, t), r)[1])]
<1> DEFINE d == r.nHomeScore - r.nAwayScore
           Home == GetBetOdds("spreadHome", Offer(n, p, t), r)
           Away == GetBetOdds("spreadAway", Offer(n, p, t), r)
<1>1. "spreadHome" \in Spreads /\ "spreadAway" \in Spreads
  BY DEF Spreads
<1>2. n \in Nat /\ d \in Int /\ d % 50 = 0
  BY OddsIs, LimitIs DEF Odds
<1>3. /\ Kind(n, 0) = "lost" /\ Kind(n, HalfUnit) = "half lost"
      /\ Kind(n, BET_ODDSDIVISOR) = "back"
      /\ Kind(n, n) = "won" /\ Kind(n, n - 1) = "won"
      /\ Kind(n, HalfOdds(n) + HalfUnit) = "half won" /\ Kind(n, HalfUnit + HalfOdds(n)) = "half won"
  BY <1>2, KindIs, HalfOddsIs, OddsIs
<1>4. Refund[1] = BET_ODDSDIVISOR /\ Lost[1] = 0 /\ Pays(n)[1] = n
  BY DEF Refund, Lost, Pays
<1>5. CASE r.nResultType \in {"eventRefund", "spreadsRefund"}
  <2>1. Home = Refund /\ Away = Refund
    BY <1>1, <1>5, SpreadLegIs
  <2> HIDE DEF Home, Away
  <2>2. Kind(n, Away[1]) = Opposite[Kind(n, Home[1])]
    BY <1>3, <1>4, <2>1, OppositeIs
  <2> QED BY <2>2 DEF Home, Away
<1>6. CASE r.nResultType \notin {"eventRefund", "spreadsRefund"}
  <2>1. Home = SpreadOdds(Offer(n, p, t), TRUE, r) /\ Away = SpreadOdds(Offer(n, p, t), FALSE, r)
    <3>1. /\ Home = SpreadOdds(Offer(n, p, t), "spreadHome" = "spreadHome", r)
          /\ Away = SpreadOdds(Offer(n, p, t), "spreadAway" = "spreadHome", r)
      BY <1>1, <1>6, SpreadLegIs
    <3>2. (("spreadHome" = "spreadHome") = TRUE) /\ (("spreadAway" = "spreadHome") = FALSE)
      OBVIOUS
    <3> HIDE DEF Home, Away
    <3> QED BY <3>1, <3>2
  <2>2. LineOf(TRUE, p) = p /\ LineOf(FALSE, p) = -p /\ MarginOf(TRUE, r) = d /\ MarginOf(FALSE, r) = -d
    BY DEF LineOf, MarginOf
  <2>3. CASE p % 50 = 0
    <3>1. Home = HalfLine(n, p, d) /\ Away = HalfLine(n, -p, -d)
      <4>1. /\ SpreadOdds(Offer(n, p, t), TRUE, r) = HalfLine(n, LineOf(TRUE, p), MarginOf(TRUE, r))
            /\ SpreadOdds(Offer(n, p, t), FALSE, r) = HalfLine(n, LineOf(FALSE, p), MarginOf(FALSE, r))
        <5>1. \A home \in BOOLEAN :
                SpreadOdds(Offer(n, p, t), home, r) = HalfLine(n, LineOf(home, p), MarginOf(home, r))
          <6>1. WholeLine(p) /\ \A home \in BOOLEAN : MarginOf(home, r) \in Int
            BY <2>3 DEF WholeLine, MarginOf
          <6> QED BY <6>1, SpreadIs
        <5> QED BY <5>1
      <4> HIDE DEF d, Home, Away
      <4> QED BY <2>1, <2>2, <4>1
    <3> HIDE DEF d, Home, Away
    <3>2. \/ Home[1] = BET_ODDSDIVISOR /\ Away[1] = BET_ODDSDIVISOR
          \/ Home[1] = n /\ Away[1] = 0
          \/ Home[1] = 0 /\ Away[1] = n
      <4> DEFINE q == -p
                 f == -d
      <4>1. q \in Int /\ f \in Int /\ q + f = -(p + d) /\ Away = HalfLine(n, q, f)
        BY <1>2, <3>1
      <4> HIDE DEF q, f
      <4>2. /\ p + d = 0 => Home = Refund
            /\ p + d > 0 => Home = Pays(n)
            /\ p + d < 0 => Home = Lost
        BY <1>2, <3>1, HalfLineIs
      <4>3. /\ q + f = 0 => Away = Refund
            /\ q + f > 0 => Away = Pays(n)
            /\ q + f < 0 => Away = Lost
        BY <4>1, HalfLineIs
      <4>4. \/ Home = Refund /\ Away = Refund
            \/ Home = Pays(n) /\ Away = Lost
            \/ Home = Lost /\ Away = Pays(n)
        BY <1>2, <4>1, <4>2, <4>3
      <4> QED BY <1>4, <4>4
    <3>3. Kind(n, Away[1]) = Opposite[Kind(n, Home[1])]
      BY <1>3, <3>2, OppositeIs
    <3> QED BY <3>3 DEF Home, Away
  <2>4. CASE p % 50 # 0
    <3> DEFINE H(x, y) == HalfOdds(HalfLine(n, x, y)[1])
    <3>1. /\ Home[1] = H(p + (-25), d) + H(p + 25, d)
          /\ Away[1] = H((-p) + (-25), -d) + H((-p) + 25, -d)
      <4>1. ASSUME NEW home \in BOOLEAN
            PROVE  SpreadOdds(Offer(n, p, t), home, r)[1] = Halves(n, LineOf(home, p), MarginOf(home, r), 1)
        <5>1. QuarterOnly(p) /\ MarginOf(home, r) \in Int
          BY <2>4 DEF QuarterOnly, MarginOf
        <5> QED BY <5>1, SpreadIs
      <4> HIDE DEF d, Home, Away
      <4>2. Home[1] = Halves(n, p, d, 1) /\ Away[1] = Halves(n, -p, -d, 1)
        <5>1. Home[1] = Halves(n, LineOf(TRUE, p), MarginOf(TRUE, r), 1)
          BY <2>1, <4>1
        <5>2. Away[1] = Halves(n, LineOf(FALSE, p), MarginOf(FALSE, r), 1)
          BY <2>1, <4>1
        <5> QED BY <2>2, <5>1, <5>2
      <4> QED BY <4>2 DEF Halves
    <3>2. \/ p + (-25) + d > 0 /\ p + 25 + d > 0
          \/ p + (-25) + d = 0 /\ p + 25 + d > 0
          \/ p + (-25) + d < 0 /\ p + 25 + d = 0
          \/ p + (-25) + d < 0 /\ p + 25 + d < 0
      <4> HIDE DEF d
      <4>1. \E k \in Int : p + (-25) = 50 * k
        <5>1. p = 50 * (p \div 50) + (p % 50) /\ p \div 50 \in Int /\ p % 50 \in 0..49
          OBVIOUS
        <5>2. p = 25 * (p \div 25)
          OBVIOUS
        <5> QED BY <2>4, <5>1, <5>2
      <4>2. d = 50 * (d \div 50) /\ d \div 50 \in Int
        BY <1>2
      <4>3. PICK k \in Int : p + (-25) = 50 * k
        BY <4>1
      <4>4. k + (d \div 50) \in Int /\ p + (-25) + d = 50 * (k + (d \div 50))
        BY <1>2, <4>2, <4>3
      <4> QED BY <1>2, <4>4
    <3> DEFINE a == H(p + (-25), d)
               b == H(p + 25, d)
               c == H((-p) + (-25), -d)
               e == H((-p) + 25, -d)
    <3>3. /\ p + (-25) \in Int /\ p + 25 \in Int /\ (-p) + (-25) \in Int /\ (-p) + 25 \in Int /\ -d \in Int
          /\ ((-p) + (-25)) + (-d) = -(p + 25 + d) /\ ((-p) + 25) + (-d) = -(p + (-25) + d)
      BY <1>2
    <3>4. /\ (p + (-25)) + d = 0 => a = HalfUnit
          /\ (p + (-25)) + d > 0 => a = HalfOdds(n)
          /\ (p + (-25)) + d < 0 => a = 0
      <4> HIDE DEF d
      <4> DEFINE l == p + (-25)
                 m == d
      <4>1. l \in Int /\ m \in Int
        BY <1>2, <3>3
      <4> HIDE DEF l, m
      <4>2. /\ l + m = 0 => H(l, m) = HalfUnit
            /\ l + m > 0 => H(l, m) = HalfOdds(n)
            /\ l + m < 0 => H(l, m) = 0
        BY <4>1, HalfPaid
      <4> QED BY <4>2 DEF l, m
    <3>5. /\ (p + 25) + d = 0 => b = HalfUnit
          /\ (p + 25) + d > 0 => b = HalfOdds(n)
          /\ (p + 25) + d < 0 => b = 0
      <4> HIDE DEF d
      <4> DEFINE l == p + 25
                 m == d
      <4>1. l \in Int /\ m \in Int
        BY <1>2, <3>3
      <4> HIDE DEF l, m
      <4>2. /\ l + m = 0 => H(l, m) = HalfUnit
            /\ l + m > 0 => H(l, m) = HalfOdds(n)
            /\ l + m < 0 => H(l, m) = 0
        BY <4>1, HalfPaid
      <4> QED BY <4>2 DEF l, m
    <3>6. /\ ((-p) + (-25)) + (-d) = 0 => c = HalfUnit
          /\ ((-p) + (-25)) + (-d) > 0 => c = HalfOdds(n)
          /\ ((-p) + (-25)) + (-d) < 0 => c = 0
      <4> HIDE DEF d
      <4> DEFINE l == (-p) + (-25)
                 m == (-d)
      <4>1. l \in Int /\ m \in Int
        BY <1>2, <3>3
      <4> HIDE DEF l, m
      <4>2. /\ l + m = 0 => H(l, m) = HalfUnit
            /\ l + m > 0 => H(l, m) = HalfOdds(n)
            /\ l + m < 0 => H(l, m) = 0
        BY <4>1, HalfPaid
      <4> QED BY <4>2 DEF l, m
    <3>7. /\ ((-p) + 25) + (-d) = 0 => e = HalfUnit
          /\ ((-p) + 25) + (-d) > 0 => e = HalfOdds(n)
          /\ ((-p) + 25) + (-d) < 0 => e = 0
      <4> HIDE DEF d
      <4> DEFINE l == (-p) + 25
                 m == (-d)
      <4>1. l \in Int /\ m \in Int
        BY <1>2, <3>3
      <4> HIDE DEF l, m
      <4>2. /\ l + m = 0 => H(l, m) = HalfUnit
            /\ l + m > 0 => H(l, m) = HalfOdds(n)
            /\ l + m < 0 => H(l, m) = 0
        BY <4>1, HalfPaid
      <4> QED BY <4>2 DEF l, m
    <3>8. Home[1] = a + b /\ Away[1] = c + e
      BY <3>1
    <3> HIDE DEF d, Home, Away, H, a, b, c, e
    <3>9. \/ a = HalfOdds(n) /\ b = HalfOdds(n) /\ c = 0 /\ e = 0
          \/ a = HalfUnit /\ b = HalfOdds(n) /\ c = 0 /\ e = HalfUnit
          \/ a = 0 /\ b = HalfUnit /\ c = HalfUnit /\ e = HalfOdds(n)
          \/ a = 0 /\ b = 0 /\ c = HalfOdds(n) /\ e = HalfOdds(n)
      BY <1>2, <3>2, <3>3, <3>4, <3>5, <3>6, <3>7
    <3>10. /\ HalfOdds(n) \in Nat /\ HalfUnit \in Nat /\ BET_ODDSDIVISOR = 2 * HalfUnit
           /\ HalfOdds(n) + HalfOdds(n) \in {n, n - 1}
      BY <1>2, OddsIs, HalfOddsIs, UnitIs
    <3>11. \/ Home[1] \in {n, n - 1} /\ Away[1] = 0
           \/ Home[1] = HalfUnit + HalfOdds(n) /\ Away[1] = HalfUnit
           \/ Home[1] = HalfUnit /\ Away[1] = HalfUnit + HalfOdds(n)
           \/ Home[1] = 0 /\ Away[1] \in {n, n - 1}
      BY <3>8, <3>9, <3>10
    <3>12. Kind(n, Away[1]) = Opposite[Kind(n, Home[1])]
      BY <1>3, <3>11, OppositeIs
    <3> QED BY <3>12 DEF Home, Away
  <2> QED BY <2>3, <2>4
<1> QED BY <1>5, <1>6

\* The two sides of a total.
LEMMA TotalSides ==
    ASSUME NEW n \in Odds, n > 2 * BET_ODDSDIVISOR, NEW p, NEW t \in Int, NEW r,
           r.nHomeScore \in Int, r.nAwayScore \in Int
    PROVE  Kind(n, GetBetOdds("totalUnder", Offer(n, p, t), r)[1])
              = Opposite[Kind(n, GetBetOdds("totalOver", Offer(n, p, t), r)[1])]
<1> DEFINE total == r.nHomeScore + r.nAwayScore
           Over == GetBetOdds("totalOver", Offer(n, p, t), r)
           Under == GetBetOdds("totalUnder", Offer(n, p, t), r)
           back == r.nResultType = "eventRefund" \/ r.nResultType = "totalsRefund"
<1>1. /\ "totalOver" \in Totals /\ "totalUnder" \in Totals
      /\ "totalOver" \notin Spreads /\ "totalUnder" \notin Spreads
      /\ "totalOver" \notin MoneyLine /\ "totalUnder" \notin MoneyLine
  BY DEF Totals, Spreads, MoneyLine
<1>2. /\ Offer(n, p, t).odds["totalOver"] = n /\ Offer(n, p, t).odds["totalUnder"] = n
      /\ Offer(n, p, t).nTotalPoints = t /\ n # 0 /\ n \in Nat
  BY <1>1, LimitIs, OddsIs DEF Offer, Outcomes, BET_ODDSDIVISOR
<1>3. MarketRefund("totalOver") = "totalsRefund" /\ MarketRefund("totalUnder") = "totalsRefund"
  BY <1>1 DEF MarketRefund
<1>4. total \in Int
  OBVIOUS
<1>5. /\ back => Over = Refund /\ Under = Refund
      /\ ~back /\ total = t => Over = Refund /\ Under = Refund
      /\ ~back /\ total > t => Over = Pays(n) /\ Under = Lost
      /\ ~back /\ total < t => Over = Lost /\ Under = Pays(n)
  BY <1>1, <1>2, <1>3 DEF GetBetOdds
<1>6. \/ Over = Refund /\ Under = Refund
      \/ Over = Pays(n) /\ Under = Lost
      \/ Over = Lost /\ Under = Pays(n)
  <2> HIDE DEF total, back, Over, Under
  <2>1. total = t \/ total > t \/ total < t
    BY <1>4
  <2> QED BY <1>5, <2>1, Zenon
<1>7. Refund[1] = BET_ODDSDIVISOR /\ Lost[1] = 0 /\ Pays(n)[1] = n
  BY DEF Refund, Lost, Pays
<1>8. Kind(n, 0) = "lost" /\ Kind(n, BET_ODDSDIVISOR) = "back" /\ Kind(n, n) = "won"
  BY <1>2, KindIs
<1> HIDE DEF Over, Under
<1>9. Kind(n, Under[1]) = Opposite[Kind(n, Over[1])]
  BY <1>6, <1>7, <1>8, OppositeIs
<1> QED BY <1>9 DEF Over, Under

\* What one side of a spread or a total wins the other loses, in halves too,
\* for all odds whose half does not wrap, all handicaps in quarters of a point
\* of either sign and all scores in halves (SpreadOdds, CalculateAsianSpreadOdds
\* and the totals of GetBetOdds).
THEOREM SidesBalance == OddsDoNotWrap /\ OnTheGrid => (OddsSpec => []SidesAreOpposite)
<1> SUFFICES ASSUME OddsDoNotWrap, OnTheGrid PROVE OddsSpec => []SidesAreOpposite
  OBVIOUS
<1>1. OddsInv => SidesAreOpposite
  <2> SUFFICES ASSUME OddsInv, Played, game.odds["spreadHome"] > 2 * BET_ODDSDIVISOR
               PROVE  /\ Outcome("spreadAway") = Opposite[Outcome("spreadHome")]
                      /\ Outcome("totalUnder") = Opposite[Outcome("totalOver")]
    BY DEF SidesAreOpposite
  <2>1. PICK n \in OddsChoices, h \in Handicaps, sign \in {-1, 1} : game = Offer(n, sign * h, h)
    BY DEF OddsInv
  <2> DEFINE p == sign * h
  <2>2. n \in Odds /\ h \in Int /\ p \in Int /\ game = Offer(n, p, h)
    BY <2>1, ChoicesAssumption DEF OddsDoNotWrap
  <2>3. p % 25 = 0
    <3>1. h % 25 = 0
      BY DEF OnTheGrid
    <3>2. p = h \/ p = -h
      BY <2>2
    <3> HIDE DEF p
    <3> QED BY <2>2, <3>1, <3>2, NegatedRemainder
  <2> HIDE DEF p
  <2>4. /\ game.odds["spreadHome"] = n /\ game.odds["spreadAway"] = n
        /\ game.odds["totalOver"] = n /\ game.odds["totalUnder"] = n
    BY <2>2 DEF Offer, Outcomes, Spreads, Totals
  <2>5. /\ result.nHomeScore \in Int /\ result.nAwayScore \in Int
        /\ (result.nHomeScore - result.nAwayScore) % 50 = 0
    <3>1. result \in [nResultType : ResultTypes, nHomeScore : Scores, nAwayScore : Scores]
      BY DEF OddsInv, Played
    <3>2. \A x \in Scores : x \in Int /\ x % 50 = 0
      <4>1. \A x \in Scores : x \in Int
        BY ChoicesAssumption
      <4>2. \A x \in Scores : x % 50 = 0
        BY Zenon DEF OnTheGrid
      <4> QED BY <4>1, <4>2
    <3>3. \A x, y \in Int : x % 50 = 0 /\ y % 50 = 0 => (x - y) % 50 = 0
      OBVIOUS
    <3> QED BY <3>1, <3>2, <3>3
  <2>6. \A o \in {"spreadHome", "spreadAway", "totalOver", "totalUnder"} :
           Outcome(o) = Kind(n, GetBetOdds(o, Offer(n, p, h), result)[1])
    <3> SUFFICES ASSUME NEW o \in {"spreadHome", "spreadAway", "totalOver", "totalUnder"}
                 PROVE  Outcome(o) = Kind(n, GetBetOdds(o, Offer(n, p, h), result)[1])
      OBVIOUS
    <3>1. game.odds[o] = n
      BY <2>4
    <3>2. Value(o) = GetBetOdds(o, Offer(n, p, h), result)
      BY <2>2 DEF Value
    <3> QED BY <3>1, <3>2, Zenon DEF Outcome, Kind
  <2>7. n > 2 * BET_ODDSDIVISOR
    BY <2>4
  <2>8. Outcome("spreadAway") = Opposite[Outcome("spreadHome")]
    BY <2>2, <2>3, <2>5, <2>6, <2>7, SpreadSides
  <2>9. Outcome("totalUnder") = Opposite[Outcome("totalOver")]
    BY <2>2, <2>5, <2>6, <2>7, TotalSides
  <2> QED BY <2>8, <2>9
<1> QED BY <1>1, OddsInvInductive, PTL DEF OddsSpec
=============================================================================
