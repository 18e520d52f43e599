-------------------------- MODULE MergingIterator --------------------------
(***************************************************************************)
(* CFlushableStorageKVIterator of flushablestorage.h: one iterator over a  *)
(* change map and the store below it.  It walks both in key order and has  *)
(* to show what the two together contain: an entry of the map hides the    *)
(* key below, a tombstone hides it without showing anything.               *)
(*                                                                         *)
(* The store below is walked by an iterator of its own, pIt, which shows   *)
(* its keys in order (LevelDB, or another change map: what is checked here *)
(* of one level is what the level above needs of its parent).  As in the   *)
(* callers, a scan is either a seek followed by Next or SeekToLast         *)
(* followed by Prev.                                                       *)
(***************************************************************************)
EXTENDS Integers, FiniteSetsExt

CONSTANT ScanKeys       \* the keys, numbered in the order of the std::map

ASSUME ScanKeysAssumption ==
    ScanKeys \subseteq Nat \ {0} /\ IsFiniteSet(ScanKeys) /\ ScanKeys # {}

VARIABLES
    below,      \* the keys of the parent
    changed,    \* the map: a key is "value", "tombstone" or "none"
    pIt,        \* the parent's iterator: its key, or NoKey when not Valid()
    mIt,        \* the map's iterator (mIt or rIt): its key, or NoKey at the end
    prevKey,    \* the last key shown or hidden
    key,        \* what the caller sees: Key() and where its Value() is from
    source,
    call,       \* the call that is running, or "none"
    from        \* the scan has shown everything up to this key

scanVars == <<below, changed, pIt, mIt, prevKey, key, source, call, from>>

NoKey == 0

Entries == {k \in ScanKeys : changed[k] # "none"}

\* The first key of a set at or after k, before or at k, or beyond k.
FirstFrom(S, k) == IF \E x \in S : x >= k THEN Min({x \in S : x >= k}) ELSE NoKey
LastFrom(S, k) == IF \E x \in S : x <= k THEN Max({x \in S : x <= k}) ELSE NoKey

Forward == call \in {"seek", "next"}

Beyond(S, k) == IF Forward THEN FirstFrom(S, k + 1) ELSE LastFrom(S, k - 1)

ScanOff ==
    /\ below = {} /\ changed = [k \in ScanKeys |-> "none"]
    /\ pIt = NoKey /\ mIt = NoKey /\ prevKey = NoKey
    /\ key = NoKey /\ source = "none" /\ call = "off" /\ from = NoKey

ScanInit ==
    /\ below \in SUBSET ScanKeys
    /\ changed \in [ScanKeys -> {"value", "tombstone", "none"}]
    /\ pIt = NoKey /\ mIt = NoKey /\ prevKey = NoKey
    /\ key = NoKey /\ source = "none" /\ call = "fresh" /\ from = NoKey

-----------------------------------------------------------------------------
\* Seek(k) and SeekToFirst(), which is a seek to the least key there can be,
\* up to their call of Next.
Seek(k) ==
    /\ call = "fresh"
    /\ prevKey' = NoKey
    /\ pIt' = FirstFrom(below, k)
    /\ mIt' = FirstFrom(Entries, k)
    /\ from' = k - 1
    /\ call' = "seek"
    /\ UNCHANGED <<below, changed, key, source>>

\* SeekToLast() up to its call of Prev.
SeekToLast ==
    /\ call = "fresh"
    /\ prevKey' = NoKey
    /\ pIt' = LastFrom(below, Max(ScanKeys))
    /\ mIt' = LastFrom(Entries, Max(ScanKeys))
    /\ from' = Max(ScanKeys) + 1
    /\ call' = "seekLast"
    /\ UNCHANGED <<below, changed, key, source>>

\* The caller asks for another key, in the direction of the scan.
NextCall(c, after) ==
    /\ call = after
    /\ key # NoKey
    /\ from' = key
    /\ key' = NoKey
    /\ call' = c
    /\ UNCHANGED <<below, changed, pIt, mIt, prevKey, source>>

\* The map's entry comes before the parent's key, or at it.
MapFirst ==
    /\ mIt # NoKey
    /\ \/ pIt = NoKey
       \/ IF Forward THEN mIt <= pIt ELSE mIt >= pIt

\* Not yet shown and not hidden.
Fresh(k) == prevKey = NoKey \/ IF Forward THEN k > prevKey ELSE k < prevKey

Return == IF Forward THEN "shown" ELSE "shownBack"

\* Fault: a tombstone does not hide the key below.
StepMapNoHiding ==
    /\ call \in {"seek", "next", "seekLast", "prev"}
    /\ MapFirst
    /\ mIt' = Beyond(Entries, mIt)
    /\ IF changed[mIt] = "value" /\ Fresh(mIt)
       THEN key' = mIt /\ source' = "map" /\ prevKey' = mIt /\ call' = Return
       ELSE UNCHANGED <<key, source, call, prevKey>>
    /\ UNCHANGED <<below, changed, pIt, from>>

\* One round of the inner loop: an entry of the map is shown, or it is a
\* tombstone and only remembered.
StepMap ==
    /\ call \in {"seek", "next", "seekLast", "prev"}
    /\ MapFirst
    /\ mIt' = Beyond(Entries, mIt)
    /\ IF changed[mIt] = "value" /\ Fresh(mIt)
       THEN key' = mIt /\ source' = "map" /\ call' = Return
       ELSE UNCHANGED <<key, source, call>>
    /\ prevKey' = IF changed[mIt] = "tombstone" \/ Fresh(mIt) THEN mIt ELSE prevKey
    /\ UNCHANGED <<below, changed, pIt, from>>

\* One round of the outer loop: a key of the parent is shown unless the map
\* had it.
StepParent ==
    /\ call \in {"seek", "next", "seekLast", "prev"}
    /\ ~MapFirst
    /\ pIt # NoKey
    /\ pIt' = Beyond(below, pIt)
    /\ IF Fresh(pIt)
       THEN key' = pIt /\ source' = "parent" /\ prevKey' = pIt /\ call' = Return
       ELSE UNCHANGED <<key, source, prevKey, call>>
    /\ UNCHANGED <<below, changed, mIt, from>>

\* Neither the map nor the parent has more: the iterator is not Valid().
StepEnd ==
    /\ call \in {"seek", "next", "seekLast", "prev"}
    /\ mIt = NoKey /\ pIt = NoKey
    /\ call' = Return
    /\ UNCHANGED <<below, changed, pIt, mIt, prevKey, key, source, from>>

ScanDone == call \in {"shown", "shownBack"} /\ key = NoKey /\ UNCHANGED scanVars

ScanNext ==
    \/ \E k \in ScanKeys : Seek(k)
    \/ SeekToLast
    \/ NextCall("next", "shown") \/ NextCall("prev", "shownBack")
    \/ StepMap \/ StepParent \/ StepEnd
    \/ ScanDone

ScanSpec == ScanInit /\ [][ScanNext]_scanVars

-----------------------------------------------------------------------------
\* The keys of map and parent together.
Visible == {k \in ScanKeys : changed[k] = "value" \/ (changed[k] = "none" /\ k \in below)}

(* A scan shows the keys of the change map and the store below as one store
   would: the next one after the last that was shown, with the value of the
   map where the map has the key, none that is erased, none twice and none
   left out, in both directions. *)
ScanIsOrdered ==
    LET rest == {k \in Visible : IF call = "shown" THEN k > from ELSE k < from}
    IN  call \in {"shown", "shownBack"} =>
          /\ key # NoKey =>
               /\ key \in Visible
               /\ source = IF changed[key] = "value" THEN "map" ELSE "parent"
               /\ \A k \in rest : IF call = "shown" THEN k >= key ELSE k <= key
          /\ key = NoKey => rest = {}
=============================================================================
