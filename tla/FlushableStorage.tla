-------------------------- MODULE FlushableStorage --------------------------
(***************************************************************************)
(* One betting database: CBettingDB over CFlushableStorageKV over LevelDB  *)
(* (betting/bet_db.h, flushablestorage/flushablestorage.h).                *)
(*                                                                         *)
(* Three levels hold its contents.  `disk` is the LevelDB.  `view` is the  *)
(* `changed` map of the process-wide bettingsView, layered over the disk.  *)
(* `cache` is the `changed` map of the per-block bettingsViewCache that    *)
(* ConnectTip and DisconnectTip layer over bettingsView.  A change map     *)
(* gives a key a new value, a tombstone, or nothing.                       *)
(*                                                                         *)
(* Flush copies a change map into the level below key by key, in key       *)
(* order, and clears the map only after the last key; it is not a batch.   *)
(* The copy is therefore a sequence of steps here, which a crash can cut   *)
(* and, on the disk level, a failed write can stop half way.               *)
(***************************************************************************)
EXTENDS Naturals

CONSTANTS
    Keys,     \* the keys, numbered in the order of the std::map
    Values,   \* the serialised values
    None,     \* absent below, a tombstone (empty boost::optional) in a map
    NoEntry   \* the key has no entry in a change map

ASSUME KeysAssumption == Keys \subseteq Nat
ASSUME NoneAssumption == None \notin Values
ASSUME NoEntryAssumption == NoEntry \notin Values \cup {None}

VARIABLES
    disk,     \* contents of the LevelDB
    view,     \* bettingsView's changed map
    cache,    \* bettingsViewCache's changed map
    open,     \* a bettingsViewCache exists
    flushing, \* "no", or the level whose Flush is running: "cache", "view"
    todo,     \* the keys that Flush has still to copy
    op,       \* the last operation
    ret,      \* its result
    val       \* value the last successful Read returned

vars == <<disk, view, cache, open, flushing, todo, op, ret, val>>

Optional == Values \cup {None}
Contents == [Keys -> Optional]
Changes  == [Keys -> Optional \cup {NoEntry}]

Empty == [k \in Keys |-> NoEntry]
Changed(m) == {k \in Keys : m[k] # NoEntry}

\* Fault: a Read that never asks the level below.
OverlayOwnOnly(below, m) == [k \in Keys |-> m[k]]

\* CFlushableStorageKV::Read: the entry of the change map decides, the level
\* below is asked only where there is none.
Overlay(below, m) == [k \in Keys |-> IF m[k] = NoEntry THEN below[k] ELSE m[k]]

ViewContents == Overlay(disk, view)
CacheContents == Overlay(ViewContents, cache)

TypeOK ==
    /\ disk \in Contents
    /\ view \in Changes
    /\ cache \in Changes
    /\ open \in BOOLEAN
    /\ flushing \in {"no", "cache", "view"}
    /\ todo \subseteq Keys
    /\ op \in {"none", "write", "update", "erase", "read"}
    /\ ret \in BOOLEAN
    /\ val \in Optional

Init ==
    /\ disk \in Contents
    /\ view = Empty
    /\ cache = Empty
    /\ open = FALSE
    /\ flushing = "no"
    /\ todo = {}
    /\ op = "none"
    /\ ret = TRUE
    /\ val = None

-----------------------------------------------------------------------------
\* The operations of CBettingDB, on the top level: the block's cache while
\* there is one, bettingsView otherwise.

Exists(k) == CacheContents[k] # None

\* CFlushableStorageKV::Write and Erase: set the entry and return true.
Put(o, k, v) ==
    /\ IF open THEN cache' = [cache EXCEPT ![k] = v] /\ UNCHANGED view
               ELSE view' = [view EXCEPT ![k] = v] /\ UNCHANGED cache
    /\ op' = o
    /\ ret' = TRUE
    /\ UNCHANGED <<disk, open, flushing, todo, val>>

Fail(o) ==
    /\ op' = o
    /\ ret' = FALSE
    /\ UNCHANGED <<disk, view, cache, open, flushing, todo, val>>

Write(k, v) ==
    /\ flushing = "no"
    /\ IF Exists(k) THEN Fail("write") ELSE Put("write", k, v)

Update(k, v) ==
    /\ flushing = "no"
    /\ IF Exists(k) THEN Put("update", k, v) ELSE Fail("update")

\* Fault: Erase drops the entry instead of leaving a tombstone.
EraseWithoutTombstone(k) ==
    /\ flushing = "no"
    /\ IF Exists(k) THEN Put("erase", k, NoEntry) ELSE Fail("erase")

Erase(k) ==
    /\ flushing = "no"
    /\ IF Exists(k) THEN Put("erase", k, None) ELSE Fail("erase")

Read(k) ==
    /\ flushing = "no"
    /\ op' = "read"
    /\ ret' = Exists(k)
    /\ val' = IF Exists(k) THEN CacheContents[k] ELSE val
    /\ UNCHANGED <<disk, view, cache, open, flushing, todo>>

\* CBettingsView(CBettingsView* phr): an empty change map over bettingsView.
OpenCache ==
    /\ ~open /\ flushing = "no"
    /\ open' = TRUE
    /\ cache' = Empty
    /\ UNCHANGED <<disk, view, flushing, todo, op, ret, val>>

\* The block failed to connect or disconnect: the cache goes out of scope.
DropCache ==
    /\ open /\ flushing = "no"
    /\ open' = FALSE
    /\ cache' = Empty
    /\ UNCHANGED <<disk, view, flushing, todo, op, ret, val>>

-----------------------------------------------------------------------------
\* CFlushableStorageKV::Flush.

\* bettingsViewCache.Flush() after the block connected or disconnected.
StartFlushCache ==
    /\ open /\ flushing = "no"
    /\ flushing' = "cache"
    /\ todo' = Changed(cache)
    /\ UNCHANGED <<disk, view, cache, open, op, ret, val>>

\* bettingsView->Flush() in FlushStateToDisk.
StartFlushView ==
    /\ ~open /\ flushing = "no"
    /\ flushing' = "view"
    /\ todo' = Changed(view)
    /\ UNCHANGED <<disk, view, cache, open, op, ret, val>>

\* Fault: the loop copies values and forgets the tombstones.
FlushOneValuesOnly(k) ==
    /\ todo' = todo \ {k}
    /\ \/ /\ flushing = "cache"
          /\ view' = IF cache[k] = None THEN view ELSE [view EXCEPT ![k] = cache[k]]
          /\ UNCHANGED disk
       \/ /\ flushing = "view"
          /\ disk' = IF view[k] = None THEN disk ELSE [disk EXCEPT ![k] = view[k]]
          /\ UNCHANGED view
    /\ UNCHANGED <<cache, open, flushing, op, ret, val>>

\* The loop body: write or erase the key in the level below.
FlushOne(k) ==
    /\ todo' = todo \ {k}
    /\ \/ /\ flushing = "cache"
          /\ view' = [view EXCEPT ![k] = cache[k]]
          /\ UNCHANGED disk
       \/ /\ flushing = "view"
          /\ disk' = [disk EXCEPT ![k] = view[k]]
          /\ UNCHANGED view
    /\ UNCHANGED <<cache, open, flushing, op, ret, val>>

\* The loop visits the map in key order.
FlushKey == \E k \in todo : (\A j \in todo : k <= j) /\ FlushOne(k)

\* After the loop: changed.clear().  The flushed cache is then destroyed.
EndFlush ==
    /\ flushing # "no" /\ todo = {}
    /\ IF flushing = "cache" THEN cache' = Empty /\ open' = FALSE /\ UNCHANGED view
                             ELSE view' = Empty /\ UNCHANGED <<cache, open>>
    /\ flushing' = "no"
    /\ UNCHANGED <<disk, todo, op, ret, val>>

\* A LevelDB write fails: Flush returns with the change map untouched, and
\* what was copied so far stays copied.
FlushFails ==
    /\ flushing = "view" /\ todo # {}
    /\ flushing' = "no"
    /\ todo' = {}
    /\ UNCHANGED <<disk, view, cache, open, op, ret, val>>

\* The process dies: both change maps are lost, the next start layers an
\* empty bettingsView over what the disk holds.
Crash ==
    /\ view' = Empty
    /\ cache' = Empty
    /\ open' = FALSE
    /\ flushing' = "no"
    /\ todo' = {}
    /\ op' = "none"
    /\ ret' = TRUE
    /\ val' = None
    /\ UNCHANGED disk

Next ==
    \/ \E k \in Keys, v \in Values : Write(k, v)
    \/ \E k \in Keys, v \in Values : Update(k, v)
    \/ \E k \in Keys : Erase(k)
    \/ \E k \in Keys : Read(k)
    \/ OpenCache \/ DropCache
    \/ StartFlushCache \/ StartFlushView \/ FlushKey \/ EndFlush \/ FlushFails
    \/ Crash

Spec == Init /\ [][Next]_vars

-----------------------------------------------------------------------------
\* While Flush copies a map, a key that is no longer to be copied already has
\* the same value below, and only keys with an entry are left: this is what
\* makes clearing the map at the end (or failing before it) invisible.
FlushInv ==
    /\ ~open => cache = Empty
    /\ flushing = "no" => todo = {}
    /\ flushing = "cache" =>
         /\ open
         /\ todo \subseteq Changed(cache)
         /\ \A k \in Changed(cache) \ todo : view[k] = cache[k]
    /\ flushing = "view" =>
         /\ ~open
         /\ todo \subseteq Changed(view)
         /\ \A k \in Changed(view) \ todo : disk[k] = view[k]

-----------------------------------------------------------------------------
\* A block's changes are committed when the flush of its cache starts: from
\* then on nothing can stop the copy, which is in memory, and nobody reads
\* bettingsView before it ends.
Committed == IF flushing = "cache" THEN CacheContents ELSE ViewContents

Abstract == INSTANCE TransactionalStore WITH
    durable <- disk, committed <- Committed, working <- CacheContents,
    inTx <- (open /\ flushing # "cache")

\* The three levels of change maps behave as one transactional map: a block's
\* edits appear together or not at all, reads see tombstones and new values
\* through every level, and a flush to LevelDB, whether it completes, fails or
\* is cut by a crash, only ever moves keys to their committed value.
Implements == Abstract!Spec
=============================================================================
