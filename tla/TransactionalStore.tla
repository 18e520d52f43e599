------------------------- MODULE TransactionalStore -------------------------
(***************************************************************************)
(* What one betting database promises to the code that uses it: a map from *)
(* keys to values that can be edited inside a block transaction, committed *)
(* or dropped as a whole, and copied to disk in the background, one key at *)
(* a time and in any order.  A crash keeps what reached the disk and       *)
(* nothing else.                                                           *)
(*                                                                         *)
(* FlushableStorage implements this specification with a stack of change   *)
(* maps.                                                                   *)
(***************************************************************************)
CONSTANTS
    Keys,    \* the keys of the database
    Values,  \* the values it can hold
    None     \* "no value": the key is absent

VARIABLES
    durable,    \* what the disk holds
    committed,  \* the contents after the last committed block
    working,    \* the contents the current block transaction sees
    inTx,       \* a block transaction is open
    op,         \* the last operation
    ret,        \* its success flag
    val         \* the value the last successful Read returned

vars == <<durable, committed, working, inTx, op, ret, val>>

Contents == [Keys -> Values \cup {None}]

TypeOK ==
    /\ durable \in Contents
    /\ committed \in Contents
    /\ working \in Contents
    /\ inTx \in BOOLEAN
    /\ op \in {"none", "write", "update", "erase", "read"}
    /\ ret \in BOOLEAN
    /\ val \in Values \cup {None}

Init ==
    /\ durable \in Contents
    /\ committed = durable
    /\ working = durable
    /\ inTx = FALSE
    /\ op = "none"
    /\ ret = TRUE
    /\ val = None

\* An edit changes the open transaction, or the committed contents when no
\* transaction is open.
Edit(o, k, v) ==
    /\ working' = [working EXCEPT ![k] = v]
    /\ committed' = IF inTx THEN committed ELSE [committed EXCEPT ![k] = v]
    /\ op' = o
    /\ ret' = TRUE
    /\ UNCHANGED <<durable, inTx, val>>

Reject(o) ==
    /\ op' = o
    /\ ret' = FALSE
    /\ UNCHANGED <<durable, committed, working, inTx, val>>

Write(k, v)  == IF working[k] = None THEN Edit("write", k, v) ELSE Reject("write")
Update(k, v) == IF working[k] # None THEN Edit("update", k, v) ELSE Reject("update")
Erase(k)     == IF working[k] # None THEN Edit("erase", k, None) ELSE Reject("erase")

Read(k) ==
    /\ op' = "read"
    /\ ret' = (working[k] # None)
    /\ val' = IF working[k] # None THEN working[k] ELSE val
    /\ UNCHANGED <<durable, committed, working, inTx>>

Begin ==
    /\ ~inTx
    /\ inTx' = TRUE
    /\ UNCHANGED <<durable, committed, working, op, ret, val>>

Commit ==
    /\ inTx
    /\ committed' = working
    /\ inTx' = FALSE
    /\ UNCHANGED <<durable, working, op, ret, val>>

Rollback ==
    /\ inTx
    /\ working' = committed
    /\ inTx' = FALSE
    /\ UNCHANGED <<durable, committed, op, ret, val>>

\* One key reaches the disk.
Persist(k) ==
    /\ durable' = [durable EXCEPT ![k] = committed[k]]
    /\ UNCHANGED <<committed, working, inTx, op, ret, val>>

Crash ==
    /\ committed' = durable
    /\ working' = durable
    /\ inTx' = FALSE
    /\ op' = "none"
    /\ ret' = TRUE
    /\ val' = None
    /\ UNCHANGED durable

Next ==
    \/ \E k \in Keys, v \in Values : Write(k, v) \/ Update(k, v)
    \/ \E k \in Keys : Erase(k) \/ Read(k) \/ Persist(k)
    \/ Begin \/ Commit \/ Rollback \/ Crash

Spec == Init /\ [][Next]_vars
=============================================================================
