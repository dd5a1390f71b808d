------------------------------ MODULE KVStore ------------------------------
(***************************************************************************)
(* The key-value store of src/src/resource/kvs.c: set and unset of a       *)
(* record, with an update callback that may refuse, an optional archive    *)
(* record that takes the replaced value, and transactions.                 *)
(*                                                                         *)
(* A stored value is a heap object (struct kv_store_value): the model      *)
(* keeps which cells are allocated and who holds a pointer to them, so     *)
(* that what is freed when, the hard part of this code, is checked.  Both  *)
(* backends (hash, B+ tree without aliases) are a map here.  The store is  *)
(* used by one thread; each action is one call, and the loops of           *)
(* sid_kvs_transaction_end are one action per iteration.                   *)
(***************************************************************************)
EXTENDS Naturals, Sequences, FiniteSetsExt

CONSTANTS
    Keys,     \* keys of records
    Values,   \* what a record can hold
    Cells,    \* heap objects: at most this many values at a time (bound)
    NULL,     \* no value, no cell
    MaxCalls  \* entries of the transaction's two buffers (bound)

ASSUME NullAssumption == NULL \notin Cells /\ NULL \notin Values

VARIABLES
    store,       \* the backend: slot -> cell
    heap,        \* cell -> value it holds, NULL if not allocated
    broken,      \* history: a cell was freed that was not allocated
    phase,       \* "none", "open", or the loop of transaction_end it is in
    undo,        \* the rollback argument of transaction_end
    unsetBuf,    \* trans_unset_buf
    rollbackBuf, \* trans_rollback_buf
    committed,   \* history: what the store held when the transaction began
    working      \* history: what it is to hold once the transaction is over

kvVars == <<store, heap, broken, phase, undo, unsetBuf, rollbackBuf,
            committed, working>>

Slots == Keys \X {"rec", "arc"}

\* archive_key: the record that takes what s held.
Arc(s) == <<s[1], "arc">>

Content(s) == IF store[s] = NULL THEN NULL ELSE heap[store[s]]

InTx == phase = "open"

-----------------------------------------------------------------------------
\* Somebody has a pointer to the cell.
Held(c) ==
    \/ \E s \in Slots : store[s] = c
    \/ \E i \in 1..Len(rollbackBuf) : rollbackBuf[i].cell = c

\* malloc in _create_kv_store_value: which free cell it takes is immaterial.
Fresh(c) == heap[c] = NULL /\ ~Held(c)
Alloc == CHOOSE c \in Cells : Fresh(c)

\* _destroy_kv_store_value(c), and the new cell n (NULL: none) with value v.
Destroy(c, n, v) ==
    /\ broken' = (broken \/ (c /= NULL /\ heap[c] = NULL))
    /\ heap' = [x \in Cells |-> IF x = n THEN v ELSE IF x = c THEN NULL ELSE heap[x]]

\* struct kv_rollback_arg and struct kv_unset_arg.
RollbackArg(s, c, has, is) == [slot |-> s, cell |-> c, has |-> has, is |-> is]
UnsetArg(s, has) == [slot |-> s, has |-> has]

\* f with v for s; what s had moves to its archive, or does not.
Put(f, s, v, moves) ==
    [t \in Slots |-> IF t = s THEN v ELSE IF moves /\ t = Arc(s) THEN f[s] ELSE f[t]]

\* What callers expect of a call that changes s to v and archives what it
\* held; outside a transaction it counts at once.
Expect(s, v, arch) ==
    /\ working' = Put(working, s, v, arch /\ working[s] /= NULL)
    /\ committed' = IF InTx THEN committed ELSE working'

Init ==
    /\ store = [s \in Slots |-> NULL]
    /\ heap = [c \in Cells |-> NULL]
    /\ broken = FALSE
    /\ phase = "none"
    /\ undo = FALSE
    /\ unsetBuf = <<>>
    /\ rollbackBuf = <<>>
    /\ committed = [s \in Slots |-> NULL]
    /\ working = [s \in Slots |-> NULL]

-----------------------------------------------------------------------------
(***************************************************************************)
(* Calls.  ok is the answer of the update callback, arch says that an      *)
(* archive key is given.                                                   *)
(***************************************************************************)

\* sid_kvs_set: _update_fn on the record, then on the archive.  Inside a
\* transaction what is replaced is kept for a rollback.
Set(s, v, arch, ok) ==
    /\ phase \in {"none", "open"}
    /\ \/ ~ok /\ UNCHANGED kvVars
       \/ /\ ok
          /\ \E c \in Cells : Fresh(c)
          /\ LET old   == store[s]
                 moves == arch /\ old /= NULL
                 gone  == IF InTx THEN NULL ELSE IF moves THEN store[Arc(s)] ELSE old
             IN /\ store' = Put(store, s, Alloc, moves)
                /\ Destroy(gone, Alloc, v)
                /\ rollbackBuf' =
                      IF ~InTx THEN rollbackBuf
                      ELSE Append(rollbackBuf, RollbackArg(s, old, arch, FALSE)) \o
                           (IF moves THEN <<RollbackArg(Arc(s), store[Arc(s)], FALSE, TRUE)>>
                                     ELSE <<>>)
          /\ Expect(s, v, arch)
          /\ UNCHANGED <<phase, undo, unsetBuf>>

\* sid_kvs_unset: inside a transaction the record stays until its end, but
\* the archive is written at once and without a rollback entry.
Unset(s, arch, ok) ==
    /\ phase \in {"none", "open"}
    /\ \/ ~ok /\ UNCHANGED kvVars
       \/ /\ ok
          /\ LET old   == store[s]
                 moves == arch /\ old /= NULL
                 gone  == IF moves THEN store[Arc(s)]
                          ELSE IF InTx THEN NULL ELSE old
             IN /\ store' = Put(store, s, IF InTx THEN old ELSE NULL, moves)
                /\ Destroy(gone, NULL, NULL)
          /\ unsetBuf' = IF InTx THEN Append(unsetBuf, UnsetArg(s, arch)) ELSE unsetBuf
          /\ Expect(s, NULL, arch)
          /\ UNCHANGED <<phase, undo, rollbackBuf>>

\* sid_kvs_transaction_begin; -EBUSY if there is one.
TransactionBegin ==
    /\ phase = "none"
    /\ phase' = "open"
    /\ UNCHANGED <<store, heap, broken, undo, unsetBuf, rollbackBuf, committed, working>>

\* Entries of the rollback buffer for s.
Replacements(s) == {i \in 1..Len(rollbackBuf) : rollbackBuf[i].slot = s}

\* What a rollback leaves of s: the entries are replayed first to last, so a
\* record that was replaced again has the value it had before the last time,
\* unless it was not there when the transaction began.
Restored(s) ==
    IF committed[s] /= NULL /\ \E i, j \in Replacements(s) : i /= j
    THEN heap[rollbackBuf[Max(Replacements(s))].cell]
    ELSE committed[s]

\* sid_kvs_transaction_end up to its first loop.
TransactionEnd(rollback) ==
    /\ phase = "open"
    /\ phase' = "unsets"
    /\ undo' = rollback
    /\ working' = IF rollback THEN [s \in Slots |-> Restored(s)] ELSE working
    /\ UNCHANGED <<store, heap, broken, unsetBuf, rollbackBuf, committed>>

\* Fault: a value that was archived is destroyed with its record.
EndUnsetFrees ==
    /\ phase = "unsets"
    /\ unsetBuf /= <<>>
    /\ LET e == Head(unsetBuf)
       IN IF undo THEN UNCHANGED <<store, heap, broken>>
          ELSE /\ store' = [store EXCEPT ![e.slot] = NULL]
               /\ Destroy(store[e.slot], NULL, NULL)
    /\ unsetBuf' = Tail(unsetBuf)
    /\ UNCHANGED <<phase, undo, rollbackBuf, committed, working>>

\* The first loop: _kv_store_trans_unset_value unless rolled back.
EndUnset ==
    /\ phase = "unsets"
    /\ unsetBuf /= <<>>
    /\ LET e == Head(unsetBuf)
       IN IF undo THEN UNCHANGED <<store, heap, broken>>
          ELSE /\ store' = [store EXCEPT ![e.slot] = NULL]
               /\ Destroy(IF e.has THEN NULL ELSE store[e.slot], NULL, NULL)
    /\ unsetBuf' = Tail(unsetBuf)
    /\ UNCHANGED <<phase, undo, rollbackBuf, committed, working>>

EndUnsetDone ==
    /\ phase = "unsets"
    /\ unsetBuf = <<>>
    /\ phase' = "rollbacks"
    /\ UNCHANGED <<store, heap, broken, undo, unsetBuf, rollbackBuf, committed, working>>

\* Fault: rollback leaves records that were not there before.
RollbackKeepsNew(e) ==
    LET curr == store[e.slot]
    IN IF e.cell = NULL \/ curr = e.cell
       THEN UNCHANGED <<store, heap, broken>>
       ELSE /\ store' = [store EXCEPT ![e.slot] = e.cell]
            /\ Destroy(IF e.is THEN NULL ELSE curr, NULL, NULL)

\* _kv_store_trans_rollback_value with _rollback_fn.  The current value of
\* an archive is not destroyed: it is the old value of the record.
Rollback(e) ==
    LET curr == store[e.slot]
    IN \/ /\ curr = e.cell
          /\ UNCHANGED <<store, heap, broken>>
       \/ /\ curr = NULL /\ e.cell /= NULL
          /\ Destroy(e.cell, NULL, NULL)
          /\ UNCHANGED store
       \/ /\ curr /= NULL /\ curr /= e.cell
          /\ store' = [store EXCEPT ![e.slot] = e.cell]
          /\ Destroy(IF e.is THEN NULL ELSE curr, NULL, NULL)

\* Fault: nothing that was replaced is freed.
EndRollbackLeaks ==
    /\ phase = "rollbacks"
    /\ rollbackBuf /= <<>>
    /\ IF undo THEN Rollback(Head(rollbackBuf)) ELSE UNCHANGED <<store, heap, broken>>
    /\ rollbackBuf' = Tail(rollbackBuf)
    /\ UNCHANGED <<phase, undo, unsetBuf, committed, working>>

\* The second loop: roll back, or free what was replaced and not archived.
EndRollback ==
    /\ phase = "rollbacks"
    /\ rollbackBuf /= <<>>
    /\ LET e == Head(rollbackBuf)
       IN IF undo THEN Rollback(e)
          ELSE /\ Destroy(IF e.has THEN NULL ELSE e.cell, NULL, NULL)
               /\ UNCHANGED store
    /\ rollbackBuf' = Tail(rollbackBuf)
    /\ UNCHANGED <<phase, undo, unsetBuf, committed, working>>

EndRollbackDone ==
    /\ phase = "rollbacks"
    /\ rollbackBuf = <<>>
    /\ phase' = "none"
    /\ undo' = FALSE
    /\ committed' = working
    /\ UNCHANGED <<store, heap, broken, unsetBuf, rollbackBuf, working>>

EndStep == EndUnset \/ EndUnsetDone \/ EndRollback \/ EndRollbackDone

-----------------------------------------------------------------------------
(***************************************************************************)
(* The callers.  The code relies on their keeping to this: nobody touches  *)
(* a record again once its removal is pending, and a transaction that is   *)
(* rolled back has removed no record into its archive and has replaced no  *)
(* record again whose old value went to an archive, or that is one.        *)
(***************************************************************************)
Pending(s) == \E i \in 1..Len(unsetBuf) : unsetBuf[i].slot = s

TouchOK(s, arch) == ~Pending(s) /\ (arch => ~Pending(Arc(s)))

ArchivedUnset == \E i \in 1..Len(unsetBuf) : unsetBuf[i].has

ArchivedTwice ==
    \E i, j \in 1..Len(rollbackBuf) :
        /\ i /= j /\ rollbackBuf[i].slot = rollbackBuf[j].slot
        /\ rollbackBuf[i].has \/ rollbackBuf[i].is

RollbackOK == ~ArchivedUnset /\ ~ArchivedTwice

Room == Len(unsetBuf) + Len(rollbackBuf) < MaxCalls

Next ==
    \/ \E s \in Slots, v \in Values, arch, ok \in BOOLEAN :
          Room /\ (arch => s[2] = "rec") /\ TouchOK(s, arch) /\ Set(s, v, arch, ok)
    \/ \E s \in Slots, arch, ok \in BOOLEAN :
          Room /\ (arch => s[2] = "rec") /\ TouchOK(s, arch) /\ Unset(s, arch, ok)
    \/ TransactionBegin
    \/ TransactionEnd(FALSE)
    \/ RollbackOK /\ TransactionEnd(TRUE)
    \/ EndStep

Spec == Init /\ [][Next]_kvVars
-----------------------------------------------------------------------------
(***************************************************************************)
(* Properties.                                                             *)
(***************************************************************************)

\* No value is freed twice, and no record, in or out of a transaction, points
\* to a value that was freed (_destroy_kv_store_value in _update_fn,
\* _unset_fn, _rollback_fn and sid_kvs_transaction_end).
HeapSafe ==
    /\ ~broken
    /\ \A s \in Slots : store[s] /= NULL => heap[store[s]] /= NULL

\* Outside a transaction every allocated value belongs to exactly one record:
\* nothing leaks, and freeing one record cannot hurt another.
OneOwner ==
    phase = "none" =>
        \A c \in Cells : heap[c] /= NULL =>
            \E s \in Slots : store[s] = c /\ \A t \in Slots : store[t] = c => t = s

\* When a transaction is over the store holds what its calls asked for or,
\* rolled back, what it held before; only a record that was replaced again
\* keeps what it was replaced by before the last time
\* (sid_kvs_transaction_end).
EndsAsExpected == phase = "none" => \A s \in Slots : Content(s) = working[s]
=============================================================================
