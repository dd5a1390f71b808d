------------------------------- MODULE KeyMap -------------------------------
(***************************************************************************)
(* What the B+ tree of src/src/internal/bptree.c promises its callers: a   *)
(* map from keys to records, in which several keys (a key and its aliases) *)
(* may share one record.  A record is the set of the keys that reach it    *)
(* together with its data; there is no tree here.                          *)
(***************************************************************************)
CONSTANTS Keys, Data

VARIABLE shared        \* the records: [keys, data], every key in at most one

Bound(s) == UNION {b.keys : b \in s}

RecordOf(s, k) == CHOOSE b \in s : k \in b.keys

\* A key that is bound gets its data replaced for all who share the record.
Written(s, k, d) ==
    IF k \in Bound(s)
    THEN (s \ {RecordOf(s, k)}) \cup {[RecordOf(s, k) EXCEPT !.data = d]}
    ELSE s \cup {[keys |-> {k}, data |-> d]}

\* The key leaves its record; the record goes with its last key.
Removed(s, k) ==
    {b \in {[c EXCEPT !.keys = @ \ {k}] : c \in s} : b.keys # {}}

\* The alias leaves the record it had and joins that of the key.
Joined(s, k, a) ==
    {IF k \in b.keys THEN [b EXCEPT !.keys = @ \cup {a}] ELSE b :
        b \in IF a \in RecordOf(s, k).keys THEN s ELSE Removed(s, a)}

\* A map that was filled one key at a time.
Init == \E S \in SUBSET Keys, d \in Data : shared = {[keys |-> {k}, data |-> d] : k \in S}

\* What one operation can make of the records: a write, a removal, an alias,
\* or the end of them all.
Writes(s) == {Written(s, k, d) : k \in Keys, d \in Data}
Removals(s) == {Removed(s, k) : k \in Keys}
Aliases(s) == {Joined(s, k, a) : k \in Bound(s), a \in Keys}

Next ==
    \/ shared' = {}
    \/ shared' \in Removals(shared)
    \/ shared' \in Writes(shared)
    \/ shared' \in Aliases(shared)

Spec == Init /\ [][Next]_shared
=============================================================================
