------------------------------- MODULE KVSync -------------------------------
(***************************************************************************)
(* The main process merging what worker processes changed in their         *)
(* snapshots of the database into the main key-value store                 *)
(* (_sync_main_kv_store and its callbacks, src/src/resource/ubr.c), on top *)
(* of the store of KVStore.                                                *)
(*                                                                         *)
(* An export is what a worker sends for one command: the records its       *)
(* snapshot marked for sync, in the order of their keys ("+" before "-"    *)
(* before the others).  Exports arrive in any order; the sequence numbers  *)
(* of the uevents in the records, their owners and their flags decide what *)
(* the main store keeps.  One action is one call on the store.             *)
(***************************************************************************)
EXTENDS KVStore, FiniteSets

CONSTANTS
    Items,    \* what a record's vector can hold
    Core,     \* owner of records of the core
    Exports   \* exports the workers send, each once

Flags == {"AR", "RS", "FRG_WR"}

\* A record of an export; kind tells a vector from a scalar.
IsRecord(r) ==
    /\ DOMAIN r = {"op", "key", "kind", "seq", "own", "fl", "data"}
    /\ r.op \in {"plus", "minus", "set"} /\ r.key \in Keys
    /\ r.kind \in {"vector", "scalar"}
    /\ r.seq \in Nat /\ r.fl \subseteq Flags /\ r.data \subseteq Items
    /\ r.op /= "set" => r.kind = "vector" /\ r.data /= {}
    /\ r.kind = "scalar" => Cardinality(r.data) <= 1

\* Where a record's key sorts in the export.
OpRank(op) == CASE op = "plus" -> 1 [] op = "minus" -> 2 [] op = "set" -> 3

Records == UNION {{e[i] : i \in 1..Len(e)} : e \in Exports}

\* A snapshot tells a change of a vector either as a whole or as what was
\* added and what was removed, which are disjoint.
ASSUME ExportsAssumption ==
    \A e \in Exports :
        /\ e \in Seq(Records) /\ e /= <<>>
        /\ \A i \in 1..Len(e) : IsRecord(e[i])
        /\ \A i, j \in 1..Len(e) : i < j =>
              /\ OpRank(e[i].op) <= OpRank(e[j].op)
              /\ e[i].key = e[j].key =>
                    e[i].op = "plus" /\ e[j].op = "minus" /\ e[i].data \cap e[j].data = {}

\* The bound on the buffers of a transaction leaves room for every export.
ASSUME RoomAssumption == MaxCalls \in Nat /\ \A e \in Exports : 2 * Len(e) <= MaxCalls

\* What the store keeps of a record: its header and the items d.
Val(r, d) == [seq |-> r.seq, own |-> r.own, fl |-> r.fl, data |-> d]

Stored == {Val(r, d) : r \in Records, d \in SUBSET Items}

ASSUME ValuesAssumption == Values = Stored

VARIABLES
    todo,    \* exports that have not been received
    at,      \* where _sync_main_kv_store is
    rest,    \* records of the export still to be read
    custom,  \* what update_arg.custom points to: rel_spec or unset_nfo
    failed,  \* the last sync gave up
    crashed, \* the main process has followed a bad pointer
    spoiled, \* history: a sync that had removed a record into its archive gave up
    before,  \* history: the store when the last sync began
    last,    \* history: the last export
    done     \* history: records of the syncs that did not fail

syncVars == <<todo, at, rest, custom, failed, crashed, spoiled, before, last, done>>
vars     == <<kvVars, syncVars>>

Rec(r) == <<r.key, "rec">>

Contents == [s \in Slots |-> Content(s)]

\* Records of the exports that have been received.
Came == UNION {{e[i] : i \in 1..Len(e)} : e \in Exports \ todo}

SyncInit ==
    /\ Init
    /\ todo = Exports
    /\ at = "idle"
    /\ rest = <<>>
    /\ custom = "rel_spec"
    /\ failed = FALSE
    /\ crashed = FALSE
    /\ spoiled = FALSE
    /\ before = Contents
    /\ last = <<>>
    /\ done = {}

-----------------------------------------------------------------------------
(***************************************************************************)
(* Verdicts.                                                               *)
(***************************************************************************)

\* Fault: anybody writes anything.
WrAllowedAlways(old, own) == TRUE

\* _check_kv_wr_allowed, for owners that are not modules of one another.
WrAllowed(old, own) ==
    old /= NULL => own \in {Core, old.own} \/ "FRG_WR" \in old.fl

\* Fault: the sequence number is not looked at.
MainOKAnyOrder(old, r) == WrAllowed(old, r.own)

\* _kv_cb_main_set and _kv_cb_main_unset: a late record does not replace a
\* newer one; 0 skips the check.
MainOK(old, r) ==
    old /= NULL => (r.seq = 0 \/ r.seq >= old.seq) /\ WrAllowed(old, r.own)

\* Fault: "+" stores the new items alone.
DeltaFinalNew(old, r) ==
    LET items == IF old = NULL THEN {} ELSE old.data
    IN IF r.op = "plus" THEN r.data ELSE items \ r.data

\* delta->final of _delta_step_calc, which merges two sorted vectors.
DeltaFinal(old, r) ==
    LET items == IF old = NULL THEN {} ELSE old.data
    IN IF r.op = "plus" THEN items \cup r.data ELSE items \ r.data

\* A record without items removes its key, unless it reserves it: a vector
\* by having the flag, a scalar by having no other.
IsUnset(r) ==
    /\ r.data = {}
    /\ IF r.kind = "vector" THEN "RS" \notin r.fl ELSE r.fl /= {"RS"}

-----------------------------------------------------------------------------
(***************************************************************************)
(* One sync.                                                               *)
(***************************************************************************)

\* A message of a worker: from its arrival to the start of the loop.
SyncBegin(e) ==
    /\ at = "idle" /\ ~crashed
    /\ e \in todo
    /\ TransactionBegin
    /\ todo' = todo \ {e}
    /\ at' = "record"
    /\ rest' = e
    /\ custom' = "rel_spec"
    /\ before' = Contents
    /\ last' = e
    /\ UNCHANGED <<failed, crashed, spoiled, done>>

\* The loop reads record r.
Reads(r) == at = "record" /\ ~crashed /\ rest /= <<>> /\ r = Head(rest)

NextRecord == at' = "record" /\ rest' = Tail(rest)

\* The record is handled when its archive goes with it, else the archive of
\* an earlier change is next.
ThenArchive(r) ==
    IF "AR" \in r.fl THEN NextRecord ELSE at' = "archive" /\ UNCHANGED rest

\* The record is to be removed.
SyncUnset ==
    \E r \in Records :
        /\ Reads(r) /\ IsUnset(r)
        /\ Unset(Rec(r), "AR" \in r.fl, MainOK(Content(Rec(r)), r))
        /\ ThenArchive(r)
        /\ custom' = "unset_nfo"
        /\ UNCHANGED <<todo, failed, crashed, spoiled, before, last, done>>

\* The record replaces the whole value.
SyncSet ==
    \E r \in Records :
        /\ Reads(r) /\ ~IsUnset(r) /\ r.op = "set"
        /\ Set(Rec(r), Val(r, r.data), "AR" \in r.fl, MainOK(Content(Rec(r)), r))
        /\ ThenArchive(r)
        /\ custom' = IF "AR" \in r.fl THEN custom ELSE "unset_nfo"
        /\ UNCHANGED <<todo, failed, crashed, spoiled, before, last, done>>

\* Fault: the record is removed in place of its archive.
SyncArchiveRecord ==
    /\ at = "archive"
    /\ LET r == Head(rest)
       IN Unset(Rec(r), FALSE, MainOK(Content(Rec(r)), r))
    /\ NextRecord
    /\ UNCHANGED <<todo, custom, failed, crashed, spoiled, before, last, done>>

\* No archive is asked for: one left by an earlier change is removed.
SyncArchive ==
    /\ at = "archive"
    /\ LET r == Head(rest)
           s == Arc(Rec(r))
       IN Unset(s, FALSE, MainOK(Content(s), r))
    /\ NextRecord
    /\ UNCHANGED <<todo, custom, failed, crashed, spoiled, before, last, done>>

\* Items are added to or removed from the value: _kv_cb_delta_step.  There
\* is no check of the sequence number.
SyncDelta ==
    \E r \in Records :
        /\ Reads(r) /\ ~IsUnset(r) /\ r.op /= "set"
        /\ custom = "rel_spec"
        /\ LET old   == Content(Rec(r))
               final == DeltaFinal(old, r)
           IN /\ WrAllowed(old, r.own)
              /\ Set(Rec(r), Val(r, final), FALSE, TRUE)
              /\ IF final = {} /\ "RS" \notin r.fl
                 THEN at' = "emptied" /\ UNCHANGED rest
                 ELSE NextRecord
        /\ UNCHANGED <<todo, custom, failed, crashed, spoiled, before, last, done>>

\* The callback refuses and leaves no delta->final to look at, or takes the
\* unset_nfo of an earlier record for a rel_spec: a pointer that is NULL or
\* a sequence number is followed.
SyncDeltaCrash ==
    \E r \in Records :
        /\ Reads(r) /\ ~IsUnset(r) /\ r.op /= "set"
        /\ custom = "unset_nfo" \/ ~WrAllowed(Content(Rec(r)), r.own)
        /\ crashed' = TRUE
        /\ UNCHANGED <<kvVars, todo, at, rest, custom, failed, spoiled, before, last, done>>

\* Nothing is left in the vector: its record goes.
SyncEmptied ==
    /\ at = "emptied"
    /\ LET r == Head(rest)
       IN Unset(Rec(r), FALSE, MainOK(Content(Rec(r)), r))
    /\ custom' = "unset_nfo"
    /\ NextRecord
    /\ UNCHANGED <<todo, failed, crashed, spoiled, before, last, done>>

\* End of the export: commit.
SyncDone ==
    /\ at = "record" /\ ~crashed
    /\ rest = <<>>
    /\ TransactionEnd(FALSE)
    /\ at' = "ending"
    /\ failed' = FALSE
    /\ done' = done \cup {last[i] : i \in 1..Len(last)}
    /\ UNCHANGED <<todo, rest, custom, crashed, spoiled, before, last>>

\* Fault: what was merged before the error stays.
SyncFailsCommits ==
    /\ at \in {"record", "archive"} /\ ~crashed
    /\ rest /= <<>>
    /\ TransactionEnd(FALSE)
    /\ at' = "ending"
    /\ failed' = TRUE
    /\ rest' = <<>>
    /\ UNCHANGED <<todo, custom, crashed, spoiled, before, last, done>>

\* A record of the wrong size or an allocation that fails: roll back, whatever
\* was done.
SyncFails ==
    /\ at \in {"record", "archive"} /\ ~crashed
    /\ rest /= <<>>
    /\ TransactionEnd(TRUE)
    /\ at' = "ending"
    /\ failed' = TRUE
    /\ spoiled' = (spoiled \/ ArchivedUnset)
    /\ rest' = <<>>
    /\ UNCHANGED <<todo, custom, crashed, before, last, done>>

\* The loops of sid_kvs_transaction_end.
SyncEnd ==
    /\ at = "ending"
    /\ EndStep
    /\ at' = IF phase' = "none" THEN "idle" ELSE at
    /\ UNCHANGED <<todo, rest, custom, failed, crashed, spoiled, before, last, done>>

SyncNext ==
    \/ \E e \in Exports : SyncBegin(e)
    \/ SyncUnset \/ SyncSet \/ SyncArchive
    \/ SyncDelta \/ SyncDeltaCrash \/ SyncEmptied
    \/ SyncDone \/ SyncFails \/ SyncEnd

SyncSpec == SyncInit /\ [][SyncNext]_vars

-----------------------------------------------------------------------------
(***************************************************************************)
(* Properties.                                                             *)
(***************************************************************************)

Idle == at = "idle"

\* Syncs may arrive late: of the records of one owner that set a key, the one
\* with the highest sequence number stays whatever the order in which the
\* exports came (_kv_cb_main_set), and whatever else failed.  A key that was
\* also removed is left out, the main store keeps no trace of a removal, and so
\* is one that was also changed by items.
LatestWins ==
    Idle /\ ~spoiled => \A k \in Keys :
        LET came == {r \in Came : r.key = k}
            mine == {r \in done : r.key = k}
        IN (/\ mine /= {}
            /\ \A r, q \in came : r.op = "set" /\ ~IsUnset(r) /\ r.seq > 0 /\ r.own = q.own)
           => \E r \in mine : /\ Content(<<k, "rec">>) = Val(r, r.data)
                              /\ \A q \in mine : q.seq <= r.seq

\* No update is lost when workers change the same vector: an item one of them
\* added, and that none removed, is there (_delta_step_calc).
AddedStays ==
    Idle /\ ~spoiled => \A r \in done : \A x \in r.data :
        (/\ r.op = "plus"
         /\ \A q \in done : q.key = r.key => q.op = "plus" \/ (q.op = "minus" /\ x \notin q.data))
        => Content(Rec(r)) /= NULL /\ x \in Content(Rec(r)).data

\* A sync changes a record of some module only if its export has a record for
\* that key whose owner was allowed to write (_check_kv_wr_allowed), and an
\* archive only with its record's key.
OnlyAllowedWrites ==
    Idle /\ ~spoiled => \A s \in Slots :
        Content(s) /= before[s] =>
            \E i \in 1..Len(last) :
                /\ last[i].key = s[1]
                /\ s[2] = "rec" /\ before[s] /= NULL =>
                      last[i].own \in {Core, before[s].own} \/ "FRG_WR" \in before[s].fl

\* A sync that gives up leaves the main store as it found it
\* (sid_kvs_transaction_end with rollback at the end of _sync_main_kv_store).
FailedSyncChangesNothing == Idle /\ failed => Contents = before

\* All that a sync that gave up can leave behind: a vector that was there and
\* that the export adds items to and removes items from has those added.
\* Every other record, and every archive, is as it was.
FailedSyncUndone ==
    Idle /\ failed /\ ~spoiled => \A s \in Slots :
        \/ Content(s) = before[s]
        \/ /\ s[2] = "rec" /\ before[s] /= NULL
           /\ \E i, j \in 1..Len(last) :
                 /\ last[i].op = "plus" /\ Rec(last[i]) = s
                 /\ last[j].op = "minus" /\ Rec(last[j]) = s
                 /\ Content(s) = Val(last[i], before[s].data \cup last[i].data)

\* No export makes the main process follow a bad pointer: update_arg.custom is
\* what the callback takes it for, and a delta that is read has been computed.
MainSurvives == ~crashed

\* The sync keeps to what the key-value store asks of its callers, but for the
\* rollback after a record was removed into its archive, and so has its
\* guarantees until then: KVStore's invariants hold of the main store.
RefinesStore == Init /\ [][~spoiled' => Next]_kvVars
=============================================================================
