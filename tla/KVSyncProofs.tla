---------------------------- MODULE KVSyncProofs ----------------------------
(***************************************************************************)
(* The properties of KVSync for any exports, in any order of arrival, with *)
(* syncs that give up among them, up to the first that does so after it    *)
(* removed a record into its archive (spoiled).                            *)
(*                                                                         *)
(* That a step of the sync is a step of the store needs an argument about  *)
(* the loop: which records it is done with, and that a record whose        *)
(* removal is pending is of a key that does not come again.  Given that,   *)
(* the store's invariant (KVStoreProofs) says that a record the loop looks *)
(* at holds what was asked for, and the rest is about what was asked for.  *)
(***************************************************************************)
EXTENDS KVSync, KVStoreProofs

\* How many records of the export the loop has left behind.
Gone == Len(last) - Len(rest)

\* The records that have been applied.
Handled ==
    {r \in Records : \/ \E i \in 1..Gone : r = last[i]
                     \/ at \in {"archive", "emptied"} /\ r = Head(rest)}

\* How many records of the export have been applied.
Past == Gone + IF at \in {"archive", "emptied"} THEN 1 ELSE 0

\* The loop of _sync_main_kv_store: what it has yet to read is the end of the export.
Loop ==
    /\ todo \subseteq Exports /\ done \subseteq Came
    /\ before \in [Slots -> Values \cup {NULL}]
    /\ last \in (Exports \ todo) \cup {<<>>} /\ last \in Seq(Records) /\ rest \in Seq(Records)
    /\ Len(rest) <= Len(last)
    /\ \A i \in 1..Len(rest) : rest[i] = last[Gone + i]
    /\ at \in {"idle", "record", "archive", "emptied", "ending"}
    /\ at = "idle" <=> phase = "none"
    /\ at = "ending" <=> phase \in {"unsets", "rollbacks"}
    /\ at = "archive" => rest /= <<>> /\ Head(rest).op = "set"
    /\ at = "emptied" => rest /= <<>> /\ Head(rest).op = "minus"

\* The records whose removal is pending are of keys the loop is done with.
Removed ==
    phase = "open" => \A s \in Slots : Pending(s) =>
        \/ \E i \in 1..Gone : last[i].key = s[1] /\ last[i].op /= "plus"
        \/ at = "archive" /\ s = Rec(Head(rest))

\* A record adds at most two entries to the buffers of the transaction.
Fits ==
    phase = "open" =>
        Len(unsetBuf) + Len(rollbackBuf)
           <= 2 * Gone + (IF at \in {"archive", "emptied"} THEN 1 ELSE 0)

\* Somebody who was allowed to asked for the change of s.
Justified(s) ==
    \E i \in 1..Len(last) :
        /\ last[i].key = s[1]
        /\ s[2] = "rec" /\ before[s] /= NULL =>
              last[i].own \in {Core, before[s].own} \/ "FRG_WR" \in before[s].fl

\* The export adds items to s and removes items from it, and c is s with those added.
HalfDone(s, c) ==
    /\ s[2] = "rec" /\ before[s] /= NULL
    /\ \E i, j \in 1..Len(last) :
          /\ last[i].op = "plus" /\ Rec(last[i]) = s
          /\ last[j].op = "minus" /\ Rec(last[j]) = s
          /\ c = Val(last[i], before[s].data \cup last[i].data)

\* What was asked for since the sync began.
Changes ==
    /\ phase = "open" => committed = before
    /\ failed /\ at \in {"idle", "ending"} =>
          \A s \in Slots : working[s] = before[s] \/ HalfDone(s, working[s])
    /\ \A s \in Slots : working[s] /= before[s] => Justified(s)

\* An applied record has that key.
Met(k) == \E i \in 1..Past : last[i].key = k

\* At most one entry of the rollback buffer is for s.
Once(s) == \A i, j \in Replacements(s) : i = j

\* No entry of the rollback buffer for s has to do with an archive.
Plain(s) == \A i \in Replacements(s) : ~rollbackBuf[i].has /\ ~rollbackBuf[i].is

\* s was replaced again: by the two records of a vector, of which the rollback undoes the second.
Twice(s) ==
    /\ Plain(s)
    /\ before[s] /= NULL => \A i \in Replacements(s) :
          (\A j \in Replacements(s) : j <= i) => HalfDone(s, ValueOf(rollbackBuf[i].cell))

\* Only the second part of a change by items has been left out so far.
OnlyAdded(s) ==
    \A i \in 1..Past :
        (/\ last[i].op = "plus" /\ Rec(last[i]) = s
         /\ \A j \in 1..Past : last[j].op = "minus" => Rec(last[j]) /= s)
        => Once(s) /\ Plain(s) /\ working[s] = Val(last[i], DeltaFinal(before[s], last[i]))

\* What a rollback would find of the records.
Undoable ==
    phase = "open" /\ ~ArchivedUnset => \A s \in Slots :
        /\ ~Met(s[1]) => Replacements(s) = {} /\ working[s] = before[s]
        /\ Replacements(s) /= {} => Justified(s)
        /\ Once(s) \/ Twice(s)
        /\ OnlyAdded(s)

\* The records of D set one key and have one owner.
Steady(D) == \A r, q \in D : r.op = "set" /\ ~IsUnset(r) /\ r.seq > 0 /\ r.own = q.own

\* In C the records of D with the highest sequence numbers are found, for the keys that all
\* records that came have only set ...
Latest(D, all, C) ==
    \A k \in Keys :
        LET mine == {r \in D : r.key = k}
        IN Steady({r \in all : r.key = k}) =>
              /\ mine = {} => C[<<k, "rec">>] = NULL
              /\ mine /= {} =>
                    \E r \in mine : /\ C[<<k, "rec">>] = Val(r, r.data)
                                    /\ \A q \in mine : q.seq <= r.seq

\* ... and the items they add.
Added(D, C) ==
    \A r \in D : \A x \in r.data :
        (/\ r.op = "plus"
         /\ \A q \in D : q.key = r.key => q.op = "plus" \/ (q.op = "minus" /\ x \notin q.data))
        => C[Rec(r)] /= NULL /\ x \in C[Rec(r)].data

\* The store before the transaction has the records of the syncs that are done, and what
\* was asked for has those of this one too, as far as it has come.
Merged ==
    /\ phase = "open" =>
          /\ Latest(done, Came, committed) /\ Added(done, committed)
          /\ Latest(done \cup Handled, Came, working) /\ Added(done \cup Handled, working)
    /\ phase /= "open" => Latest(done, Came, working) /\ Added(done, working)
    /\ at = "emptied" => working[Rec(Head(rest))] /= NULL /\ working[Rec(Head(rest))].data = {}

Sound == IndInv /\ Loop /\ Removed /\ Fits /\ Changes /\ Undoable /\ Merged

\* Until a sync gives up that had removed a record into its archive.
SyncInd == spoiled \/ Sound
-----------------------------------------------------------------------------
(***************************************************************************)
(* Records, exports and the loop.                                          *)
(***************************************************************************)

\* What a record of an export is, and what the store keeps of it.
LEMMA RecordFacts ==
  /\ \A r \in Records :
        /\ r.key \in Keys /\ r.op \in {"plus", "minus", "set"} /\ r.seq \in Nat /\ r.data \in SUBSET Items
        /\ r.op /= "set" => r.data /= {}
        /\ Rec(r) \in Slots /\ Rec(r)[1] = r.key /\ Rec(r)[2] = "rec" /\ Rec(r) = <<r.key, "rec">>
  /\ \A r \in Records, d \in SUBSET Items : Val(r, d) \in Values /\ Val(r, d) /= NULL
  /\ \A v \in Values : v.data \in SUBSET Items
<1>1. ASSUME NEW r \in Records
      PROVE  IsRecord(r)
  <2>1. PICK e \in Exports : \E i \in 1..Len(e) : r = e[i]
    BY DEF Records
  <2> QED BY <2>1, ExportsAssumption
<1>2. ASSUME NEW r \in Records
      PROVE  /\ r.key \in Keys /\ r.op \in {"plus", "minus", "set"} /\ r.seq \in Nat
             /\ r.data \in SUBSET Items /\ (r.op /= "set" => r.data /= {})
  BY <1>1, Zenon DEF IsRecord
<1>3. ASSUME NEW r \in Records
      PROVE  Rec(r) \in Slots /\ Rec(r)[1] = r.key /\ Rec(r)[2] = "rec" /\ Rec(r) = <<r.key, "rec">>
  BY <1>2 DEF Rec, Slots
<1>4. \A r \in Records, d \in SUBSET Items : Val(r, d) \in Values /\ Val(r, d) /= NULL
  BY ValuesAssumption, NullAssumption DEF Stored
<1>5. \A v \in Values : v.data \in SUBSET Items
  BY ValuesAssumption DEF Stored, Val
<1> QED BY <1>2, <1>3, <1>4, <1>5

\* A vector changed by a delta, and a removal, are told apart by their operations.
LEMMA UnsetIsSet == \A r \in Records : IsUnset(r) => r.op = "set"
  BY RecordFacts DEF IsUnset

\* Where the loop is.
LEMMA HeadFacts ==
  ASSUME Loop, rest /= <<>>
  PROVE  /\ last \in Exports /\ Gone \in Nat /\ Gone + 1 \in 1..Len(last)
         /\ Head(rest) = last[Gone + 1] /\ Head(rest) \in Records
         /\ \A i \in 1..Gone : /\ i \in 1..Len(last)
                              /\ last[i].key = Head(rest).key => last[i].op = "plus" /\ Head(rest).op = "minus"
<1>1. /\ Len(last) \in Nat /\ Len(rest) \in Nat /\ Len(rest) >= 1 /\ Len(rest) <= Len(last)
      /\ Head(rest) = rest[1] /\ Head(rest) \in Records /\ 1 \in 1..Len(rest)
  BY DEF Loop
<1>2. Gone \in Nat /\ Gone + 1 \in 1..Len(last) /\ \A i \in 1..Gone : i \in 1..Len(last) /\ i < Gone + 1
  BY <1>1 DEF Gone
<1>3. Head(rest) = last[Gone + 1]
  BY <1>1 DEF Loop
<1>4. last \in Exports
  <2>1. last /= <<>>
    BY <1>1
  <2> QED BY <2>1 DEF Loop
<1>5. ASSUME NEW i \in 1..Gone, last[i].key = Head(rest).key
      PROVE  last[i].op = "plus" /\ Head(rest).op = "minus"
  BY <1>2, <1>3, <1>4, <1>5, ExportsAssumption
<1> QED BY <1>1, <1>2, <1>3, <1>4, <1>5

\* The loop goes to the next record.
LEMMA TailFacts ==
  ASSUME Loop, rest /= <<>>, rest' = Tail(rest), last' = last
  PROVE  /\ Gone' = Gone + 1 /\ Gone \in Nat /\ rest' \in Seq(Records) /\ Len(rest') <= Len(last)
         /\ \A i \in 1..Len(rest') : rest'[i] = last[Gone' + i]
<1>1. /\ rest' \in Seq(Records) /\ Len(rest) \in Nat /\ Len(rest') = Len(rest) - 1 /\ Len(rest') \in Nat
      /\ \A i \in 1..Len(rest') : rest'[i] = rest[i + 1] /\ i + 1 \in 1..Len(rest)
  BY DEF Loop
<1>2. Len(last) \in Nat /\ Len(rest) <= Len(last)
  BY <1>1 DEF Loop
<1>3. Gone' = Gone + 1 /\ Gone \in Nat
  BY <1>1, <1>2 DEF Gone
<1>4. ASSUME NEW i \in 1..Len(rest')
      PROVE  rest'[i] = last[Gone' + i]
  <2>1. rest[i + 1] = last[Gone + (i + 1)]
    BY <1>1 DEF Loop
  <2>2. Gone + (i + 1) = Gone' + i
    BY <1>1, <1>3
  <2> QED BY <1>1, <2>1, <2>2
<1> QED BY <1>1, <1>2, <1>3, <1>4

\* The records that came are records, and those applied have come.
LEMMA CameFacts ==
  /\ Came \in SUBSET Records
  /\ Loop => Handled \in SUBSET Came /\ done \in SUBSET Came
             /\ \A i \in 1..Len(last) : last[i] \in Came
<1>1. \A e \in Exports \ todo : \A i \in 1..Len(e) : e[i] \in Came
  BY DEF Came
<1>2. Came \in SUBSET Records
  BY DEF Came, Records
<1>3. ASSUME Loop
      PROVE  Handled \in SUBSET Came /\ done \in SUBSET Came /\ \A i \in 1..Len(last) : last[i] \in Came
  <2>1. ASSUME NEW i \in 1..Len(last)
        PROVE  last[i] \in Came
    <3>1. last /= <<>>
      OBVIOUS
    <3>2. last \in Exports \ todo
      BY <1>3, <3>1 DEF Loop
    <3> QED BY <1>1, <3>2
  <2>2. \A i \in 1..Gone : i \in 1..Len(last)
    <3>1. Len(last) \in Nat /\ Len(rest) \in Nat /\ Len(rest) <= Len(last)
      BY <1>3 DEF Loop
    <3> QED BY <3>1 DEF Gone
  <2>3. at \in {"archive", "emptied"} => Head(rest) \in Came
    <3> SUFFICES ASSUME at \in {"archive", "emptied"} PROVE Head(rest) \in Came
      OBVIOUS
    <3>1. rest /= <<>>
      BY <1>3 DEF Loop
    <3>2. Head(rest) = last[Gone + 1] /\ Gone + 1 \in 1..Len(last)
      BY <1>3, <3>1, HeadFacts
    <3> QED BY <2>1, <3>2
  <2>4. Handled \in SUBSET Came
    BY <2>1, <2>2, <2>3 DEF Handled
  <2> QED BY <1>3, <2>1, <2>4 DEF Loop
<1> QED BY <1>2, <1>3

\* No call of the loop touches a record whose removal is pending, nor is there no room for it.
LEMMA MayTouch ==
  ASSUME Loop, Removed, Fits, IndInv, phase = "open", rest /= <<>>
  PROVE  /\ Room
         /\ at /= "archive" => ~Pending(Rec(Head(rest)))
         /\ ~Pending(Arc(Rec(Head(rest))))
<1>1. /\ last \in Exports /\ Gone \in Nat /\ Gone + 1 \in 1..Len(last) /\ Head(rest) \in Records
      /\ \A i \in 1..Gone : i \in 1..Len(last) /\ (last[i].key = Head(rest).key => last[i].op = "plus")
  BY HeadFacts
<1>2. /\ Rec(Head(rest)) \in Slots /\ Rec(Head(rest))[1] = Head(rest).key /\ Rec(Head(rest))[2] = "rec"
  BY <1>1, RecordFacts
<1>3. /\ Arc(Rec(Head(rest))) \in Slots /\ Arc(Rec(Head(rest)))[1] = Head(rest).key
      /\ Arc(Rec(Head(rest))) /= Rec(Head(rest))
  BY <1>2, SlotFacts DEF Arc
<1>4. at /= "archive" => ~Pending(Rec(Head(rest)))
  BY <1>1, <1>2 DEF Removed
<1>5. ~Pending(Arc(Rec(Head(rest))))
  BY <1>1, <1>3 DEF Removed
<1>6. Room
  <2>1. 2 * Len(last) <= MaxCalls /\ MaxCalls \in Nat /\ Len(last) \in Nat /\ Gone + 1 <= Len(last)
    BY <1>1, RoomAssumption DEF Loop
  <2>2. Len(unsetBuf) \in Nat /\ Len(rollbackBuf) \in Nat
    BY DEF IndInv, Types
  <2>3. Len(unsetBuf) + Len(rollbackBuf) <= 2 * Gone + 1
    <3>1. (IF at \in {"archive", "emptied"} THEN 1 ELSE 0) <= 1 /\ (IF at \in {"archive", "emptied"} THEN 1 ELSE 0) \in Nat
      OBVIOUS
    <3> QED BY <1>1, <2>2, <3>1 DEF Fits
  <2> QED BY <1>1, <2>1, <2>2, <2>3 DEF Room
<1> QED BY <1>4, <1>5, <1>6

-----------------------------------------------------------------------------
(***************************************************************************)
(* Calls on the store, as the sync sees them.                              *)
(***************************************************************************)

\* What a call that may change s to v does: the buffers grow by at most n entries, the removals
\* by s at most, and of the records only s may have another value.
Called(s, v, n, ok) ==
    /\ phase' = "open" /\ committed' = committed
    /\ Len(unsetBuf') + Len(rollbackBuf') <= Len(unsetBuf) + Len(rollbackBuf) + n
    /\ \A t \in Slots : Pending(t)' => Pending(t) \/ (v = NULL /\ t = s)
    /\ working'[s] = IF ok THEN v ELSE working[s]
    /\ \A t \in Slots : t /= s /\ (t[2] = "rec" \/ t[1] /= s[1]) => working'[t] = working[t]

\* A refused call does nothing.
LEMMA RefusedCall ==
  ASSUME IndInv, phase = "open", UNCHANGED kvVars, NEW s \in Slots, NEW v, NEW n \in Nat
  PROVE  Called(s, v, n, FALSE)
<1>1. UNCHANGED <<phase, unsetBuf, rollbackBuf, committed, working>>
  BY DEF kvVars
<1>2. Len(unsetBuf) \in Nat /\ Len(rollbackBuf) \in Nat
  BY DEF IndInv, Types
<1>3. \A t \in Slots : Pending(t)' => Pending(t)
  BY <1>1 DEF Pending
<1> QED BY <1>1, <1>2, <1>3 DEF Called

\* sid_kvs_set.
LEMMA SetCall ==
  ASSUME IndInv, phase = "open", NEW s \in Slots, NEW v \in Values, NEW arch \in BOOLEAN,
         NEW ok \in BOOLEAN, Set(s, v, arch, ok)
  PROVE  Called(s, v, IF arch THEN 2 ELSE 1, ok)
<1> DEFINE n == IF arch THEN 2 ELSE 1
<1>1. n \in Nat
  OBVIOUS
<1>2. CASE ~ok
  <2>1. UNCHANGED kvVars /\ ok = FALSE
    BY <1>2, Zenon DEF Set
  <2> HIDE DEF n
  <2>2. Called(s, v, n, FALSE)
    BY <1>1, <2>1, RefusedCall
  <2> QED BY <2>1, <2>2 DEF n
<1>3. CASE ok
  <2>1. Set(s, v, arch, TRUE)
    BY <1>3, Zenon
  <2>2. PICK m, old, moves : SetInside(s, v, arch, m, old, moves) /\ SetEntries(s, arch, old, moves)
    BY <2>1, SetInsideEffect
  <2>3. phase' = "open" /\ committed' = committed /\ unsetBuf' = unsetBuf /\ working'[s] = v
    BY <2>2 DEF SetInside
  <2>4. \A t \in Slots : t /= s /\ (t[2] = "rec" \/ t[1] /= s[1]) => working'[t] = working[t]
    BY <2>2, SlotFacts DEF SetInside, Arc
  <2>5. \A t \in Slots : Pending(t)' => Pending(t)
    BY <2>3 DEF Pending
  <2>6. Len(rollbackBuf) \in Nat /\ Len(unsetBuf) \in Nat /\ Len(rollbackBuf') \in Nat
    BY <2>2 DEF IndInv, Types, SetEntries
  <2>7. Len(rollbackBuf') <= Len(rollbackBuf) + n
    <3>1. moves => arch
      BY <2>2 DEF SetInside
    <3>2. \A i \in 1..Len(rollbackBuf') : i <= Len(rollbackBuf) + 1 \/ (arch /\ i <= Len(rollbackBuf) + 2)
      BY <2>2, <2>6, <3>1 DEF SetEntries, Replaced
    <3> QED BY <2>6, <3>2
  <2>8. Len(unsetBuf') + Len(rollbackBuf') <= Len(unsetBuf) + Len(rollbackBuf) + n
    <3> HIDE DEF n
    <3> QED BY <1>1, <2>3, <2>6, <2>7
  <2> QED BY <1>3, <2>3, <2>4, <2>5, <2>8 DEF Called
<1> QED BY <1>2, <1>3

\* sid_kvs_unset.
LEMMA UnsetCall ==
  ASSUME IndInv, phase = "open", NEW s \in Slots, NEW arch \in BOOLEAN, NEW ok \in BOOLEAN,
         arch => s[2] = "rec", arch => ~Pending(Arc(s)), Unset(s, arch, ok)
  PROVE  Called(s, NULL, 1, ok)
<1>1. CASE ~ok
  <2>1. UNCHANGED kvVars /\ ok = FALSE /\ 1 \in Nat
    BY <1>1, Zenon DEF Unset
  <2>2. 1 \in Nat
    OBVIOUS
  <2> QED BY <2>1, <2>2, RefusedCall
<1>2. CASE ok
  <2>1. Unset(s, arch, TRUE)
    BY <1>2, Zenon
  <2>2. PICK old, moves : UnsetInside(s, arch, old, moves) /\ UnsetEntry(s, arch)
    BY <2>1, UnsetInsideEffect
  <2>3. phase' = "open" /\ committed' = committed /\ rollbackBuf' = rollbackBuf /\ working'[s] = NULL
    BY <2>2 DEF UnsetInside
  <2>4. \A t \in Slots : t /= s /\ (t[2] = "rec" \/ t[1] /= s[1]) => working'[t] = working[t]
    BY <2>2, SlotFacts DEF UnsetInside, Arc
  <2>5. \A t \in Slots : Pending(t)' => Pending(t) \/ t = s
    BY <2>2 DEF UnsetEntry, Pending, Unsets
  <2>6. Len(rollbackBuf) \in Nat /\ Len(unsetBuf) \in Nat /\ Len(unsetBuf') \in Nat
    BY <2>2 DEF IndInv, Types, UnsetEntry
  <2>7. Len(unsetBuf') <= Len(unsetBuf) + 1
    <3>1. \A i \in 1..Len(unsetBuf') : i <= Len(unsetBuf) + 1
      BY <2>2, <2>6 DEF UnsetEntry, Unsets
    <3> QED BY <2>6, <3>1
  <2>8. Len(unsetBuf') + Len(rollbackBuf') <= Len(unsetBuf) + Len(rollbackBuf) + 1
    BY <2>3, <2>6, <2>7
  <2> QED BY <1>2, <2>3, <2>4, <2>5, <2>8 DEF Called
<1> QED BY <1>1, <1>2

\* What a call on record s adds to the rollback buffer; old is what s held.
Enters(s, arch, ok, old) ==
    /\ ArchivedUnset => ArchivedUnset'
    /\ \A t \in Slots : Replacements(t) \subseteq Replacements(t)'
    /\ \A t \in Slots : \A i \in Replacements(t)' :
          \/ /\ i \in Replacements(t) /\ rollbackBuf'[i] = rollbackBuf[i]
             /\ ValueOf(rollbackBuf[i].cell)' = ValueOf(rollbackBuf[i].cell)
          \/ /\ ok /\ t = s /\ i = Len(rollbackBuf) + 1
             /\ (rollbackBuf'[i].has <=> arch) /\ ~rollbackBuf'[i].is
             /\ ValueOf(rollbackBuf[i].cell)' = old
          \/ ok /\ arch /\ t = Arc(s) /\ i = Len(rollbackBuf) + 2

\* A buffer that is not touched, and values that are not.
LEMMA NothingEnters ==
  ASSUME Types, unsetBuf' = unsetBuf \/ (ArchivedUnset => ArchivedUnset'), rollbackBuf' = rollbackBuf,
         \A x \in Cells : heap'[x] = heap[x], NEW s, NEW arch, NEW ok, NEW old
  PROVE  Enters(s, arch, ok, old)
<1>1. \A t \in Slots : Replacements(t)' = Replacements(t)
  BY DEF Replacements
<1>2. \A t \in Slots : \A i \in Replacements(t) : i \in Replaced
  BY DEF Replacements, Replaced
<1>3. \A i \in Replaced : rollbackBuf[i].cell \in Cells \cup {NULL}
  BY Entries
<1>4. \A t \in Slots : \A i \in Replacements(t)' : ValueOf(rollbackBuf[i].cell)' = ValueOf(rollbackBuf[i].cell)
  BY <1>1, <1>2, <1>3 DEF ValueOf
<1>5. ArchivedUnset => ArchivedUnset'
  BY DEF ArchivedUnset
<1> QED BY <1>1, <1>4, <1>5 DEF Enters

\* sid_kvs_set keeps what it replaces.
LEMMA SetEnters ==
  ASSUME IndInv, phase = "open", NEW s \in Slots, NEW v \in Values, NEW arch \in BOOLEAN,
         NEW ok \in BOOLEAN, Set(s, v, arch, ok), NEW old, old = Content(s)
  PROVE  Enters(s, arch, ok, old)
<1>1. Types
  BY DEF IndInv
<1>2. CASE ~ok
  <2>1. UNCHANGED <<heap, unsetBuf, rollbackBuf>>
    BY <1>2, Zenon DEF Set, kvVars
  <2> QED BY <1>1, <2>1, NothingEnters
<1>3. CASE ok
  <2>1. Set(s, v, arch, TRUE)
    BY <1>3, Zenon
  <2>2. PICK n, was, moves : SetInside(s, v, arch, n, was, moves) /\ SetEntries(s, arch, was, moves)
    BY <2>1, SetInsideEffect
  <2>3. /\ n \in Cells /\ was = store[s] /\ (moves => arch) /\ unsetBuf' = unsetBuf
        /\ \A x \in Cells : heap'[x] = IF x = n THEN v ELSE heap[x]
    BY <2>2 DEF SetInside
  <2>4. n /= store[s] /\ \A i \in Replaced : rollbackBuf[i].cell /= n
    BY <2>2 DEF SetInside, Fresh, Held, Replaced
  <2>5. \A i \in Replaced : rollbackBuf[i].cell \in Cells \cup {NULL}
    BY <1>1, Entries
  <2>6. store[s] \in Cells \cup {NULL}
    BY <1>1 DEF Types
  <2>7. /\ Replaced \subseteq Replaced' /\ Len(rollbackBuf) \in Nat
        /\ \A i \in Replaced' :
             \/ i \in Replaced /\ rollbackBuf'[i] = rollbackBuf[i]
             \/ /\ i = Len(rollbackBuf) + 1
                /\ rollbackBuf'[i].slot = s /\ rollbackBuf'[i].cell = was
                /\ (rollbackBuf'[i].has <=> arch) /\ ~rollbackBuf'[i].is
             \/ moves /\ i = Len(rollbackBuf) + 2 /\ rollbackBuf'[i].slot = Arc(s)
    BY <2>2 DEF SetEntries
  <2>8. \A i \in Replaced : rollbackBuf'[i] = rollbackBuf[i]
    BY <2>7 DEF Replaced
  <2>9. ASSUME NEW t \in Slots PROVE Replacements(t) \subseteq Replacements(t)'
    BY <2>7, <2>8 DEF Replacements, Replaced
  <2>10. ASSUME NEW t \in Slots, NEW i \in Replacements(t)'
         PROVE  \/ /\ i \in Replacements(t) /\ rollbackBuf'[i] = rollbackBuf[i]
                   /\ ValueOf(rollbackBuf[i].cell)' = ValueOf(rollbackBuf[i].cell)
                \/ /\ ok /\ t = s /\ i = Len(rollbackBuf) + 1
                   /\ (rollbackBuf'[i].has <=> arch) /\ ~rollbackBuf'[i].is
                   /\ ValueOf(rollbackBuf[i].cell)' = old
                \/ ok /\ arch /\ t = Arc(s) /\ i = Len(rollbackBuf) + 2
    <3>1. i \in Replaced' /\ rollbackBuf'[i].slot = t
      BY DEF Replacements, Replaced
    <3>2. CASE i \in Replaced
      <4>1. i \in Replacements(t) /\ rollbackBuf'[i] = rollbackBuf[i]
        BY <2>8, <3>1, <3>2 DEF Replacements, Replaced
      <4>2. ValueOf(rollbackBuf[i].cell)' = ValueOf(rollbackBuf[i].cell)
        BY <2>3, <2>4, <2>5, <3>2, <4>1 DEF ValueOf
      <4> QED BY <4>1, <4>2
    <3>3. CASE i = Len(rollbackBuf) + 1 /\ i \notin Replaced
      <4>1. /\ rollbackBuf'[i].slot = s /\ rollbackBuf'[i].cell = was
            /\ (rollbackBuf'[i].has <=> arch) /\ ~rollbackBuf'[i].is
        BY <2>7, <3>1, <3>3
      <4>2. ValueOf(rollbackBuf[i].cell)' = old
        BY <2>3, <2>4, <2>6, <4>1 DEF ValueOf, Content
      <4> QED BY <1>3, <3>1, <3>3, <4>1, <4>2
    <3>4. CASE moves /\ i = Len(rollbackBuf) + 2 /\ i \notin Replaced
      BY <1>3, <2>3, <2>7, <3>1, <3>4
    <3> QED BY <2>7, <3>1, <3>2, <3>3, <3>4
  <2>11. ArchivedUnset => ArchivedUnset'
    BY <2>3 DEF ArchivedUnset
  <2> QED BY <2>9, <2>10, <2>11 DEF Enters
<1> QED BY <1>2, <1>3

\* sid_kvs_unset keeps nothing for a rollback.
LEMMA UnsetEnters ==
  ASSUME IndInv, phase = "open", NEW s \in Slots, NEW arch \in BOOLEAN, NEW ok \in BOOLEAN,
         arch => s[2] = "rec", arch => ~Pending(Arc(s)), Unset(s, arch, ok),
         NEW t, NEW has, NEW was, NEW old
  PROVE  ArchivedUnset' \/ Enters(t, has, was, old)
<1>1. Types
  BY DEF IndInv
<1>2. CASE ~ok
  <2>1. UNCHANGED <<heap, unsetBuf, rollbackBuf>>
    BY <1>2, Zenon DEF Unset, kvVars
  <2> QED BY <1>1, <2>1, NothingEnters
<1>3. CASE ok
  <2>1. Unset(s, arch, TRUE)
    BY <1>3, Zenon
  <2>2. PICK held, moves : UnsetInside(s, arch, held, moves) /\ UnsetEntry(s, arch)
    BY <2>1, UnsetInsideEffect
  <2>3. CASE arch
    BY <2>2, <2>3 DEF UnsetEntry, Unsets, ArchivedUnset
  <2>4. CASE ~arch
    <3>1. rollbackBuf' = rollbackBuf /\ \A x \in Cells : heap'[x] = heap[x]
      BY <2>2, <2>4 DEF UnsetInside
    <3>2. ArchivedUnset => ArchivedUnset'
      BY <2>2 DEF UnsetEntry, Unsets, ArchivedUnset
    <3> QED BY <1>1, <3>1, <3>2, NothingEnters
  <2> QED BY <2>3, <2>4
<1> QED BY <1>2, <1>3

\* A record that is not pending holds what was asked for.
LEMMA ReadsAsked ==
  ASSUME IndInv, phase = "open", NEW s \in Slots, ~Pending(s)
  PROVE  Content(s) = working[s] /\ working[s] \in Values \cup {NULL}
<1>1. Asked /\ working \in [Slots -> Values \cup {NULL}]
  BY DEF IndInv, Stages, MayCommit, Types
<1> QED BY <1>1 DEF Asked

-----------------------------------------------------------------------------
(***************************************************************************)
(* What a record that is applied does to the properties.                   *)
(***************************************************************************)

\* Record r makes Cp of C.
Applied(r, C, Cp) ==
    /\ \A k \in Keys : k /= r.key => Cp[<<k, "rec">>] = C[<<k, "rec">>]
    /\ r.op = "set" /\ ~IsUnset(r) =>
          Cp[Rec(r)] = IF MainOK(C[Rec(r)], r) THEN Val(r, r.data) ELSE C[Rec(r)]
    /\ r.op /= "set" => Cp[Rec(r)] = Val(r, DeltaFinal(C[Rec(r)], r)) /\ Cp[Rec(r)] /= NULL

\* A record is set, or refused: the highest sequence number is still there.
LEMMA LatestStep ==
  ASSUME NEW all \in SUBSET Records, NEW D \in SUBSET all, NEW C, NEW Cp, NEW r \in all,
         Latest(D, all, C), Applied(r, C, Cp)
  PROVE  Latest(D \cup {r}, all, Cp)
<1> SUFFICES ASSUME NEW k \in Keys, Steady({q \in all : q.key = k})
             PROVE  LET mine == {q \in D \cup {r} : q.key = k}
                    IN /\ mine = {} => Cp[<<k, "rec">>] = NULL
                       /\ mine /= {} =>
                             \E q \in mine : /\ Cp[<<k, "rec">>] = Val(q, q.data)
                                             /\ \A p \in mine : p.seq <= q.seq
  BY DEF Latest
<1>0. /\ \A l \in Keys : l /= r.key => Cp[<<l, "rec">>] = C[<<l, "rec">>]
      /\ r.op = "set" /\ ~IsUnset(r) =>
            Cp[Rec(r)] = IF MainOK(C[Rec(r)], r) THEN Val(r, r.data) ELSE C[Rec(r)]
  BY DEF Applied
<1> DEFINE mine == {q \in D : q.key = k}
           now == {q \in D \cup {r} : q.key = k}
<1>4. Steady(now) /\ r \in Records
  BY DEF Steady
<1>1. /\ mine = {} => C[<<k, "rec">>] = NULL
      /\ mine /= {} =>
            \E q \in mine : /\ C[<<k, "rec">>] = Val(q, q.data)
                            /\ \A p \in mine : p.seq <= q.seq
  BY DEF Latest
<1>2. CASE k /= r.key
  <2>1. now = mine
    BY <1>2
  <2> QED BY <1>0, <1>1, <1>2, <2>1
<1>3. CASE k = r.key
  <2>1. now = mine \cup {r} /\ r \in now
    BY <1>3
  <2> HIDE DEF mine, now
  <2>2. SUFFICES \E q \in now : Cp[<<k, "rec">>] = Val(q, q.data) /\ \A p \in now : p.seq <= q.seq
    BY <2>1 DEF now
  <2>3. r.op = "set" /\ ~IsUnset(r) /\ r.seq > 0 /\ \A q \in mine : q.own = r.own
    BY <1>4, <2>1 DEF Steady
  <2>5. Rec(r) = <<k, "rec">> /\ \A q \in now : q.seq \in Nat
    BY <1>3, <1>4, RecordFacts DEF now
  <2>6. CASE mine = {}
    <3>1. C[Rec(r)] = NULL
      BY <1>1, <2>5, <2>6
    <3>2. Cp[Rec(r)] = Val(r, r.data)
      BY <1>0, <2>3, <3>1 DEF MainOK
    <3> QED BY <2>1, <2>5, <2>6, <3>2
  <2>7. CASE mine /= {}
    <3>1. PICK q \in mine : C[<<k, "rec">>] = Val(q, q.data) /\ \A p \in mine : p.seq <= q.seq
      BY <1>1, <2>7
    <3>2. C[Rec(r)].seq = q.seq /\ C[Rec(r)].own = q.own
      BY <2>5, <3>1 DEF Val
    <3>3. WrAllowed(C[Rec(r)], r.own)
      BY <2>3, <3>2 DEF WrAllowed
    <3>4. q \in now /\ q.seq \in Nat /\ r.seq \in Nat
      BY <2>1, <2>5
    <3>5. CASE r.seq >= q.seq
      <4>1. Cp[Rec(r)] = Val(r, r.data)
        BY <1>0, <2>3, <3>2, <3>3, <3>5 DEF MainOK
      <4>2. \A p \in now : p.seq <= r.seq
        BY <2>1, <2>5, <3>1, <3>4, <3>5
      <4> QED BY <2>1, <2>5, <4>1, <4>2
    <3>6. CASE ~(r.seq >= q.seq)
      <4>1. C[Rec(r)] /= NULL
        BY <2>5, <3>1, <3>4, RecordFacts DEF now
      <4>2. ~MainOK(C[Rec(r)], r)
        BY <2>3, <3>2, <3>4, <3>6, <4>1 DEF MainOK
      <4>3. Cp[Rec(r)] = C[Rec(r)]
        BY <1>0, <2>3, <4>2
      <4>4. \A p \in now : p.seq <= q.seq
        BY <2>1, <2>5, <3>1, <3>4, <3>6
      <4> QED BY <2>1, <2>5, <3>1, <3>4, <4>3, <4>4
    <3> QED BY <3>5, <3>6
  <2> QED BY <2>6, <2>7
<1> QED BY <1>2, <1>3

\* A delta is applied: what was added and not removed is still there.
LEMMA AddedStep ==
  ASSUME NEW D \in SUBSET Records, NEW C, NEW Cp, NEW r \in Records, Added(D, C),
         Applied(r, C, Cp)
  PROVE  Added(D \cup {r}, Cp)
<1> SUFFICES ASSUME NEW q \in D \cup {r}, NEW x \in q.data, q.op = "plus",
                    \A p \in D \cup {r} : p.key = q.key => p.op = "plus" \/ (p.op = "minus" /\ x \notin p.data)
             PROVE  Cp[Rec(q)] /= NULL /\ x \in Cp[Rec(q)].data
  BY DEF Added
<1>1. q \in Records /\ q.key \in Keys /\ Rec(q) = <<q.key, "rec">> /\ Rec(r) = <<r.key, "rec">>
  BY RecordFacts
<1>2. q \in D => C[Rec(q)] /= NULL /\ x \in C[Rec(q)].data
  BY DEF Added
<1>3. CASE q.key /= r.key
  BY <1>1, <1>2, <1>3 DEF Applied
<1>4. CASE q.key = r.key
  <2>1. Rec(q) = Rec(r) /\ (r.op = "plus" \/ (r.op = "minus" /\ x \notin r.data))
    BY <1>1, <1>4
  <2>2. Cp[Rec(r)] /= NULL /\ Cp[Rec(r)].data = DeltaFinal(C[Rec(r)], r)
    BY <2>1 DEF Applied, Val
  <2>3. x \in DeltaFinal(C[Rec(r)], r)
    BY <1>2, <2>1 DEF DeltaFinal
  <2> QED BY <2>1, <2>2, <2>3
<1> QED BY <1>3, <1>4

-----------------------------------------------------------------------------
(***************************************************************************)
(* Steps of the loop.                                                      *)
(***************************************************************************)

\* The loop is done with a record, or has the archive or the emptied vector to look at yet.
Onward ==
    /\ UNCHANGED <<todo, failed, before, last, done>>
    /\ \/ rest' = Tail(rest) /\ at' = "record"
       \/ /\ rest' = rest /\ at = "record"
          /\ \/ at' = "archive" /\ Head(rest).op = "set"
             \/ at' = "emptied" /\ Head(rest).op = "minus"

\* A call for the record at the head: on the record, or on its archive.
Handles(s, v, n, ok) ==
    /\ Called(s, v, n, ok)
    /\ s \in {Rec(Head(rest)), Arc(Rec(Head(rest)))}
    /\ n \in {1, 2} /\ ok \in BOOLEAN
    /\ n = 2 => at = "record" /\ at' = "record"
    /\ v = NULL => Head(rest).op /= "plus" /\ at' /= "emptied"
    /\ at' = "archive" => s = Rec(Head(rest))
    /\ s = Rec(Head(rest)) => ~Pending(s)
    /\ ok /\ s = Rec(Head(rest)) => WrAllowed(Content(s), Head(rest).own)

\* The head of the export is applied, and nothing else.
LEMMA HandledStep ==
  ASSUME Loop, rest /= <<>>, Onward, at \in {"record", "archive", "emptied"}
  PROVE  Handled' = Handled \cup {Head(rest)}
<1>1. /\ Head(rest) = last[Gone + 1] /\ Head(rest) \in Records /\ Gone \in Nat /\ last' = last
  BY HeadFacts DEF Onward
<1>2. CASE rest' = Tail(rest) /\ at' = "record"
  <2>1. Gone' = Gone + 1
    BY <1>1, <1>2, TailFacts
  <2>2. \A i \in 1..(Gone + 1) : i \in 1..Gone \/ i = Gone + 1
    BY <1>1
  <2>3. Gone + 1 \in 1..(Gone + 1) /\ \A i \in 1..Gone : i \in 1..(Gone + 1)
    BY <1>1
  <2>4. ASSUME NEW r \in Records
        PROVE  r \in Handled' <=> r \in Handled \cup {Head(rest)}
    BY <1>1, <1>2, <2>1, <2>2, <2>3 DEF Handled
  <2> QED BY <1>1, <2>4 DEF Handled
<1>3. CASE rest' = rest /\ at = "record" /\ at' \in {"archive", "emptied"}
  <2>1. Gone' = Gone
    BY <1>1, <1>3 DEF Gone
  <2> QED BY <1>1, <1>3, <2>1 DEF Handled
<1> QED BY <1>2, <1>3 DEF Onward

\* The loop and the buffers after a call: nothing is pending that the loop is not done with.
LEMMA LoopStep ==
  ASSUME Loop, Removed, Fits, IndInv, IndInv', phase = "open", rest /= <<>>, Onward,
         NEW s, NEW v, NEW n, NEW ok, Handles(s, v, n, ok)
  PROVE  Loop' /\ Removed' /\ Fits'
<1> DEFINE r == Head(rest)
<1>1. /\ Head(rest) = last[Gone + 1] /\ r \in Records /\ Gone \in Nat /\ last' = last /\ phase' = "open"
      /\ at \in {"record", "archive", "emptied"}
  <2>1. phase' = "open" /\ last' = last
    BY DEF Onward, Handles, Called
  <2>2. at \in {"record", "archive", "emptied"}
    BY DEF Loop
  <2> QED BY <2>1, <2>2, HeadFacts
<1>2. Rec(r) \in Slots /\ Rec(r)[1] = r.key /\ Arc(Rec(r)) \in Slots /\ Arc(Rec(r))[1] = r.key
  BY <1>1, RecordFacts, SlotFacts DEF Arc
<1>3. Loop'
  <2>1. CASE rest' = Tail(rest) /\ at' = "record"
    <3>1. /\ Gone' = Gone + 1 /\ rest' \in Seq(Records) /\ Len(rest') <= Len(last)
          /\ \A i \in 1..Len(rest') : rest'[i] = last[Gone' + i]
      BY <1>1, <2>1, TailFacts
    <3> QED BY <1>1, <2>1, <3>1 DEF Loop, Onward, Came
  <2>2. CASE rest' = rest /\ at = "record" /\ \/ at' = "archive" /\ Head(rest).op = "set"
                                              \/ at' = "emptied" /\ Head(rest).op = "minus"
    <3>1. Gone' = Gone
      BY <1>1, <2>2 DEF Gone
    <3> QED BY <1>1, <2>2, <3>1 DEF Loop, Onward, Came
  <2> QED BY <2>1, <2>2 DEF Onward
<1>4. Removed'
  <2> SUFFICES ASSUME NEW t \in Slots, Pending(t)'
               PROVE  \/ \E i \in 1..Gone' : last[i].key = t[1] /\ last[i].op /= "plus"
                      \/ at' = "archive" /\ t = Rec(Head(rest'))
    BY <1>1 DEF Removed, Onward
  <2>1. Pending(t) \/ (v = NULL /\ t = s)
    BY DEF Handles, Called
  <2>2. CASE rest' = Tail(rest) /\ at' = "record"
    <3>1. Gone' = Gone + 1 /\ Gone + 1 \in 1..(Gone + 1) /\ \A i \in 1..Gone : i \in 1..(Gone + 1)
      BY <1>1, <2>2, TailFacts
    <3>2. CASE \E i \in 1..Gone : last[i].key = t[1] /\ last[i].op /= "plus"
      BY <3>1, <3>2
    <3>3. CASE t = Rec(r) /\ at = "archive"
      <4>1. r.op = "set"
        BY <3>3 DEF Loop
      <4> QED BY <1>1, <1>2, <3>1, <3>3, <4>1
    <3>4. CASE v = NULL /\ t = s
      <4>1. t[1] = r.key /\ r.op /= "plus"
        BY <1>2, <3>4 DEF Handles
      <4> QED BY <1>1, <3>1, <4>1
    <3> QED BY <2>1, <3>2, <3>3, <3>4 DEF Removed
  <2>3. CASE rest' = rest /\ at = "record" /\ at' \in {"archive", "emptied"}
    <3>1. Gone' = Gone
      BY <1>1, <2>3 DEF Gone
    <3>2. CASE \E i \in 1..Gone : last[i].key = t[1] /\ last[i].op /= "plus"
      BY <3>1, <3>2
    <3>3. CASE v = NULL /\ t = s
      BY <2>3, <3>3 DEF Handles
    <3> QED BY <2>1, <2>3, <3>2, <3>3 DEF Removed
  <2> QED BY <2>2, <2>3 DEF Onward
<1>5. Fits'
  <2> DEFINE size == Len(unsetBuf) + Len(rollbackBuf)
  <2>1. size \in Nat /\ size' \in Nat
    <3>1. Len(unsetBuf) \in Nat /\ Len(rollbackBuf) \in Nat
      BY DEF IndInv, Types
    <3>2. Len(unsetBuf') \in Nat /\ Len(rollbackBuf') \in Nat
      BY DEF IndInv, Types
    <3> QED BY <3>1, <3>2
  <2>2. size' <= size + n /\ n \in {1, 2}
    BY DEF Handles, Called
  <2>3. at = "record" => size <= 2 * Gone
    <3>1. at = "record" => at \notin {"archive", "emptied"}
      OBVIOUS
    <3> QED BY <1>1, <3>1, <2>1 DEF Fits
  <2>4. at /= "record" => size <= 2 * Gone + 1
    <3>1. at /= "record" => at \in {"archive", "emptied"}
      BY <1>1
    <3> QED BY <1>1, <3>1, <2>1 DEF Fits
  <2>5. CASE rest' = Tail(rest) /\ at' = "record"
    <3>1. Gone' = Gone + 1 /\ at' \notin {"archive", "emptied"}
      BY <1>1, <2>5, TailFacts
    <3>2. size' <= 2 * Gone + 2
      <4>1. n = 2 => at = "record"
        BY DEF Handles
      <4> HIDE DEF size
      <4> QED BY <1>1, <2>1, <2>2, <2>3, <2>4, <4>1
    <3>3. size' <= 2 * Gone' + 0
      <4> HIDE DEF size
      <4> QED BY <1>1, <2>1, <3>1, <3>2
    <3> QED BY <3>1, <3>3 DEF Fits
  <2>6. CASE rest' = rest /\ at = "record" /\ at' \in {"archive", "emptied"}
    <3>1. Gone' = Gone /\ n = 1
      <4>1. Gone' = Gone
        BY <1>1, <2>6 DEF Gone
      <4>2. n = 1
        BY <2>6 DEF Handles
      <4> QED BY <4>1, <4>2
    <3>2. size' <= 2 * Gone' + 1
      <4> HIDE DEF size
      <4> QED BY <1>1, <2>1, <2>2, <2>3, <2>6, <3>1
    <3> QED BY <2>6, <3>2 DEF Fits
  <2> QED BY <2>5, <2>6 DEF Onward
<1> QED BY <1>3, <1>4, <1>5

\* Whatever is changed is of a key of the export, and by somebody who may.
LEMMA ChangeStep ==
  ASSUME Loop, IndInv, Changes, phase = "open", rest /= <<>>, Onward,
         NEW s, NEW v, NEW n, NEW ok, Handles(s, v, n, ok)
  PROVE  Changes'
<1> DEFINE r == Head(rest)
<1>1. /\ r = last[Gone + 1] /\ Gone + 1 \in 1..Len(last) /\ r \in Records
  BY HeadFacts
<1>2. /\ Rec(r) \in Slots /\ Rec(r)[1] = r.key /\ Rec(r)[2] = "rec"
      /\ Arc(Rec(r)) \in Slots /\ Arc(Rec(r))[1] = r.key /\ Arc(Rec(r))[2] /= "rec"
  BY <1>1, RecordFacts, SlotFacts DEF Arc
<1>3. before' = before /\ last' = last /\ failed' = failed /\ committed' = committed /\ at' \notin {"idle", "ending"}
  BY DEF Onward, Handles, Called
<1>4. ASSUME NEW t \in Slots, working'[t] /= before[t]
      PROVE  Justified(t)
  <2>1. CASE working'[t] = working[t] /\ working[t] /= before[t]
    BY <2>1 DEF Changes
  <2>2. CASE working'[t] /= working[t] /\ working[t] /= before[t]
    BY <2>2 DEF Changes
  <2>3. CASE working'[t] /= working[t] /\ working[t] = before[t]
    <3>1. t[1] = r.key /\ (t[2] = "rec" => t = s)
      BY <1>2, <2>3 DEF Handles, Called
    <3>2. CASE t[2] /= "rec"
      BY <1>1, <3>1, <3>2 DEF Justified
    <3>3. CASE t[2] = "rec"
      <4>1. t = s /\ t = Rec(r) /\ ok
        BY <1>2, <2>3, <3>1, <3>3 DEF Handles, Called
      <4>2. WrAllowed(Content(t), r.own) /\ ~Pending(t)
        BY <4>1 DEF Handles
      <4>3. Content(t) = before[t]
        BY <2>3, <4>2, ReadsAsked
      <4> QED BY <1>1, <3>1, <4>2, <4>3 DEF Justified, WrAllowed
    <3> QED BY <3>2, <3>3
  <2> QED BY <1>4, <2>1, <2>2, <2>3
<1>5. \A t \in Slots : Justified(t) => Justified(t)'
  BY <1>3 DEF Justified
<1> QED BY <1>3, <1>4, <1>5 DEF Changes

\* How far the loop is, and where the head of the export is in it.
LEMMA PastFacts ==
  ASSUME Loop, rest /= <<>>, Onward, at \in {"record", "archive", "emptied"}
  PROVE  /\ Past \in Nat /\ Past' \in 1..Len(last) /\ last' = last /\ before' = before
         /\ Head(rest) = last[Past'] /\ Head(rest) \in Records
         /\ at = "record" => Past' = Past + 1
         /\ at /= "record" => Past' = Past
         /\ \A i \in 1..Past : i \in 1..Past' /\ i \in 1..Len(last)
         /\ \A i \in 1..Past' : i = Past' \/ (i \in 1..Past /\ i \in 1..Gone)
         /\ \A i \in 1..Gone : last[i].key = Head(rest).key => last[i].op = "plus" /\ Head(rest).op = "minus"
<1>1. /\ Gone \in Nat /\ Gone + 1 \in 1..Len(last) /\ Head(rest) = last[Gone + 1] /\ Head(rest) \in Records
      /\ \A i \in 1..Gone : last[i].key = Head(rest).key => last[i].op = "plus" /\ Head(rest).op = "minus"
  BY HeadFacts
<1>2. last' = last /\ before' = before
  BY DEF Onward
<1>3. Past' = Gone + 1
  <2>1. CASE rest' = Tail(rest) /\ at' = "record"
    <3>1. Gone' = Gone + 1 /\ Gone' \in Nat
      BY <1>1, <1>2, <2>1, TailFacts
    <3> QED BY <2>1, <3>1 DEF Past
  <2>2. CASE rest' = rest /\ at' \in {"archive", "emptied"}
    <3>1. Gone' = Gone
      BY <1>2, <2>2 DEF Gone
    <3> QED BY <2>2, <3>1 DEF Past
  <2> QED BY <2>1, <2>2 DEF Onward
<1>4. /\ at = "record" => Past = Gone
      /\ at /= "record" => Past = Gone + 1
  BY <1>1 DEF Past
<1>5. Len(last) \in Nat
  BY DEF Loop
<1> QED BY <1>1, <1>2, <1>3, <1>4, <1>5

\* The keys of records and archives.
LEMMA SlotsOf ==
  ASSUME NEW r \in Records
  PROVE  /\ Rec(r) \in Slots /\ Rec(r)[1] = r.key /\ Rec(r)[2] = "rec"
         /\ Arc(Rec(r))[1] = r.key /\ Arc(Rec(r))[2] /= "rec"
         /\ \A t \in Slots : t[1] = r.key /\ t /= Rec(r) => t[2] /= "rec"
         /\ \A q \in Records : Rec(q)[1] = q.key /\ Rec(q)[2] = "rec"
<1>1. Rec(r) \in Slots /\ Rec(r)[1] = r.key /\ Rec(r)[2] = "rec" /\ Rec(r) = <<r.key, "rec">>
      /\ \A q \in Records : Rec(q)[1] = q.key /\ Rec(q)[2] = "rec"
  BY RecordFacts
<1>2. Arc(Rec(r))[1] = r.key /\ Arc(Rec(r))[2] /= "rec"
  BY <1>1 DEF Arc
<1>3. \A t \in Slots : t = <<t[1], t[2]>>
  BY DEF Slots
<1> QED BY <1>1, <1>2, <1>3

\* A record of another key: what a rollback would find of it is the same.
LEMMA UndoElsewhere ==
  ASSUME NEW t \in Slots, last' = last, before' = before,
         Replacements(t)' = Replacements(t),
         \A i \in Replacements(t) : /\ rollbackBuf'[i] = rollbackBuf[i]
                                    /\ ValueOf(rollbackBuf[i].cell)' = ValueOf(rollbackBuf[i].cell)
  PROVE  /\ Justified(t)' <=> Justified(t)
         /\ Once(t)' <=> Once(t)
         /\ Plain(t) => Plain(t)'
         /\ Twice(t) => Twice(t)'
<1>1. Justified(t)' <=> Justified(t)
  BY DEF Justified
<1>2. Once(t)' <=> Once(t)
  BY DEF Once
<1>3. Plain(t) => Plain(t)'
  BY DEF Plain
<1>4. ASSUME NEW c, HalfDone(t, c) PROVE HalfDone(t, c)'
  BY <1>4 DEF HalfDone, Rec
<1>5. Twice(t) => Twice(t)'
  <2> SUFFICES ASSUME Twice(t), before[t] /= NULL, NEW i \in Replacements(t),
                      \A j \in Replacements(t) : j <= i
               PROVE  HalfDone(t, ValueOf(rollbackBuf[i].cell))'
    BY <1>3 DEF Twice
  <2>1. PICK c : c = ValueOf(rollbackBuf[i].cell)
    OBVIOUS
  <2>2. HalfDone(t, c)'
    BY <1>4, <2>1 DEF Twice
  <2> QED BY <2>1, <2>2 DEF HalfDone
<1> QED BY <1>1, <1>2, <1>3, <1>5

\* A record is set, removed or changed by items: a key of which nothing was applied has no entry,
\* a vector that was added to has one.
LEMMA UndoRecord ==
  ASSUME Loop, Changes, Undoable, IndInv, phase = "open", rest /= <<>>, Onward, at = "record",
         NEW s, NEW v, NEW n, NEW ok, Handles(s, v, n, ok), s = Rec(Head(rest)),
         NEW arch, NEW old, old = Content(s), ArchivedUnset' \/ Enters(s, arch, ok, old),
         arch => Head(rest).op = "set",
         Head(rest).op = "plus" => ok /\ v = Val(Head(rest), DeltaFinal(old, Head(rest)))
  PROVE  Undoable'
<1>0. PICK r : r = Head(rest)
  OBVIOUS
<1>1. /\ Past \in Nat /\ Past' = Past + 1 /\ Past' \in 1..Len(last) /\ last' = last /\ before' = before
      /\ r = last[Past'] /\ r \in Records
      /\ \A i \in 1..Past : i \in 1..Past' /\ i \in 1..Len(last)
      /\ \A i \in 1..Past : last[i].key = r.key => last[i].op = "plus" /\ r.op = "minus"
      /\ \A i \in 1..Past' : i = Past' \/ i \in 1..Past
  <2>1. \A i \in 1..Past : i /= Past + 1 /\ Past \in Nat
    BY PastFacts
  <2> QED BY <1>0, <2>1, PastFacts
<1>2. /\ s \in Slots /\ s = Rec(r) /\ s[1] = r.key /\ s[2] = "rec" /\ Arc(s)[1] = r.key
      /\ \A t \in Slots : t[1] = r.key /\ t /= s => t[2] /= "rec"
      /\ \A q \in Records : Rec(q)[1] = q.key /\ Rec(q)[2] = "rec"
  BY <1>0, <1>1, SlotsOf
<1>3. /\ ~Pending(s) /\ (ok => WrAllowed(Content(s), r.own)) /\ working'[s] = (IF ok THEN v ELSE working[s])
      /\ \A t \in Slots : t[1] /= r.key => working'[t] = working[t]
  BY <1>0, <1>2 DEF Handles, Called
<1>4. old = working[s]
  BY <1>2, <1>3, ReadsAsked
<1>5. \A i \in 1..Len(last) : last[i] \in Records
  BY CameFacts
<1> SUFFICES ASSUME ~ArchivedUnset', NEW t \in Slots
             PROVE  /\ ~Met(t[1])' => Replacements(t)' = {} /\ working'[t] = before'[t]
                    /\ Replacements(t)' /= {} => Justified(t)'
                    /\ Once(t)' \/ Twice(t)'
                    /\ OnlyAdded(t)'
  BY DEF Undoable
<1>6. Enters(s, arch, ok, old) /\ ~ArchivedUnset
  BY DEF Enters
<1>7. /\ ~Met(t[1]) => Replacements(t) = {} /\ working[t] = before[t]
      /\ Replacements(t) /= {} => Justified(t)
      /\ Once(t) \/ Twice(t)
      /\ OnlyAdded(t)
  BY <1>6 DEF Undoable
<1>8. /\ Replacements(t) \subseteq Replacements(t)'
      /\ \A i \in Replacements(t)' :
           \/ /\ i \in Replacements(t) /\ rollbackBuf'[i] = rollbackBuf[i]
              /\ ValueOf(rollbackBuf[i].cell)' = ValueOf(rollbackBuf[i].cell)
           \/ /\ ok /\ t = s /\ i = Len(rollbackBuf) + 1
              /\ (rollbackBuf'[i].has <=> arch) /\ ~rollbackBuf'[i].is
              /\ ValueOf(rollbackBuf[i].cell)' = old
           \/ ok /\ arch /\ t = Arc(s) /\ i = Len(rollbackBuf) + 2
  BY <1>6 DEF Enters
<1>9. /\ Met(r.key)'
      /\ Met(t[1]) => Met(t[1])'
      /\ t[1] /= r.key => (Met(t[1])' => Met(t[1]))
  BY <1>1 DEF Met
<1>10. Met(r.key) => r.op = "minus"
  BY <1>1 DEF Met
<1>11. CASE t[1] /= r.key
  <2>1. /\ Replacements(t)' = Replacements(t) /\ working'[t] = working[t]
        /\ \A i \in Replacements(t) : /\ rollbackBuf'[i] = rollbackBuf[i]
                                      /\ ValueOf(rollbackBuf[i].cell)' = ValueOf(rollbackBuf[i].cell)
    BY <1>2, <1>3, <1>8, <1>11
  <2>2. /\ Justified(t)' <=> Justified(t)
        /\ Once(t)' <=> Once(t)
        /\ Plain(t) => Plain(t)'
        /\ Twice(t) => Twice(t)'
    BY <1>1, <2>1, UndoElsewhere
  <2>3. OnlyAdded(t)'
    <3> SUFFICES ASSUME NEW i \in 1..Past', last[i].op = "plus", Rec(last[i]) = t,
                        \A j \in 1..Past' : last[j].op = "minus" => Rec(last[j]) /= t
                 PROVE  Once(t)' /\ Plain(t)' /\ working'[t] = Val(last[i], DeltaFinal(before[t], last[i]))
      BY <1>1 DEF OnlyAdded, Rec
    <3>1. i /= Past'
      BY <1>1, <1>2, <1>11
    <3>2. i \in 1..Past /\ \A j \in 1..Past : last[j].op = "minus" => Rec(last[j]) /= t
      BY <1>1, <3>1
    <3> QED BY <1>7, <2>1, <2>2, <3>2 DEF OnlyAdded
  <2> QED BY <1>1, <1>7, <1>9, <1>11, <2>1, <2>2, <2>3
<1>12. CASE t[1] = r.key /\ t /= s
  <2>1. t[2] /= "rec"
    BY <1>2, <1>12
  <2>2. OnlyAdded(t)'
    BY <1>1, <1>2, <1>5, <2>1 DEF OnlyAdded, Rec
  <2>3. Justified(t)'
    BY <1>1, <1>12, <2>1 DEF Justified
  <2>4. CASE arch
    <3>1. Replacements(t) = {}
      BY <1>0, <1>7, <1>10, <1>12, <2>4
    <3>2. Once(t)'
      BY <1>8, <1>12, <3>1 DEF Once
    <3> QED BY <1>9, <1>12, <2>2, <2>3, <3>2
  <2>5. CASE ~arch
    <3>1. /\ Replacements(t)' = Replacements(t)
          /\ \A i \in Replacements(t) : /\ rollbackBuf'[i] = rollbackBuf[i]
                                        /\ ValueOf(rollbackBuf[i].cell)' = ValueOf(rollbackBuf[i].cell)
      BY <1>8, <1>12, <2>5
    <3>2. Once(t)' \/ Twice(t)'
      BY <1>1, <1>7, <3>1, UndoElsewhere
    <3> QED BY <1>9, <1>12, <2>2, <2>3, <3>2
  <2> QED BY <2>4, <2>5
<1>13. CASE t = s
  <2> DEFINE L == Len(rollbackBuf)
  <2>1. L \in Nat /\ \A i \in Replacements(s) : i \in Nat /\ i < L + 1
    BY DEF Replacements, IndInv, Types
  <2> HIDE DEF L
  <2>2. /\ Replacements(s) \subseteq Replacements(s)'
        /\ \A i \in Replacements(s)' :
             \/ i \in Replacements(s) /\ rollbackBuf'[i] = rollbackBuf[i]
             \/ /\ ok /\ i = L + 1 /\ (rollbackBuf'[i].has <=> arch) /\ ~rollbackBuf'[i].is
                /\ ValueOf(rollbackBuf[i].cell)' = old
    <3>1. s /= Arc(s)
      BY <1>2, SlotFacts
    <3> QED BY <1>8, <1>13, <3>1 DEF L
  <2>3. Met(s[1])'
    BY <1>2, <1>9
  <2>4. Replacements(s)' /= {} => Justified(s)'
    <3>1. Justified(s)' <=> Justified(s)
      BY <1>1 DEF Justified
    <3>2. CASE working[s] /= before[s]
      BY <1>2, <3>1, <3>2 DEF Changes
    <3>3. CASE working[s] = before[s] /\ ok
      <4>1. WrAllowed(before[s], r.own)
        BY <1>3, <1>4, <3>3
      <4> QED BY <1>1, <1>2, <4>1 DEF WrAllowed, Justified
    <3>4. CASE ~ok
      BY <1>7, <1>13, <2>2, <3>1, <3>4
    <3> QED BY <3>2, <3>3, <3>4
  <2>5. CASE ~Met(r.key)
    <3>1. Replacements(s) = {} /\ working[s] = before[s]
      BY <1>2, <1>7, <1>13, <2>5
    <3>2. Once(s)'
      BY <2>2, <3>1 DEF Once
    <3>3. ~arch => Plain(s)'
      BY <2>2, <3>1 DEF Plain
    <3>4. OnlyAdded(s)'
      <4> SUFFICES ASSUME NEW i \in 1..Past', last[i].op = "plus", Rec(last[i]) = s
                   PROVE  Once(s)' /\ Plain(s)' /\ working'[s] = Val(last[i], DeltaFinal(before[s], last[i]))
        BY <1>1 DEF OnlyAdded, Rec
      <4>1. i = Past'
        <5>1. last[i].key = r.key
          BY <1>2 DEF Rec
        <5> QED BY <1>1, <2>5, <5>1 DEF Met
      <4>2. r.op = "plus" /\ last[i] = r
        BY <1>1, <4>1
      <4> QED BY <1>0, <1>3, <1>4, <3>1, <3>2, <3>3, <4>2
    <3> QED BY <1>13, <2>3, <2>4, <3>2, <3>4
  <2>6. CASE Met(r.key)
    <3>1. r.op = "minus" /\ ~arch
      BY <1>0, <1>10, <2>6
    <3>2. PICK i \in 1..Past : last[i].key = r.key /\ last[i].op = "plus"
      BY <1>1, <2>6 DEF Met
    <3>3. Rec(last[i]) = s
      BY <1>2, <3>2 DEF Rec
    <3>4. \A j \in 1..Past : last[j].op = "minus" => Rec(last[j]) /= s
      <4>1. \A j \in 1..Past : Rec(last[j]) = s => last[j].key = r.key
        BY <1>2 DEF Rec
      <4> QED BY <1>1, <4>1
    <3>5. Once(s) /\ Plain(s) /\ working[s] = Val(last[i], DeltaFinal(before[s], last[i]))
      BY <1>7, <1>13, <3>2, <3>3, <3>4 DEF OnlyAdded
    <3>6. Plain(s)'
      BY <2>2, <3>1, <3>5 DEF Plain
    <3>7. OnlyAdded(s)'
      <4>1. last[Past'].op = "minus" /\ Rec(last[Past']) = s /\ Past' \in 1..Past'
        BY <1>1, <1>2, <3>1
      <4> QED BY <1>1, <4>1 DEF OnlyAdded, Rec
    <3>8. CASE L + 1 \in Replacements(s)'
      <4>1. before[s] /= NULL => HalfDone(s, old)'
        <5> SUFFICES ASSUME before[s] /= NULL PROVE HalfDone(s, old)'
          OBVIOUS
        <5>1. old = Val(last[i], before[s].data \cup last[i].data)
          BY <1>4, <3>2, <3>5 DEF DeltaFinal
        <5>2. i \in 1..Len(last) /\ Past' \in 1..Len(last) /\ last[Past'] = r
          BY <1>1, <3>2
        <5> QED BY <1>1, <1>2, <3>1, <3>2, <3>3, <5>1, <5>2 DEF HalfDone, Rec
      <4>2. ASSUME NEW q \in Replacements(s)', \A j \in Replacements(s)' : j <= q, before[s] /= NULL
            PROVE  HalfDone(s, ValueOf(rollbackBuf[q].cell))'
        <5>1. q \notin Replacements(s)
          BY <2>1, <3>8, <4>2
        <5>2. ValueOf(rollbackBuf[q].cell)' = old
          BY <2>2, <5>1
        <5> QED BY <4>1, <4>2, <5>2 DEF HalfDone
      <4> QED BY <1>1, <1>13, <2>3, <2>4, <3>6, <3>7, <4>2 DEF Twice
    <3>9. CASE L + 1 \notin Replacements(s)'
      <4>1. Once(s)'
        BY <2>2, <3>5, <3>9 DEF Once
      <4> QED BY <1>13, <2>3, <2>4, <3>7, <4>1
    <3> QED BY <3>8, <3>9
  <2> QED BY <2>5, <2>6
<1> QED BY <1>2, <1>11, <1>12, <1>13

\* The second call for a record: the removal of an archive, or of an emptied vector.
LEMMA UndoRest ==
  ASSUME Loop, Undoable, phase = "open", rest /= <<>>, Onward, at \in {"archive", "emptied"},
         NEW s, NEW old, ArchivedUnset' \/ Enters(s, FALSE, FALSE, old),
         \A t \in Slots : t[1] /= Head(rest).key => working'[t] = working[t]
  PROVE  Undoable'
<1>0. PICK r : r = Head(rest)
  OBVIOUS
<1>1. /\ Past' = Past /\ last' = last /\ before' = before
      /\ r = last[Past] /\ r \in Records /\ Past \in 1..Past
      /\ \A i \in 1..Past : i \in 1..Len(last)
      /\ \A i \in 1..Past : last[i].key = r.key => i = Past \/ (last[i].op = "plus" /\ r.op = "minus")
  <2>1. /\ Past \in Nat /\ Past' \in 1..Len(last) /\ Past' = Past /\ last' = last /\ before' = before
        /\ r = last[Past'] /\ r \in Records
        /\ \A i \in 1..Past : i \in 1..Len(last)
        /\ \A i \in 1..Past' : i = Past' \/ (i \in 1..Past /\ i \in 1..Gone)
        /\ \A i \in 1..Gone : last[i].key = r.key => last[i].op = "plus" /\ r.op = "minus"
    BY <1>0, PastFacts
  <2>2. Past \in 1..Past
    BY <2>1
  <2> QED BY <2>1, <2>2
<1>2. r.op \in {"set", "minus"}
  BY <1>0 DEF Loop
<1>3. \A i \in 1..Len(last) : last[i] \in Records
  BY CameFacts
<1> SUFFICES ASSUME ~ArchivedUnset', NEW t \in Slots
             PROVE  /\ ~Met(t[1])' => Replacements(t)' = {} /\ working'[t] = before'[t]
                    /\ Replacements(t)' /= {} => Justified(t)'
                    /\ Once(t)' \/ Twice(t)'
                    /\ OnlyAdded(t)'
  BY DEF Undoable
<1>4. Enters(s, FALSE, FALSE, old) /\ ~ArchivedUnset
  BY DEF Enters
<1>5. /\ ~Met(t[1]) => Replacements(t) = {} /\ working[t] = before[t]
      /\ Replacements(t) /= {} => Justified(t)
      /\ Once(t) \/ Twice(t)
      /\ OnlyAdded(t)
  BY <1>4 DEF Undoable
<1>6. /\ Replacements(t)' = Replacements(t)
      /\ \A i \in Replacements(t) : /\ rollbackBuf'[i] = rollbackBuf[i]
                                    /\ ValueOf(rollbackBuf[i].cell)' = ValueOf(rollbackBuf[i].cell)
  BY <1>4 DEF Enters
<1>7. /\ Justified(t)' <=> Justified(t)
      /\ Once(t)' <=> Once(t)
      /\ Plain(t) => Plain(t)'
      /\ Twice(t) => Twice(t)'
  BY <1>1, <1>6, UndoElsewhere
<1>8. Met(t[1])' <=> Met(t[1])
  BY <1>1 DEF Met
<1>9. Met(r.key)
  BY <1>1 DEF Met
<1>10. ~Met(t[1]) => working'[t] = working[t]
  BY <1>0, <1>9
<1>11. OnlyAdded(t)'
  <2> SUFFICES ASSUME NEW i \in 1..Past, last[i].op = "plus", Rec(last[i]) = t,
                      \A j \in 1..Past : last[j].op = "minus" => Rec(last[j]) /= t
               PROVE  Once(t)' /\ Plain(t)' /\ working'[t] = Val(last[i], DeltaFinal(before[t], last[i]))
    BY <1>1 DEF OnlyAdded, Rec
  <2>1. Once(t) /\ Plain(t) /\ working[t] = Val(last[i], DeltaFinal(before[t], last[i]))
    BY <1>5 DEF OnlyAdded
  <2>2. t[1] /= r.key
    <3> SUFFICES ASSUME t[1] = r.key PROVE FALSE
      OBVIOUS
    <3>1. last[i].key = r.key /\ last[i] \in Records
      BY <1>1, <1>3 DEF Rec
    <3>2. i /= Past /\ r.op = "minus"
      BY <1>1, <1>2, <3>1
    <3>3. Rec(r) = t
      BY <3>1 DEF Rec
    <3> QED BY <1>1, <3>2, <3>3
  <2> QED BY <1>0, <1>7, <2>1, <2>2
<1> QED BY <1>1, <1>5, <1>6, <1>7, <1>8, <1>10, <1>11

\* What the record at the head makes of the working state.
Applies(r) ==
    /\ Applied(r, working, working')
    /\ at' = "emptied" => working'[Rec(r)] /= NULL /\ working'[Rec(r)].data = {}

\* One more record is merged.
LEMMA MergedStep ==
  ASSUME Loop, Merged, phase = "open", phase' = "open", committed' = committed, at = "record",
         rest /= <<>>, Onward, Applies(Head(rest))
  PROVE  Merged'
<1> DEFINE r == Head(rest)
           D == done \cup Handled
<1>1. done' = done /\ Came' = Came
  BY DEF Onward, Came
<1>2. Handled' = Handled \cup {r}
  BY HandledStep
<1>3. done' \cup Handled' = D \cup {r}
  BY <1>1, <1>2
<1>3a. r \in Came /\ D \in SUBSET Came /\ D \in SUBSET Records /\ Came \in SUBSET Records
  <2>1. r = last[Gone + 1] /\ Gone + 1 \in 1..Len(last)
    BY HeadFacts
  <2> QED BY <2>1, CameFacts
<1>4. Latest(D, Came, working) /\ Added(D, working) /\ Latest(done, Came, committed) /\ Added(done, committed)
  BY DEF Merged
<1>5. /\ Applied(r, working, working')
      /\ at' = "emptied" => working'[Rec(r)] /= NULL /\ working'[Rec(r)].data = {}
  BY DEF Applies
<1>6. at' = "emptied" => rest' = rest
  BY DEF Onward
<1> HIDE DEF r, D
<1>7. Latest(D \cup {r}, Came, working')
  BY <1>3a, <1>4, <1>5, LatestStep
<1>8. Added(D \cup {r}, working')
  BY <1>3a, <1>4, <1>5, AddedStep
<1>9. at' = "emptied" => working'[Rec(Head(rest'))] /= NULL /\ working'[Rec(Head(rest'))].data = {}
  BY <1>5, <1>6 DEF r
<1>10. Latest(done, Came, committed)' /\ Added(done, committed)'
  BY <1>1, <1>4 DEF Latest, Added, Rec
<1>11. Latest(done \cup Handled, Came, working)' /\ Added(done \cup Handled, working)'
  BY <1>1, <1>3, <1>7, <1>8 DEF Latest, Added, Rec
<1> QED BY <1>9, <1>10, <1>11 DEF Merged

\* A call outside the records: their state is what it was.
LEMMA CalledElsewhere ==
  ASSUME NEW r \in Records, NEW s \in {Rec(r), Arc(Rec(r))}, NEW v, NEW n, NEW ok, Called(s, v, n, ok)
  PROVE  /\ \A k \in Keys : k /= r.key => working'[<<k, "rec">>] = working[<<k, "rec">>]
         /\ s = Arc(Rec(r)) => working'[Rec(r)] = working[Rec(r)]
<1>1. /\ Rec(r) \in Slots /\ Rec(r)[1] = r.key /\ Rec(r)[2] = "rec"
      /\ Arc(Rec(r)) \in Slots /\ Arc(Rec(r))[1] = r.key /\ Arc(Rec(r)) /= Rec(r)
  BY RecordFacts, SlotFacts DEF Arc
<1>2. \A k \in Keys : <<k, "rec">> \in Slots /\ <<k, "rec">>[1] = k /\ <<k, "rec">>[2] = "rec"
  BY DEF Slots
<1>3. \A t \in Slots : t /= s /\ (t[2] = "rec" \/ t[1] /= s[1]) => working'[t] = working[t]
  BY DEF Called
<1>4. ASSUME NEW k \in Keys, k /= r.key
      PROVE  working'[<<k, "rec">>] = working[<<k, "rec">>]
  BY <1>1, <1>2, <1>3, <1>4
<1> QED BY <1>1, <1>3, <1>4

\* Where the loop reads a record.
LEMMA Reading ==
  ASSUME Sound, rest /= <<>>, at \in {"record", "archive", "emptied"}
  PROVE  /\ phase = "open" /\ Room /\ Head(rest) \in Records
         /\ Rec(Head(rest)) \in Slots /\ Rec(Head(rest))[2] = "rec" /\ Arc(Rec(Head(rest))) \in Slots
         /\ at /= "archive" => ~Pending(Rec(Head(rest)))
         /\ ~Pending(Arc(Rec(Head(rest))))
<1>1. Loop /\ Removed /\ Fits /\ IndInv
  BY DEF Sound
<1>2. phase = "open"
  BY <1>1 DEF Loop, IndInv, Types
<1>3. Head(rest) \in Records
  BY <1>1, HeadFacts
<1> QED BY <1>1, <1>2, <1>3, MayTouch, RecordFacts, SlotFacts

\* A call that is a step of the store keeps all but the merge.
LEMMA CallKeeps ==
  ASSUME Sound, rest /= <<>>, at \in {"record", "archive", "emptied"}, [Next]_kvVars, Onward,
         NEW s, NEW v, NEW n, NEW ok, Handles(s, v, n, ok)
  PROVE  IndInv' /\ Loop' /\ Removed' /\ Fits' /\ Changes' /\ phase' = "open" /\ committed' = committed
<1>1. IndInv' /\ phase = "open" /\ phase' = "open" /\ committed' = committed
  BY Reading, NextInd DEF Sound, Handles, Called
<1>2. Loop' /\ Removed' /\ Fits'
  BY <1>1, LoopStep DEF Sound
<1>3. Changes'
  BY <1>1, ChangeStep DEF Sound
<1> QED BY <1>1, <1>2, <1>3

\* The record is to be removed (_kv_cb_main_unset).
LEMMA SyncUnsetKeeps ==
  ASSUME Sound, SyncUnset
  PROVE  Sound' /\ [Next]_kvVars
<1>1. PICK r \in Records :
        /\ Reads(r) /\ IsUnset(r)
        /\ Unset(Rec(r), "AR" \in r.fl, MainOK(Content(Rec(r)), r))
        /\ ThenArchive(r)
        /\ UNCHANGED <<todo, failed, crashed, spoiled, before, last, done>>
  BY DEF SyncUnset
<1> DEFINE s == Rec(r)
           arch == "AR" \in r.fl
           ok == MainOK(Content(s), r)
<1>2. r = Head(rest) /\ rest /= <<>> /\ at = "record" /\ r.op = "set"
  BY <1>1, UnsetIsSet DEF Reads
<1>3. /\ phase = "open" /\ Room /\ s \in Slots /\ s[2] = "rec" /\ ~Pending(s) /\ ~Pending(Arc(s))
      /\ arch \in BOOLEAN /\ ok \in BOOLEAN
  BY <1>2, Reading DEF MainOK
<1>4. Unset(s, arch, ok)
  BY <1>1
<1>5. Onward
  BY <1>1, <1>2 DEF Onward, ThenArchive, NextRecord
<1>6. ok => WrAllowed(Content(s), r.own)
  BY DEF MainOK, WrAllowed
<1> HIDE DEF s, arch, ok
<1>7. Next
  <2>1. TouchOK(s, arch)
    BY <1>3 DEF TouchOK
  <2> QED BY <1>3, <1>4, <2>1 DEF Next
<1>8. Called(s, NULL, 1, ok)
  BY <1>3, <1>4, UnsetCall DEF Sound
<1>9. Handles(s, NULL, 1, ok)
  <2>1. at' /= "emptied" /\ (at' = "archive" => s = Rec(Head(rest)))
    BY <1>1, <1>2 DEF ThenArchive, NextRecord, s
  <2> QED BY <1>2, <1>3, <1>6, <1>8, <2>1 DEF Handles, s
<1>10. IndInv' /\ Loop' /\ Removed' /\ Fits' /\ Changes' /\ phase' = "open" /\ committed' = committed
  BY <1>2, <1>5, <1>7, <1>9, CallKeeps
<1>11. Applies(Head(rest))
  <2>1. \A k \in Keys : k /= r.key => working'[<<k, "rec">>] = working[<<k, "rec">>]
    BY <1>8, CalledElsewhere DEF s
  <2>2. at' /= "emptied"
    BY <1>9 DEF Handles
  <2> QED BY <1>1, <1>2, <2>1, <2>2 DEF Applies, Applied
<1>13. Undoable'
  <2>1. PICK old : old = Content(s)
    OBVIOUS
  <2>2. ArchivedUnset' \/ Enters(s, FALSE, ok, old)
    BY <1>3, <1>4, UnsetEnters DEF Sound
  <2>3. s = Rec(Head(rest))
    BY <1>2 DEF s
  <2> DEFINE no == FALSE
  <2> HIDE DEF no
  <2>4. ArchivedUnset' \/ Enters(s, no, ok, old)
    BY <2>2 DEF no
  <2>5. (no => Head(rest).op = "set") /\ Head(rest).op /= "plus"
    BY <1>2
  <2> QED BY <1>2, <1>3, <1>5, <1>9, <2>1, <2>3, <2>4, <2>5, UndoRecord DEF Sound
<1>12. Merged'
  BY <1>2, <1>3, <1>5, <1>10, <1>11, MergedStep DEF Sound
<1> QED BY <1>7, <1>10, <1>12, <1>13 DEF Sound

\* The record replaces the whole value (_kv_cb_main_set).
LEMMA SyncSetKeeps ==
  ASSUME Sound, SyncSet
  PROVE  Sound' /\ [Next]_kvVars
<1>1. PICK r \in Records :
        /\ Reads(r) /\ ~IsUnset(r) /\ r.op = "set"
        /\ Set(Rec(r), Val(r, r.data), "AR" \in r.fl, MainOK(Content(Rec(r)), r))
        /\ ThenArchive(r)
        /\ UNCHANGED <<todo, failed, crashed, spoiled, before, last, done>>
  BY DEF SyncSet
<1> DEFINE s == Rec(r)
           v == Val(r, r.data)
           arch == "AR" \in r.fl
           ok == MainOK(Content(s), r)
           n == IF arch THEN 2 ELSE 1
<1>2. r = Head(rest) /\ rest /= <<>> /\ at = "record" /\ r.op = "set"
  BY <1>1 DEF Reads
<1>3. /\ phase = "open" /\ Room /\ s \in Slots /\ s[2] = "rec" /\ ~Pending(s) /\ ~Pending(Arc(s))
      /\ arch \in BOOLEAN /\ ok \in BOOLEAN /\ v \in Values /\ v /= NULL
  <2>1. v \in Values /\ v /= NULL
    BY RecordFacts
  <2> QED BY <1>2, <2>1, Reading DEF MainOK
<1>4. Set(s, v, arch, ok)
  BY <1>1
<1>5. Onward
  BY <1>1, <1>2 DEF Onward, ThenArchive, NextRecord
<1>6. ok => WrAllowed(Content(s), r.own)
  BY DEF MainOK, WrAllowed
<1>6a. n \in {1, 2} /\ (n = 2 => at' = "record") /\ at' /= "emptied"
  BY <1>1 DEF ThenArchive, NextRecord
<1>6b. ok <=> MainOK(working[s], r)
  <2>1. Content(s) = working[s]
    BY <1>3, ReadsAsked DEF Sound
  <2> QED BY <2>1
<1> HIDE DEF s, v, arch, ok
<1>7. Next
  <2>1. TouchOK(s, arch)
    BY <1>3 DEF TouchOK
  <2> QED BY <1>3, <1>4, <2>1 DEF Next
<1>8. Called(s, v, n, ok)
  BY <1>3, <1>4, SetCall DEF Sound
<1> HIDE DEF n
<1>9. Handles(s, v, n, ok)
  BY <1>2, <1>3, <1>6, <1>6a, <1>8 DEF Handles, s
<1>10. IndInv' /\ Loop' /\ Removed' /\ Fits' /\ Changes' /\ phase' = "open" /\ committed' = committed
  BY <1>2, <1>5, <1>7, <1>9, CallKeeps
<1>11. Applies(Head(rest))
  <2>1. \A k \in Keys : k /= r.key => working'[<<k, "rec">>] = working[<<k, "rec">>]
    BY <1>8, CalledElsewhere DEF s
  <2>2. working'[s] = IF ok THEN v ELSE working[s]
    BY <1>8 DEF Called
  <2>3. working'[Rec(r)] = IF MainOK(working[Rec(r)], r) THEN Val(r, r.data) ELSE working[Rec(r)]
    BY <1>6b, <2>2 DEF s, v
  <2> QED BY <1>1, <1>2, <1>6a, <2>1, <2>3 DEF Applies, Applied
<1>13. Undoable'
  <2>1. PICK old : old = Content(s)
    OBVIOUS
  <2>2. Enters(s, arch, ok, old)
    BY <1>3, <1>4, <2>1, SetEnters DEF Sound
  <2>3. s = Rec(Head(rest)) /\ Head(rest).op = "set"
    BY <1>2 DEF s
  <2> QED BY <1>2, <1>3, <1>5, <1>9, <2>1, <2>2, <2>3, UndoRecord DEF Sound
<1>12. Merged'
  BY <1>2, <1>3, <1>5, <1>10, <1>11, MergedStep DEF Sound
<1> QED BY <1>7, <1>10, <1>12, <1>13 DEF Sound

\* Items are added or removed (_kv_cb_delta_step).
LEMMA SyncDeltaKeeps ==
  ASSUME Sound, SyncDelta
  PROVE  Sound' /\ [Next]_kvVars
<1>1. PICK r \in Records :
        /\ Reads(r) /\ ~IsUnset(r) /\ r.op /= "set"
        /\ WrAllowed(Content(Rec(r)), r.own)
        /\ Set(Rec(r), Val(r, DeltaFinal(Content(Rec(r)), r)), FALSE, TRUE)
        /\ IF DeltaFinal(Content(Rec(r)), r) = {} /\ "RS" \notin r.fl
           THEN at' = "emptied" /\ UNCHANGED rest
           ELSE NextRecord
        /\ UNCHANGED <<todo, failed, crashed, spoiled, before, last, done>>
  BY DEF SyncDelta
<1> DEFINE s == Rec(r)
           final == DeltaFinal(Content(s), r)
           v == Val(r, final)
<1>2. r = Head(rest) /\ rest /= <<>> /\ at = "record" /\ r.op \in {"plus", "minus"} /\ r.op /= "set"
  BY <1>1, RecordFacts DEF Reads
<1>3. /\ phase = "open" /\ Room /\ s \in Slots /\ s[2] = "rec" /\ ~Pending(s) /\ ~Pending(Arc(s))
  BY <1>2, Reading
<1>4. Content(s) = working[s] /\ working[s] \in Values \cup {NULL}
  BY <1>3, ReadsAsked DEF Sound
<1>5. final \in SUBSET Items /\ (r.op = "plus" => final /= {})
  <2>1. r.data \in SUBSET Items /\ r.data /= {} /\ (working[s] /= NULL => working[s].data \in SUBSET Items)
    BY <1>2, <1>4, RecordFacts
  <2> QED BY <1>4, <2>1 DEF DeltaFinal
<1>6. v \in Values /\ v /= NULL /\ v.data = final
  <2>1. v.data = final
    BY DEF Val
  <2> QED BY <1>5, <2>1, RecordFacts
<1>7. Onward /\ at' /= "archive" /\ (at' = "emptied" => final = {})
  BY <1>1, <1>2, <1>5 DEF Onward, NextRecord
<1>7a. Set(s, v, FALSE, TRUE) /\ WrAllowed(Content(s), r.own) /\ v = Val(r, DeltaFinal(working[s], r))
  BY <1>1, <1>4
<1> HIDE DEF s, v, final
<1>8. Next
  <2>1. TouchOK(s, FALSE)
    BY <1>3 DEF TouchOK
  <2> QED BY <1>3, <1>6, <1>7a, <2>1 DEF Next
<1>9. Called(s, v, 1, TRUE)
  <2>1. Called(s, v, IF FALSE THEN 2 ELSE 1, TRUE)
    BY <1>3, <1>6, <1>7a, SetCall DEF Sound
  <2> QED BY <2>1
<1>10. Handles(s, v, 1, TRUE)
  <2> DEFINE ok == TRUE
  <2>1. ok \in BOOLEAN /\ Called(s, v, 1, ok)
    BY <1>9
  <2> HIDE DEF ok
  <2>2. Handles(s, v, 1, ok)
    BY <1>2, <1>3, <1>6, <1>7, <1>7a, <2>1 DEF Handles, s
  <2> QED BY <2>2 DEF ok
<1>11. IndInv' /\ Loop' /\ Removed' /\ Fits' /\ Changes' /\ phase' = "open" /\ committed' = committed
  BY <1>2, <1>7, <1>8, <1>10, CallKeeps
<1>12. Applies(Head(rest))
  <2>1. \A k \in Keys : k /= r.key => working'[<<k, "rec">>] = working[<<k, "rec">>]
    BY <1>9, CalledElsewhere DEF s
  <2>2. working'[s] = v
    BY <1>9 DEF Called
  <2>3. working'[Rec(r)] = Val(r, DeltaFinal(working[Rec(r)], r)) /\ working'[Rec(r)] /= NULL
    BY <1>6, <1>7a, <2>2 DEF s
  <2>4. at' = "emptied" => working'[Rec(r)].data = {}
    BY <1>6, <1>7, <2>2 DEF s
  <2> QED BY <1>2, <2>1, <2>3, <2>4 DEF Applies, Applied
<1>14. Undoable'
  <2>1. PICK old : old = Content(s)
    OBVIOUS
  <2> DEFINE no == FALSE
             ok == TRUE
  <2>2. no \in BOOLEAN /\ ok \in BOOLEAN /\ ~no /\ ok
    OBVIOUS
  <2>3. Set(s, v, no, ok) /\ Handles(s, v, 1, ok)
    BY <1>7a, <1>10
  <2>4. v = Val(Head(rest), DeltaFinal(old, Head(rest)))
    BY <1>2, <1>4, <1>7a, <2>1 DEF s
  <2> HIDE DEF no, ok
  <2>5. Enters(s, no, ok, old)
    BY <1>3, <1>6, <2>1, <2>2, <2>3, SetEnters DEF Sound
  <2>6. s = Rec(Head(rest))
    BY <1>2 DEF s
  <2> QED BY <1>2, <1>3, <1>7, <2>1, <2>2, <2>3, <2>4, <2>5, <2>6, UndoRecord DEF Sound
<1>13. Merged'
  BY <1>2, <1>3, <1>7, <1>11, <1>12, MergedStep DEF Sound
<1> QED BY <1>8, <1>11, <1>13, <1>14 DEF Sound

\* An archive of an earlier change is removed.
LEMMA SyncArchiveKeeps ==
  ASSUME Sound, SyncArchive
  PROVE  Sound' /\ [Next]_kvVars
<1> DEFINE r == Head(rest)
           s == Arc(Rec(r))
           ok == MainOK(Content(s), r)
<1>1. /\ Unset(s, FALSE, ok)
      /\ rest' = Tail(rest) /\ at' = "record" /\ at = "archive"
      /\ UNCHANGED <<todo, failed, crashed, spoiled, before, last, done>>
  BY DEF SyncArchive, NextRecord
<1>2. rest /= <<>> /\ r.op = "set"
  BY <1>1 DEF Sound, Loop
<1>3. /\ phase = "open" /\ Room /\ r \in Records /\ s \in Slots /\ ~Pending(s) /\ ok \in BOOLEAN /\ s /= Rec(r)
  <2>1. Rec(r) \in Slots /\ Rec(r)[2] = "rec"
    BY <1>1, <1>2, Reading
  <2>2. Arc(Rec(r)) /= Rec(r)
    BY <2>1, SlotFacts
  <2> QED BY <1>1, <1>2, <2>2, Reading DEF MainOK
<1>4. Onward
  BY <1>1 DEF Onward
<1> HIDE DEF s, ok, r
<1>5. Next
  <2>1. TouchOK(s, FALSE)
    BY <1>3 DEF TouchOK
  <2> QED BY <1>1, <1>3, <2>1 DEF Next
<1>6. Called(s, NULL, 1, ok)
  BY <1>1, <1>3, UnsetCall DEF Sound
<1>7. Handles(s, NULL, 1, ok)
  BY <1>1, <1>2, <1>3, <1>6 DEF Handles, s, r
<1>8. IndInv' /\ Loop' /\ Removed' /\ Fits' /\ Changes' /\ phase' = "open" /\ committed' = committed
  BY <1>1, <1>2, <1>4, <1>5, <1>7, CallKeeps
<1>9. \A k \in Keys : working'[<<k, "rec">>] = working[<<k, "rec">>]
  <2>1. /\ \A k \in Keys : k /= r.key => working'[<<k, "rec">>] = working[<<k, "rec">>]
        /\ s = Arc(Rec(r)) => working'[Rec(r)] = working[Rec(r)]
    BY <1>3, <1>6, CalledElsewhere DEF s
  <2>2. Rec(r) = <<r.key, "rec">>
    BY DEF Rec
  <2> QED BY <2>1, <2>2 DEF s
<1>10. Handled' = Handled /\ done' = done
  <2>1. Handled' = Handled \cup {Head(rest)}
    BY <1>1, <1>2, <1>4, HandledStep DEF Sound
  <2>2. Head(rest) \in Handled
    BY <1>1, <1>3 DEF Handled, r
  <2> QED BY <1>1, <2>1, <2>2
<1>12. Undoable'
  <2>1. ArchivedUnset' \/ Enters(s, FALSE, FALSE, NULL)
    BY <1>1, <1>3, UnsetEnters DEF Sound
  <2>2. \A t \in Slots : t[1] /= Head(rest).key => working'[t] = working[t]
    <3>1. Rec(r)[1] = r.key /\ Arc(Rec(r))[1] = r.key
      BY <1>3, SlotsOf
    <3> QED BY <1>6, <3>1 DEF Called, s, r
  <2>3. at \in {"archive", "emptied"}
    BY <1>1
  <2> QED BY <1>2, <1>3, <1>4, <2>1, <2>2, <2>3, UndoRest DEF Sound
<1>11. Merged'
  <2>4. Came' = Came
    BY <1>1 DEF Came
  <2>1. Latest(done, Came, committed)' /\ Added(done, committed)'
    BY <1>3, <1>8, <1>10, <2>4 DEF Sound, Merged, Latest, Added, Rec
  <2>2. Latest(done \cup Handled, Came, working)'
    <3> DEFINE D == done \cup Handled
    <3>1. Latest(D, Came, working) /\ D' = D
      BY <1>3, <1>10 DEF Sound, Merged
    <3> HIDE DEF D
    <3>2. Latest(D, Came, working')
      BY <1>9, <3>1 DEF Latest
    <3>3. Latest(D, Came, working)'
      BY <2>4, <3>1, <3>2 DEF Latest
    <3> QED BY <3>3 DEF D
  <2>3. Added(done \cup Handled, working)'
    <3>1. done \cup Handled \subseteq Records
      BY CameFacts DEF Sound
    <3>2. \A q \in done \cup Handled : working'[Rec(q)] = working[Rec(q)]
      BY <1>9, <3>1, RecordFacts
    <3>3. Added(done \cup Handled, working)
      BY <1>3 DEF Sound, Merged
    <3> QED BY <1>10, <3>2, <3>3 DEF Added, Rec
  <2> QED BY <1>1, <1>8, <2>1, <2>2, <2>3 DEF Merged
<1> QED BY <1>5, <1>8, <1>11, <1>12 DEF Sound

\* Nothing is left in a vector: its record goes.
LEMMA SyncEmptiedKeeps ==
  ASSUME Sound, SyncEmptied
  PROVE  Sound' /\ [Next]_kvVars
<1> DEFINE r == Head(rest)
           s == Rec(r)
           ok == MainOK(Content(s), r)
<1>1. /\ Unset(s, FALSE, ok)
      /\ rest' = Tail(rest) /\ at' = "record" /\ at = "emptied"
      /\ UNCHANGED <<todo, failed, crashed, spoiled, before, last, done>>
  BY DEF SyncEmptied, NextRecord
<1>2. rest /= <<>> /\ r.op = "minus"
  BY <1>1 DEF Sound, Loop
<1>3. /\ phase = "open" /\ Room /\ r \in Records /\ s \in Slots /\ ~Pending(s) /\ ok \in BOOLEAN
  BY <1>1, <1>2, Reading DEF MainOK
<1>4. Onward
  BY <1>1 DEF Onward
<1>4a. ok => WrAllowed(Content(s), r.own)
  BY DEF MainOK, WrAllowed
<1> HIDE DEF s, ok, r
<1>5. Next
  <2>1. TouchOK(s, FALSE)
    BY <1>3 DEF TouchOK
  <2> QED BY <1>1, <1>3, <2>1 DEF Next
<1>6. Called(s, NULL, 1, ok)
  BY <1>1, <1>3, UnsetCall DEF Sound
<1>7. Handles(s, NULL, 1, ok)
  BY <1>1, <1>2, <1>3, <1>4a, <1>6 DEF Handles, s, r
<1>8. IndInv' /\ Loop' /\ Removed' /\ Fits' /\ Changes' /\ phase' = "open" /\ committed' = committed
  BY <1>1, <1>2, <1>4, <1>5, <1>7, CallKeeps
<1>9. \A k \in Keys : k /= r.key => working'[<<k, "rec">>] = working[<<k, "rec">>]
  BY <1>3, <1>6, CalledElsewhere DEF s
<1> DEFINE D == done \cup Handled
<1>10. Handled' = Handled /\ done' = done /\ r \in D /\ D \in SUBSET Records /\ D \in SUBSET Came /\ Came' = Came
  <2>1. Handled' = Handled \cup {Head(rest)}
    BY <1>1, <1>2, <1>4, HandledStep DEF Sound
  <2>2. Head(rest) \in Handled
    BY <1>1, <1>3 DEF Handled, r
  <2>3. D \in SUBSET Records /\ D \in SUBSET Came
    BY CameFacts DEF Sound
  <2>4. Came' = Came
    BY <1>1 DEF Came
  <2> QED BY <1>1, <2>1, <2>2, <2>3, <2>4 DEF r
<1>11. Latest(D, Came, working) /\ Added(D, working) /\ working[Rec(r)].data = {}
  BY <1>1, <1>3 DEF Sound, Merged, r
<1>12. Latest(D, Came, working')
  <2>1. ASSUME NEW k \in Keys, k /= r.key
        PROVE  LET mine == {q \in D : q.key = k}
               IN Steady({q \in Came : q.key = k}) =>
                     /\ mine = {} => working'[<<k, "rec">>] = NULL
                     /\ mine /= {} =>
                           \E q \in mine : /\ working'[<<k, "rec">>] = Val(q, q.data)
                                           /\ \A p \in mine : p.seq <= q.seq
    <3> HIDE DEF D
    <3> QED BY <1>9, <1>11, <2>1 DEF Latest
  <2>2. \A k \in Keys : k = r.key => ~Steady({q \in Came : q.key = k})
    <3> HIDE DEF D
    <3> QED BY <1>2, <1>10 DEF Steady
  <2> HIDE DEF D
  <2> QED BY <2>1, <2>2 DEF Latest
<1>13. Added(D, working')
  <2> HIDE DEF D
  <2> SUFFICES ASSUME NEW q \in D, NEW x \in q.data, q.op = "plus",
                      \A p \in D : p.key = q.key => p.op = "plus" \/ (p.op = "minus" /\ x \notin p.data)
               PROVE  working'[Rec(q)] /= NULL /\ x \in working'[Rec(q)].data
    BY DEF Added
  <2>1. working[Rec(q)] /= NULL /\ x \in working[Rec(q)].data
    BY <1>11 DEF Added
  <2>2. q.key \in Keys /\ Rec(q) = <<q.key, "rec">> /\ Rec(r) = <<r.key, "rec">>
    BY <1>3, <1>10, RecordFacts
  <2>3. q.key /= r.key
    BY <1>11, <2>1, <2>2
  <2> QED BY <1>9, <2>1, <2>2, <2>3
<1>15. Undoable'
  <2>1. ArchivedUnset' \/ Enters(s, FALSE, FALSE, NULL)
    BY <1>1, <1>3, UnsetEnters DEF Sound
  <2>2. \A t \in Slots : t[1] /= Head(rest).key => working'[t] = working[t]
    <3>1. Rec(r)[1] = r.key /\ Arc(Rec(r))[1] = r.key
      BY <1>3, SlotsOf
    <3> QED BY <1>6, <3>1 DEF Called, s, r
  <2>3. at \in {"archive", "emptied"}
    BY <1>1
  <2> QED BY <1>2, <1>3, <1>4, <2>1, <2>2, <2>3, UndoRest DEF Sound
<1>14. Merged'
  <2>1. Latest(done, Came, committed)' /\ Added(done, committed)'
    BY <1>3, <1>8, <1>10 DEF Sound, Merged, Latest, Added, Rec
  <2>2. Latest(done \cup Handled, Came, working)' /\ Added(done \cup Handled, working)'
    BY <1>10, <1>12, <1>13 DEF Latest, Added, Rec
  <2> QED BY <1>1, <1>8, <2>1, <2>2 DEF Merged
<1> QED BY <1>5, <1>8, <1>14, <1>15 DEF Sound

-----------------------------------------------------------------------------
(***************************************************************************)
(* The beginning of a sync, and its end.                                   *)
(***************************************************************************)

\* An export arrives: what the main store holds is what was asked for.
LEMMA SyncBeginKeeps ==
  ASSUME Sound, NEW e \in Exports, SyncBegin(e)
  PROVE  Sound' /\ [Next]_kvVars
<1>1. /\ at = "idle" /\ e \in todo /\ TransactionBegin /\ todo' = todo \ {e} /\ at' = "record" /\ rest' = e
      /\ before' = Contents /\ last' = e /\ UNCHANGED <<failed, crashed, done>>
  BY DEF SyncBegin
<1>2. Next
  BY <1>1 DEF Next
<1>3. IndInv'
  BY <1>2, NextInd DEF Sound
<1>4. /\ phase = "none" /\ phase' = "open" /\ unsetBuf = <<>> /\ rollbackBuf = <<>> /\ unsetBuf' = <<>> /\ rollbackBuf' = <<>>
      /\ committed = working /\ committed' = committed /\ working' = working /\ MayCommit /\ Types
  BY <1>1 DEF TransactionBegin, Sound, IndInv, Stages
<1>5. Settled
  BY <1>4, SettledBefore
<1>6. /\ working \in [Slots -> Values \cup {NULL}]
      /\ \A s \in Slots : working[s] = Content(s)
  BY <1>4, <1>5 DEF Types, Settled
<1>7. before' = working
  BY <1>1, <1>6 DEF Contents
<1>8. e \in Seq(Records) /\ Len(e) \in Nat /\ Gone' = 0
  <2>1. e \in Seq(Records)
    BY ExportsAssumption
  <2>2. Len(e) \in Nat
    BY <2>1
  <2>3. Gone' = Len(e) - Len(e)
    BY <1>1 DEF Gone
  <2> QED BY <2>1, <2>2, <2>3
<1>9. Loop'
  <2>1. Came \subseteq Came'
    BY <1>1 DEF Came, Sound, Loop
  <2>2. e \in Exports \ todo'
    BY <1>1
  <2> QED BY <1>1, <1>4, <1>6, <1>7, <1>8, <2>1, <2>2 DEF Loop, Sound
<1>10. Removed'
  BY <1>4 DEF Removed, Pending
<1>11. Fits'
  <2>1. at' \notin {"archive", "emptied"}
    BY <1>1
  <2>2. Len(unsetBuf') + Len(rollbackBuf') = 0
    BY <1>4
  <2> QED BY <1>8, <2>1, <2>2 DEF Fits
<1>12. Changes'
  BY <1>1, <1>4, <1>7 DEF Changes
<1>14. Undoable'
  <2>1. \A s \in Slots : Replacements(s)' = {}
    BY <1>4 DEF Replacements
  <2>2. Past' = 0
    BY <1>1, <1>8 DEF Past
  <2>3. \A s \in Slots : working'[s] = before'[s]
    BY <1>4, <1>7
  <2> QED BY <2>1, <2>2, <2>3 DEF Undoable, Once, OnlyAdded
<1>13. Merged'
  <2>1. Latest(done, Came, working) /\ Added(done, working)
    BY <1>4 DEF Sound, Merged
  <2>6. Came \subseteq Came'
    BY <1>1 DEF Came, Sound, Loop
  <2>7. Latest(done, Came', working)
    <3>1. \A k \in Keys : Steady({q \in Came' : q.key = k}) => Steady({q \in Came : q.key = k})
      BY <2>6 DEF Steady
    <3> QED BY <2>1, <3>1 DEF Latest
  <2>2. Handled' = {}
    BY <1>1, <1>8 DEF Handled
  <2>3. (done \cup Handled)' = done /\ done' = done
    BY <1>1, <2>2
  <2>4. Latest(done, Came, committed)' /\ Added(done, committed)'
    BY <1>1, <1>4, <2>1, <2>7 DEF Latest, Added, Rec
  <2>5. Latest(done \cup Handled, Came, working)' /\ Added(done \cup Handled, working)'
    BY <1>4, <2>1, <2>3, <2>7 DEF Latest, Added, Rec
  <2> QED BY <1>1, <1>4, <2>4, <2>5 DEF Merged
<1> QED BY <1>2, <1>3, <1>9, <1>10, <1>11, <1>12, <1>13, <1>14 DEF Sound

\* The export is read to its end: its records are all done.
LEMMA SyncDoneKeeps ==
  ASSUME Sound, SyncDone
  PROVE  Sound' /\ [Next]_kvVars
<1>1. /\ at = "record" /\ rest = <<>> /\ TransactionEnd(FALSE) /\ at' = "ending" /\ ~failed'
      /\ done' = done \cup {last[i] : i \in 1..Len(last)}
      /\ UNCHANGED <<todo, rest, custom, crashed, spoiled, before, last>>
  BY DEF SyncDone
<1>2. Next
  BY <1>1 DEF Next
<1>3. IndInv'
  BY <1>2, NextInd DEF Sound
<1>4. phase = "open" /\ phase' = "unsets" /\ working' = working /\ committed' = committed
  BY <1>1 DEF TransactionEnd
<1>5. last \in Seq(Records) /\ Len(last) \in Nat /\ Gone = Len(last) /\ Gone' = Gone
  BY <1>1 DEF Sound, Loop, Gone
<1>6. {last[i] : i \in 1..Len(last)} = Handled /\ done' \subseteq Came' /\ Came' = Came
  <2>1. \A i \in 1..Len(last) : last[i] \in Records
    BY <1>5
  <2>2. \A r \in Records : r \in Handled <=> \E i \in 1..Len(last) : r = last[i]
    BY <1>1, <1>5 DEF Handled
  <2>3. {last[i] : i \in 1..Len(last)} = Handled
    BY <2>1, <2>2 DEF Handled
  <2>4. Came' = Came /\ done \in SUBSET Came /\ Handled \in SUBSET Came
    BY <1>1, CameFacts DEF Sound, Came
  <2> QED BY <1>1, <2>3, <2>4
<1>7. Loop'
  BY <1>1, <1>4, <1>5, <1>6 DEF Loop, Sound
<1>8. Removed' /\ Fits' /\ Undoable'
  BY <1>4 DEF Removed, Fits, Undoable
<1>9. Changes'
  <2>1. \A s \in Slots : Justified(s)' <=> Justified(s)
    BY <1>1 DEF Justified
  <2> QED BY <1>1, <1>4, <2>1 DEF Changes, Sound
<1>10. Merged'
  <2>1. Latest(done \cup Handled, Came, working) /\ Added(done \cup Handled, working)
    BY <1>4 DEF Sound, Merged
  <2>2. done' = done \cup Handled
    BY <1>1, <1>6
  <2> DEFINE D == done \cup Handled
  <2> HIDE DEF D
  <2>3. Latest(D, Came, working) /\ Added(D, working) /\ done' = D
    BY <2>1, <2>2 DEF D
  <2>4. Latest(done, Came, working)' /\ Added(done, working)'
    BY <1>4, <1>6, <2>3 DEF Latest, Added, Rec
  <2> QED BY <1>1, <1>4, <2>4 DEF Merged
<1> QED BY <1>2, <1>3, <1>7, <1>8, <1>9, <1>10 DEF Sound

\* The sync gives up: a record is to have again what its last entry has, which is what it was,
\* unless the record was added to first.
LEMMA SyncFailsKeeps ==
  ASSUME Sound, SyncFails, ~spoiled'
  PROVE  Sound' /\ [Next]_kvVars
<1>1. /\ at \in {"record", "archive"} /\ rest /= <<>> /\ TransactionEnd(TRUE) /\ at' = "ending"
      /\ rest' = <<>> /\ UNCHANGED <<todo, custom, crashed, before, last, done>>
  BY DEF SyncFails
<1>2. ~ArchivedUnset
  BY DEF SyncFails
<1>3. /\ phase = "open" /\ phase' = "unsets" /\ working' = [s \in Slots |-> Restored(s)]
      /\ committed' = committed /\ Len(rollbackBuf) \in Nat /\ committed = before /\ IndInv
  BY <1>1 DEF TransactionEnd, Sound, Changes, IndInv, Types
<1>4. \A s \in Slots : (Once(s) \/ Twice(s)) /\ (Replacements(s) /= {} => Justified(s))
  BY <1>2, <1>3 DEF Sound, Undoable
<1>5. RollbackOK
  <2> SUFFICES ASSUME NEW i \in 1..Len(rollbackBuf), NEW j \in 1..Len(rollbackBuf),
                      i /= j, rollbackBuf[i].slot = rollbackBuf[j].slot
               PROVE  ~rollbackBuf[i].has /\ ~rollbackBuf[i].is
    BY <1>2 DEF RollbackOK, ArchivedTwice
  <2>1. PICK s \in Slots : s = rollbackBuf[i].slot
    BY <1>3, Entries DEF IndInv, Replaced
  <2>2. i \in Replacements(s) /\ j \in Replacements(s)
    BY <2>1 DEF Replacements
  <2>3. Twice(s)
    BY <1>4, <2>2 DEF Once
  <2> QED BY <2>2, <2>3 DEF Twice, Plain
<1>6. Next
  BY <1>1, <1>5 DEF Next
<1>7. IndInv'
  BY <1>3, <1>6, NextInd
<1>8. Entered /\ Began
  BY <1>3, <1>5 DEF IndInv, Stages, MayRollback
<1>9. ASSUME NEW s \in Slots, working'[s] /= before[s]
      PROVE  Replacements(s) /= {} /\ HalfDone(s, working'[s])
  <2>1. working'[s] = Restored(s)
    BY <1>3
  <2>2. committed[s] /= NULL /\ \E i, j \in Replacements(s) : i /= j
    BY <1>3, <1>9, <2>1 DEF Restored
  <2>3. PICK m \in Replacements(s) : \A k \in Replacements(s) : k <= m
    BY <1>8, <2>2 DEF Began
  <2>4. Max(Replacements(s)) = m
    <3>1. \A k \in Replacements(s) : k \in Nat
      BY <1>3 DEF Replacements
    <3>2. \A k \in Replacements(s) : (\A l \in Replacements(s) : l <= k) => k = m
      BY <2>3, <3>1
    <3> QED BY <2>3, <3>2 DEF Max
  <2>5. rollbackBuf[m].cell /= NULL
    <3>1. PICK i \in Replacements(s) : i /= m
      BY <2>2
    <3>2. i \in Replaced /\ m \in Replaced /\ i < m /\ rollbackBuf[i].slot = rollbackBuf[m].slot
      BY <1>3, <2>3, <3>1 DEF Replacements, Replaced
    <3> QED BY <1>8, <3>2 DEF Entered
  <2>6. working'[s] = ValueOf(rollbackBuf[m].cell)
    BY <2>1, <2>2, <2>4, <2>5 DEF Restored, ValueOf
  <2>7. Twice(s)
    BY <1>4, <2>2 DEF Once
  <2> QED BY <1>3, <2>2, <2>3, <2>6, <2>7 DEF Twice
<1>10. Loop'
  <2>1. rest' \in Seq(Records) /\ Len(rest') = 0
    BY <1>1
  <2>2. Came' = Came /\ last' \in Seq(Records) /\ Len(last') \in Nat
    BY <1>1 DEF Came, Sound, Loop
  <2> QED BY <1>1, <1>3, <2>1, <2>2 DEF Loop, Sound
<1>11. Removed' /\ Fits' /\ Undoable'
  BY <1>3 DEF Removed, Fits, Undoable
<1>12. Changes'
  <2>1. ASSUME NEW s \in Slots
        PROVE  (working[s] = before[s] \/ HalfDone(s, working[s]))'
    <3>1. CASE working'[s] = before[s]
      BY <1>1, <3>1
    <3>2. CASE working'[s] /= before[s]
      BY <1>1, <1>9, <3>2 DEF HalfDone, Rec
    <3> QED BY <3>1, <3>2
  <2>2. ASSUME NEW s \in Slots, working'[s] /= before'[s]
        PROVE  Justified(s)'
    <3>1. Justified(s)
      BY <1>1, <1>4, <1>9, <2>2
    <3> QED BY <1>1, <3>1 DEF Justified
  <2> QED BY <1>3, <2>1, <2>2 DEF Changes
<1>13. Merged'
  <2>1. Latest(done, Came, before) /\ Added(done, before) /\ Came' = Came /\ done' = done
    BY <1>1, <1>3 DEF Sound, Merged, Came
  <2>2. \A i \in 1..Len(last) : last[i] \in Came
    BY CameFacts DEF Sound
  <2>3. Latest(done, Came, working')
    <3>1. ASSUME NEW k \in Keys, Steady({q \in Came : q.key = k})
          PROVE  working'[<<k, "rec">>] = before[<<k, "rec">>]
      <4> SUFFICES ASSUME working'[<<k, "rec">>] /= before[<<k, "rec">>] PROVE FALSE
        OBVIOUS
      <4>1. <<k, "rec">> \in Slots
        BY DEF Slots
      <4>2. PICK i \in 1..Len(last) : last[i].op = "plus" /\ Rec(last[i]) = <<k, "rec">>
        BY <1>9, <4>1 DEF HalfDone
      <4>3. last[i].key = k
        BY <4>2 DEF Rec
      <4> QED BY <2>2, <3>1, <4>2, <4>3 DEF Steady
    <3> QED BY <2>1, <3>1 DEF Latest
  <2>4. Added(done, working')
    <3> SUFFICES ASSUME NEW r \in done, NEW x \in r.data, r.op = "plus",
                        \A q \in done : q.key = r.key => q.op = "plus" \/ (q.op = "minus" /\ x \notin q.data)
                 PROVE  working'[Rec(r)] /= NULL /\ x \in working'[Rec(r)].data
      BY DEF Added
    <3>1. before[Rec(r)] /= NULL /\ x \in before[Rec(r)].data
      BY <2>1 DEF Added
    <3>2. Rec(r) \in Slots
      <4>1. r \in Records
        BY CameFacts DEF Sound
      <4> QED BY <4>1, RecordFacts
    <3>3. CASE working'[Rec(r)] = before[Rec(r)]
      BY <3>1, <3>3
    <3>4. CASE working'[Rec(r)] /= before[Rec(r)]
      <4>1. PICK i \in 1..Len(last) : working'[Rec(r)] = Val(last[i], before[Rec(r)].data \cup last[i].data)
        BY <1>9, <3>2, <3>4 DEF HalfDone
      <4>2. last[i] \in Records /\ last[i].data \in SUBSET Items
        BY <2>2, CameFacts, RecordFacts
      <4>3. before[Rec(r)].data \in SUBSET Items
        <5>1. before[Rec(r)] \in Values
          BY <3>1, <3>2 DEF Sound, Loop
        <5> QED BY <5>1, RecordFacts
      <4>4. working'[Rec(r)] /= NULL
        <5>1. before[Rec(r)].data \cup last[i].data \in SUBSET Items
          BY <4>2, <4>3
        <5> QED BY <4>1, <4>2, <5>1, RecordFacts
      <4>5. working'[Rec(r)].data = before[Rec(r)].data \cup last[i].data
        BY <4>1 DEF Val
      <4> QED BY <3>1, <4>4, <4>5
    <3> QED BY <3>3, <3>4
  <2>5. Latest(done, Came, working)' /\ Added(done, working)'
    BY <2>1, <2>3, <2>4 DEF Latest, Added, Rec
  <2> QED BY <1>1, <1>3, <2>5 DEF Merged
<1> QED BY <1>6, <1>7, <1>10, <1>11, <1>12, <1>13 DEF Sound

\* The loops of sid_kvs_transaction_end.
LEMMA SyncEndKeeps ==
  ASSUME Sound, SyncEnd
  PROVE  Sound' /\ [Next]_kvVars
<1>1. /\ at = "ending" /\ EndStep /\ at' = (IF phase' = "none" THEN "idle" ELSE at)
      /\ UNCHANGED <<todo, rest, custom, failed, crashed, spoiled, before, last, done>>
  BY DEF SyncEnd
<1>2. Next
  BY <1>1 DEF Next
<1>3. IndInv'
  BY <1>2, NextInd DEF Sound
<1>4. phase \in {"unsets", "rollbacks"} /\ phase' \in {"unsets", "rollbacks", "none"}
      /\ working' = working
  BY <1>1 DEF EndStep, EndUnset, EndUnsetDone, EndRollback, EndRollbackDone
<1>5. Gone' = Gone
  BY <1>1 DEF Gone
<1>6. Loop'
  <2>1. Came' = Came
    BY <1>1 DEF Came
  <2> QED BY <1>1, <1>4, <1>5, <2>1 DEF Loop, Sound
<1>7. Removed' /\ Fits' /\ Undoable'
  BY <1>4 DEF Removed, Fits, Undoable
<1>8. Changes'
  <2>1. \A s \in Slots : Justified(s)' <=> Justified(s)
    BY <1>1 DEF Justified
  <2>2. \A s \in Slots : HalfDone(s, working[s])' <=> HalfDone(s, working[s])
    BY <1>1, <1>4 DEF HalfDone, Rec
  <2> QED BY <1>1, <1>4, <2>1, <2>2 DEF Changes, Sound
<1>9. Merged'
  <2>1. Latest(done, Came, working) /\ Added(done, working) /\ Came' = Came
    BY <1>1, <1>4 DEF Sound, Merged, Came
  <2>2. Latest(done, Came, working)' /\ Added(done, working)'
    BY <1>1, <1>4, <2>1 DEF Latest, Added, Rec
  <2> QED BY <1>1, <1>4, <2>2 DEF Merged
<1> QED BY <1>2, <1>3, <1>6, <1>7, <1>8, <1>9 DEF Sound

\* A crash of the main process, or no step at all.
LEMMA SyncStutterKeeps ==
  ASSUME Sound, UNCHANGED <<kvVars, todo, at, rest, custom, failed, before, last, done>>
  PROVE  Sound' /\ [Next]_kvVars
<1>1. /\ UNCHANGED kvVars /\ UNCHANGED <<phase, unsetBuf, rollbackBuf, committed, working>>
      /\ UNCHANGED <<todo, at, rest, failed, before, last, done>>
  BY DEF kvVars
<1>2. IndInv'
  BY <1>1, StutterKeeps DEF Sound
<1>5. UNCHANGED heap /\ Came' = Came /\ Past' = Past /\ Gone' = Gone
  BY <1>1 DEF kvVars, Came, Past, Gone
<1>6. Loop'
  BY <1>1, <1>5 DEF Sound, Loop
<1>7. Removed' /\ Fits'
  BY <1>1, <1>5 DEF Sound, Removed, Fits, Pending, Rec
<1>8. Changes'
  <2>1. \A s \in Slots : HalfDone(s, working[s])' <=> HalfDone(s, working[s])
    BY <1>1 DEF HalfDone, Rec
  <2>2. \A s \in Slots : Justified(s)' <=> Justified(s)
    BY <1>1 DEF Justified
  <2> QED BY <1>1, <2>1, <2>2 DEF Sound, Changes
<1>9. Undoable'
  <2>1. ArchivedUnset' <=> ArchivedUnset
    BY <1>1 DEF ArchivedUnset
  <2> SUFFICES ASSUME ~ArchivedUnset, phase = "open", NEW s \in Slots
               PROVE  /\ ~Met(s[1])' => Replacements(s)' = {} /\ working'[s] = before'[s]
                      /\ Replacements(s)' /= {} => Justified(s)'
                      /\ Once(s)' \/ Twice(s)'
                      /\ OnlyAdded(s)'
    BY <1>1, <2>1 DEF Undoable
  <2>2. /\ Replacements(s)' = Replacements(s)
        /\ \A i \in Replacements(s) : /\ rollbackBuf'[i] = rollbackBuf[i]
                                      /\ ValueOf(rollbackBuf[i].cell)' = ValueOf(rollbackBuf[i].cell)
    BY <1>1, <1>5 DEF Replacements, ValueOf
  <2>3. /\ Justified(s)' <=> Justified(s)
        /\ Once(s)' <=> Once(s)
        /\ Plain(s) => Plain(s)'
        /\ Twice(s) => Twice(s)'
    BY <1>1, <2>2, UndoElsewhere
  <2>4. Met(s[1])' <=> Met(s[1])
    BY <1>1, <1>5 DEF Met
  <2>5. /\ ~Met(s[1]) => Replacements(s) = {} /\ working[s] = before[s]
        /\ Replacements(s) /= {} => Justified(s)
        /\ Once(s) \/ Twice(s)
        /\ OnlyAdded(s)
    BY DEF Sound, Undoable
  <2>6. OnlyAdded(s)'
    BY <1>1, <1>5, <2>3, <2>5 DEF OnlyAdded, Rec
  <2> QED BY <1>1, <2>2, <2>3, <2>4, <2>5, <2>6
<1>4. Merged'
  <2>1. Handled' = Handled
    BY <1>1 DEF Handled, Gone
  <2> QED BY <1>1, <1>5, <2>1 DEF Sound, Merged, Latest, Added, Rec
<1> QED BY <1>1, <1>2, <1>4, <1>6, <1>7, <1>8, <1>9 DEF Sound

-----------------------------------------------------------------------------
(***************************************************************************)
(* The theorems.                                                           *)
(***************************************************************************)

\* No export has come.
LEMMA SyncInitInd == SyncInit => SyncInd
<1> SUFFICES ASSUME SyncInit PROVE Sound
  BY DEF SyncInd
<1>1. /\ Init /\ todo = Exports /\ at = "idle" /\ rest = <<>> /\ ~failed /\ before = Contents /\ last = <<>> /\ done = {}
  BY DEF SyncInit
<1>2. IndInv /\ Types /\ phase = "none" /\ unsetBuf = <<>> /\ rollbackBuf = <<>>
      /\ committed = [s \in Slots |-> NULL] /\ working = [s \in Slots |-> NULL]
      /\ store = [s \in Slots |-> NULL]
  BY <1>1, InitInd DEF Init, IndInv
<1>3. before = working /\ before \in [Slots -> Values \cup {NULL}]
  BY <1>1, <1>2 DEF Contents, Content
<1>4. Loop
  BY <1>1, <1>2, <1>3 DEF Loop
<1>5. Removed /\ Fits /\ Undoable
  BY <1>2 DEF Removed, Fits, Undoable
<1>6. Changes
  BY <1>1, <1>2, <1>3 DEF Changes
<1>7. Merged
  <2>1. \A k \in Keys : <<k, "rec">> \in Slots
    BY DEF Slots
  <2>2. Latest(done, Came, working)
    BY <1>1, <1>2, <2>1 DEF Latest
  <2>3. Added(done, working)
    BY <1>1 DEF Added
  <2> QED BY <1>1, <1>2, <2>2, <2>3 DEF Merged
<1> QED BY <1>2, <1>4, <1>5, <1>6, <1>7 DEF Sound

\* Every step of the sync keeps the invariant, and is a step of the store or none, unless it is
\* the one that spoils the store.
LEMMA SyncNextSound ==
  ASSUME Sound, [SyncNext]_vars, ~spoiled'
  PROVE  Sound' /\ [Next]_kvVars
<1>1. CASE \E e \in Exports : SyncBegin(e)
  BY <1>1, SyncBeginKeeps
<1>2. CASE SyncUnset
  BY <1>2, SyncUnsetKeeps
<1>3. CASE SyncSet
  BY <1>3, SyncSetKeeps
<1>4. CASE SyncArchive
  BY <1>4, SyncArchiveKeeps
<1>5. CASE SyncDelta
  BY <1>5, SyncDeltaKeeps
<1>6. CASE SyncDeltaCrash
  <2>1. UNCHANGED <<kvVars, todo, at, rest, custom, failed, before, last, done>>
    BY <1>6 DEF SyncDeltaCrash
  <2> QED BY <2>1, SyncStutterKeeps
<1>7. CASE SyncEmptied
  BY <1>7, SyncEmptiedKeeps
<1>8. CASE SyncDone
  BY <1>8, SyncDoneKeeps
<1>9. CASE SyncFails
  BY <1>9, SyncFailsKeeps
<1>10. CASE SyncEnd
  BY <1>10, SyncEndKeeps
<1>11. CASE UNCHANGED vars
  <2>1. UNCHANGED <<kvVars, todo, at, rest, custom, failed, before, last, done>>
    BY <1>11 DEF vars, syncVars
  <2> QED BY <2>1, SyncStutterKeeps
<1> QED BY <1>1, <1>2, <1>3, <1>4, <1>5, <1>6, <1>7, <1>8, <1>9, <1>10, <1>11 DEF SyncNext

\* Once spoiled, the store is not spoken of any more.
LEMMA SyncNextInd ==
  ASSUME SyncInd, [SyncNext]_vars
  PROVE  SyncInd' /\ (~spoiled' => [Next]_kvVars)
<1>1. spoiled => spoiled'
  BY DEF SyncNext, SyncBegin, SyncUnset, SyncSet, SyncArchive, SyncDelta, SyncDeltaCrash, SyncEmptied,
         SyncDone, SyncFails, SyncEnd, vars, syncVars
<1>2. CASE spoiled'
  BY <1>2 DEF SyncInd
<1>3. CASE ~spoiled'
  <2>1. Sound
    BY <1>1, <1>3 DEF SyncInd
  <2> QED BY <1>3, <2>1, SyncNextSound DEF SyncInd
<1> QED BY <1>2, <1>3

\* Whatever exports come in whatever order, and whichever of them are given up: a rollback leaves
\* of a record what it was, or what the record was added to (HalfDone).
THEOREM SyncInvariance == SyncSpec => []SyncInd
<1>1. SyncInd /\ [SyncNext]_vars => SyncInd'
  BY SyncNextInd
<1> QED BY <1>1, SyncInitInd, PTL DEF SyncSpec

\* The merge keeps to what the key-value store asks of its callers, rollbacks included: every step
\* of the sync is a call, or a loop iteration, of the store (_sync_main_kv_store on sid_kvs_*),
\* until a sync gives up that had removed a record into its archive.
THEOREM StoreRefinement == SyncSpec => RefinesStore
<1>1. SyncInit => Init
  BY DEF SyncInit
<1>2. SyncInd /\ [SyncNext]_vars => [~spoiled' => Next]_kvVars
  BY SyncNextInd
<1> QED BY <1>1, <1>2, SyncInvariance, PTL DEF SyncSpec, RefinesStore

\* Between syncs the main store holds what was asked for.
LEMMA IdleFacts ==
  ASSUME Sound, Idle
  PROVE  /\ \A s \in Slots : Content(s) = working[s]
         /\ phase = "none"
<1>1. phase = "none"
  BY DEF Sound, Loop, Idle
<1>2. unsetBuf = <<>> /\ rollbackBuf = <<>> /\ MayCommit
  BY <1>1 DEF Sound, IndInv, Stages
<1> QED BY <1>1, <1>2, SettledBefore DEF Settled

\* So the main store frees nothing twice, keeps no pointer to what is freed, and between syncs
\* nothing leaks and no two records share a value, until then.
THEOREM MainStoreSafe == SyncSpec => [](~spoiled => HeapSafe /\ OneOwner)
<1>1. SyncInd => (~spoiled => HeapSafe /\ OneOwner)
  <2> SUFFICES ASSUME Sound PROVE HeapSafe /\ OneOwner
    BY DEF SyncInd
  <2> QED BY IndSafe, IndOwner DEF Sound
<1> QED BY <1>1, SyncInvariance, PTL

\* A sync changes a module's record only for an owner that may write it (_check_kv_wr_allowed).
THEOREM WritesAllowed == SyncSpec => []OnlyAllowedWrites
<1>1. SyncInd => OnlyAllowedWrites
  <2> SUFFICES ASSUME Sound, Idle, NEW s \in Slots, Content(s) /= before[s]
               PROVE  Justified(s)
    BY DEF OnlyAllowedWrites, SyncInd, Justified
  <2> QED BY IdleFacts DEF Sound, Changes
<1> QED BY <1>1, SyncInvariance, PTL

\* Exports may come late and fail: of the records that set a key the newest that was merged stays
\* (_kv_cb_main_set).
THEOREM NewestStays == SyncSpec => []LatestWins
<1>1. SyncInd => LatestWins
  <2> SUFFICES ASSUME Sound, Idle PROVE LatestWins
    BY DEF LatestWins, SyncInd
  <2>1. Latest(done, Came, working) /\ \A k \in Keys : Content(<<k, "rec">>) = working[<<k, "rec">>]
    <3>1. \A k \in Keys : <<k, "rec">> \in Slots
      BY DEF Slots
    <3> QED BY <3>1, IdleFacts DEF Sound, Merged
  <2> QED BY <2>1 DEF LatestWins, Latest, Steady
<1> QED BY <1>1, SyncInvariance, PTL

\* No item that a worker added, and none removed, is lost (_delta_step_calc).
THEOREM NoAddLost == SyncSpec => []AddedStays
<1>1. SyncInd => AddedStays
  <2> SUFFICES ASSUME Sound, Idle PROVE AddedStays
    BY DEF AddedStays, SyncInd
  <2>1. Added(done, working) /\ \A r \in done : Content(Rec(r)) = working[Rec(r)]
    <3>1. \A r \in done : Rec(r) \in Slots
      BY CameFacts, RecordFacts DEF Sound
    <3> QED BY <3>1, IdleFacts DEF Sound, Merged
  <2> QED BY <2>1 DEF AddedStays, Added
<1> QED BY <1>1, SyncInvariance, PTL

\* A sync that gives up leaves every archive, and every record but a vector that its export adds
\* items to and removes items from, as it found them (sid_kvs_transaction_end with rollback).
THEOREM FailedSyncIsUndone == SyncSpec => []FailedSyncUndone
<1>1. SyncInd => FailedSyncUndone
  <2> SUFFICES ASSUME Sound, Idle, failed, NEW s \in Slots
               PROVE  Content(s) = before[s] \/ HalfDone(s, Content(s))
    BY DEF FailedSyncUndone, SyncInd, HalfDone
  <2>1. working[s] = before[s] \/ HalfDone(s, working[s])
    BY DEF Sound, Changes, Idle
  <2>2. Content(s) = working[s]
    BY IdleFacts
  <2> QED BY <2>1, <2>2 DEF HalfDone
<1> QED BY <1>1, SyncInvariance, PTL
=============================================================================
