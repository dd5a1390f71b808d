---------------------------- MODULE KVStoreProofs ----------------------------
(***************************************************************************)
(* The properties of KVStore for any keys, values and heap and for         *)
(* transactions of any length, for callers that keep to what the code asks *)
(* of them (TouchOK, RollbackOK).                                          *)
(*                                                                         *)
(* Two views of the heap are kept side by side.  As long as a transaction  *)
(* may be committed, every value has one owner: the record that holds it,  *)
(* or the entry of the rollback buffer that will free it.  As long as it   *)
(* may be rolled back, it is every entry that owns the value it has kept,  *)
(* the archives only borrow theirs, and the first and the last entry of a  *)
(* record tell what the rollback will leave of it.                         *)
(***************************************************************************)
EXTENDS KVStore, TLAPS

UnsetArgs == [slot : Slots, has : BOOLEAN]
RollbackArgs == [slot : Slots, cell : Cells \cup {NULL}, has : BOOLEAN, is : BOOLEAN]

Types ==
    /\ store \in [Slots -> Cells \cup {NULL}]
    /\ heap \in [Cells -> Values \cup {NULL}]
    /\ phase \in {"none", "open", "unsets", "rollbacks"}
    /\ undo \in BOOLEAN
    /\ unsetBuf \in Seq(UnsetArgs)
    /\ rollbackBuf \in Seq(RollbackArgs)
    /\ committed \in [Slots -> Values \cup {NULL}]
    /\ working \in [Slots -> Values \cup {NULL}]

Unsets == 1..Len(unsetBuf)
Replaced == 1..Len(rollbackBuf)

\* The record is to be removed, and its archive has its value.
Leaving(s) == \E i \in Unsets : unsetBuf[i].slot = s /\ unsetBuf[i].has

\* What is left of a transaction: the buffers are used up in order.
Stages ==
    /\ phase = "none" => unsetBuf = <<>> /\ rollbackBuf = <<>>
    /\ phase \in {"none", "open"} => ~undo
    /\ phase = "rollbacks" => unsetBuf = <<>>
    /\ phase = "none" => committed = working

\* The records whose removal is pending: each once, an archive after its record.
Removals ==
    /\ \A i \in Unsets : unsetBuf[i].has => unsetBuf[i].slot[2] = "rec"
    /\ \A i, j \in Unsets : unsetBuf[i].slot = unsetBuf[j].slot => i = j
    /\ \A i, j \in Unsets : unsetBuf[i].has /\ unsetBuf[j].slot = Arc(unsetBuf[i].slot) => i < j

\* No two owners have the same value.
Apart ==
    /\ \A s, t \in Slots :
          s /= t /\ ~Leaving(s) /\ ~Leaving(t) /\ store[s] /= NULL => store[s] /= store[t]
    /\ \A s \in Slots, i \in Replaced :
          ~Leaving(s) /\ ~rollbackBuf[i].has /\ store[s] /= NULL => store[s] /= rollbackBuf[i].cell
    /\ \A i, j \in Replaced :
          i /= j /\ ~rollbackBuf[i].has /\ ~rollbackBuf[j].has /\ rollbackBuf[i].cell /= NULL
             => rollbackBuf[i].cell /= rollbackBuf[j].cell

\* What an owner has is allocated, and what is allocated has an owner.
Owned ==
    /\ \A s \in Slots : ~Leaving(s) /\ store[s] /= NULL => heap[store[s]] /= NULL
    /\ \A i \in Replaced :
          ~rollbackBuf[i].has /\ rollbackBuf[i].cell /= NULL => heap[rollbackBuf[i].cell] /= NULL
    /\ \A c \in Cells : heap[c] /= NULL =>
          \/ \E s \in Slots : ~Leaving(s) /\ store[s] = c
          \/ \E i \in Replaced : ~rollbackBuf[i].has /\ rollbackBuf[i].cell = c

\* A record on its way out still points to its value, which its archive has or had.
Archived ==
    \A s \in Slots : Leaving(s) /\ store[s] /= NULL =>
        \/ store[Arc(s)] = store[s]
        \/ \E i \in Replaced : ~rollbackBuf[i].has /\ rollbackBuf[i].cell = store[s]

\* The records are what the calls asked for, but for the removals.
Asked == \A s \in Slots : working[s] = IF Pending(s) THEN NULL ELSE Content(s)

MayCommit == Removals /\ Apart /\ Owned /\ Archived /\ Asked

ValueOf(c) == IF c = NULL THEN NULL ELSE heap[c]

\* The archive has the old value of its record, which the record will have again.
Borrowed(s) == \E i \in Replaced : rollbackBuf[i].slot = s /\ rollbackBuf[i].is

\* The entries of one record: with an archive there is only one, and what a second one has
\* kept was there.
Entered ==
    /\ \A i, j \in Replaced : i /= j /\ rollbackBuf[i].slot = rollbackBuf[j].slot
          => ~rollbackBuf[i].has /\ ~rollbackBuf[i].is
    /\ \A i, j \in Replaced : i < j /\ rollbackBuf[i].slot = rollbackBuf[j].slot
          => rollbackBuf[j].cell /= NULL
    /\ \A i \in Replaced : ~undo \/ rollbackBuf[i].has \/ rollbackBuf[i].is
          => store[rollbackBuf[i].slot] /= NULL

\* No two owners have the same value ...
ApartBack ==
    /\ \A s, t \in Slots :
          s /= t /\ ~Borrowed(s) /\ ~Borrowed(t) /\ store[s] /= NULL => store[s] /= store[t]
    /\ \A s \in Slots, i \in Replaced :
          ~Borrowed(s) /\ store[s] /= NULL => store[s] /= rollbackBuf[i].cell
    /\ \A i, j \in Replaced :
          i /= j /\ rollbackBuf[i].cell /= NULL => rollbackBuf[i].cell /= rollbackBuf[j].cell

\* ... what an owner has is allocated, and what is allocated has an owner.
OwnedBack ==
    /\ \A s \in Slots : ~Borrowed(s) /\ store[s] /= NULL => heap[store[s]] /= NULL
    /\ \A i \in Replaced : rollbackBuf[i].cell /= NULL => heap[rollbackBuf[i].cell] /= NULL
    /\ \A c \in Cells : heap[c] /= NULL =>
          \/ \E s \in Slots : ~Borrowed(s) /\ store[s] = c
          \/ \E i \in Replaced : rollbackBuf[i].cell = c

\* The value an archive has borrowed is kept for its record, or the record has it again.
Lent ==
    \A s \in Slots : Borrowed(s) =>
        \/ \E i \in Replaced : rollbackBuf[i].has /\ rollbackBuf[i].cell = store[s]
        \/ undo /\ \E t \in Slots : store[t] = store[s] /\ ~Borrowed(t) /\ Replacements(t) = {}

\* The first entry of a record has what it was when the transaction began; there is a last one.
Began ==
    \A s \in Slots :
        /\ Replacements(s) = {} => committed[s] = Content(s)
        /\ Replacements(s) /= {} => \E j \in Replacements(s) : \A k \in Replacements(s) : k <= j
        /\ \A i \in Replacements(s) : (\A j \in Replacements(s) : i <= j)
              => committed[s] = ValueOf(rollbackBuf[i].cell)

\* A record that was not there will not be, any other one gets what its last entry has.
Ends ==
    \A s \in Slots :
        /\ Replacements(s) = {} => working[s] = Content(s)
        /\ \A i \in Replacements(s) : (\A k \in Replacements(s) : i <= k) =>
              /\ store[s] = NULL \/ rollbackBuf[i].cell = NULL => working[s] = NULL
              /\ \A j \in Replacements(s) :
                    (\A k \in Replacements(s) : k <= j) /\ store[s] /= NULL /\ rollbackBuf[i].cell /= NULL
                    => working[s] = ValueOf(rollbackBuf[j].cell)

MayRollback == Entered /\ ApartBack /\ OwnedBack /\ Lent /\ IF undo THEN Ends ELSE Began

IndInv ==
    /\ Types /\ Stages /\ ~broken
    /\ ~undo => MayCommit
    /\ undo \/ (phase = "open" /\ RollbackOK) => MayRollback

-----------------------------------------------------------------------------
(***************************************************************************)
(* The operators.                                                          *)
(***************************************************************************)

\* Keys of records and of their archives (archive_key).
LEMMA SlotFacts ==
    /\ \A s \in Slots : Arc(s) \in Slots /\ (s[2] = "rec" => Arc(s) /= s) /\ Arc(s)[2] /= "rec"
    /\ \A s, t \in Slots : s[2] = "rec" /\ t[2] = "rec" /\ Arc(s) = Arc(t) => s = t
<1>1. ASSUME NEW s \in Slots
      PROVE  Arc(s) \in Slots /\ (s[2] = "rec" => Arc(s) /= s) /\ Arc(s)[2] /= "rec"
  BY DEF Slots, Arc
<1>2. ASSUME NEW s \in Slots, NEW t \in Slots, s[2] = "rec", t[2] = "rec", Arc(s) = Arc(t)
      PROVE  s = t
  BY <1>2 DEF Slots, Arc
<1> QED BY <1>1, <1>2

\* malloc finds a cell nobody has a pointer to.
LEMMA AllocFresh ==
  ASSUME \E c \in Cells : Fresh(c)
  PROVE  Alloc \in Cells /\ Fresh(Alloc)
  BY Zenon DEF Alloc

\* A buffer with one more entry.
LEMMA Appended ==
  ASSUME NEW S, NEW q \in Seq(S), NEW e \in S
  PROVE  /\ Append(q, e) \in Seq(S) /\ Len(Append(q, e)) = Len(q) + 1
         /\ Append(q, e)[Len(q) + 1] = e /\ Len(q) \in Nat
         /\ \A i \in 1..Len(q) : Append(q, e)[i] = q[i] /\ q[i] \in S
  OBVIOUS

\* A buffer without its first entry.
LEMMA Shifted ==
  ASSUME NEW S, NEW q \in Seq(S), q /= <<>>
  PROVE  /\ Head(q) = q[1] /\ Head(q) \in S /\ 1 \in 1..Len(q)
         /\ Tail(q) \in Seq(S) /\ Len(q) \in Nat /\ Len(Tail(q)) = Len(q) - 1
         /\ \A i \in 1..Len(Tail(q)) : Tail(q)[i] = q[i + 1] /\ i + 1 \in 1..Len(q)
  OBVIOUS

\* What working becomes when s gets v and its archive what s had.
LEMMA PutWorking ==
  ASSUME NEW f \in [Slots -> Values \cup {NULL}], NEW s \in Slots, NEW v \in Values \cup {NULL},
         NEW moves \in BOOLEAN
  PROVE  /\ Put(f, s, v, moves) \in [Slots -> Values \cup {NULL}]
         /\ \A t \in Slots : Put(f, s, v, moves)[t] =
                                IF t = s THEN v ELSE IF moves /\ t = Arc(s) THEN f[s] ELSE f[t]
  BY DEF Put

-----------------------------------------------------------------------------
(***************************************************************************)
(* Calls inside a transaction.                                             *)
(***************************************************************************)

\* What sid_kvs_set does inside a transaction: n is the new cell, old the replaced one,
\* moves says that it goes to the archive.
SetInside(s, v, arch, n, old, moves) ==
    /\ n \in Cells /\ Fresh(n) /\ old = store[s] /\ (moves <=> arch /\ old /= NULL)
    /\ store' \in [Slots -> Cells \cup {NULL}]
    /\ \A t \in Slots : store'[t] = IF t = s THEN n ELSE IF moves /\ t = Arc(s) THEN old ELSE store[t]
    /\ heap' \in [Cells -> Values \cup {NULL}]
    /\ \A x \in Cells : heap'[x] = IF x = n THEN v ELSE heap[x]
    /\ ~broken'
    /\ phase' = phase /\ undo' = undo /\ unsetBuf' = unsetBuf /\ committed' = committed
    /\ working' \in [Slots -> Values \cup {NULL}]
    /\ \A t \in Slots : working'[t] =
          IF t = s THEN v
          ELSE IF arch /\ working[s] /= NULL /\ t = Arc(s) THEN working[s] ELSE working[t]

\* The entries it adds to the rollback buffer.
SetEntries(s, arch, old, moves) ==
    /\ rollbackBuf' \in Seq(RollbackArgs)
    /\ Replaced \subseteq Replaced' /\ Len(rollbackBuf) + 1 \in Replaced' /\ Len(rollbackBuf) \in Nat
    /\ moves => Len(rollbackBuf) + 2 \in Replaced'
    /\ \A i \in Replaced' :
          \/ i \in Replaced /\ rollbackBuf'[i] = rollbackBuf[i]
          \/ /\ i = Len(rollbackBuf) + 1
             /\ rollbackBuf'[i].slot = s /\ rollbackBuf'[i].cell = old
             /\ (rollbackBuf'[i].has <=> arch) /\ ~rollbackBuf'[i].is
          \/ /\ moves /\ i = Len(rollbackBuf) + 2
             /\ rollbackBuf'[i].slot = Arc(s) /\ rollbackBuf'[i].cell = store[Arc(s)]
             /\ ~rollbackBuf'[i].has /\ rollbackBuf'[i].is

\* That is what Set does.
LEMMA SetInsideEffect ==
  ASSUME IndInv, phase = "open", NEW s \in Slots, NEW v \in Values, NEW arch \in BOOLEAN,
         Set(s, v, arch, TRUE)
  PROVE  \E n, old, moves : SetInside(s, v, arch, n, old, moves) /\ SetEntries(s, arch, old, moves)
<1> DEFINE n == Alloc
           old == store[s]
           moves == arch /\ old /= NULL
           e1 == RollbackArg(s, old, arch, FALSE)
           e2 == RollbackArg(Arc(s), store[Arc(s)], FALSE, TRUE)
           L == Len(rollbackBuf)
<1>1. Types /\ ~broken /\ InTx
  BY DEF IndInv, InTx
<1>2. /\ \E c \in Cells : Fresh(c)
      /\ store' = Put(store, s, Alloc, moves)
      /\ Destroy(NULL, Alloc, v)
      /\ rollbackBuf' = Append(rollbackBuf, e1) \o (IF moves THEN <<e2>> ELSE <<>>)
      /\ Expect(s, v, arch)
      /\ UNCHANGED <<phase, undo, unsetBuf>>
  BY <1>1, Zenon DEF Set
<1>3. n \in Cells /\ Fresh(n)
  BY <1>2, AllocFresh
<1>4. old \in Cells \cup {NULL} /\ store \in [Slots -> Cells \cup {NULL}] /\ n \in Cells \cup {NULL}
      /\ moves \in BOOLEAN /\ Arc(s) \in Slots /\ store[Arc(s)] \in Cells \cup {NULL}
  BY <1>1, <1>3, SlotFacts DEF Types
<1>5. /\ store' \in [Slots -> Cells \cup {NULL}]
      /\ \A t \in Slots : store'[t] = IF t = s THEN n ELSE IF moves /\ t = Arc(s) THEN old ELSE store[t]
  <2> HIDE DEF moves, n
  <2>1. store' = Put(store, s, n, moves)
    BY <1>2 DEF moves, n
  <2> QED BY <1>4, <2>1 DEF Put
<1>6. /\ heap' \in [Cells -> Values \cup {NULL}] /\ ~broken'
      /\ \A x \in Cells : heap'[x] = IF x = n THEN v ELSE heap[x]
  <2>1. heap \in [Cells -> Values \cup {NULL}]
    BY <1>1 DEF Types
  <2>2. Destroy(NULL, n, v) /\ v \in Values \cup {NULL} /\ NULL \in Cells \cup {NULL}
    BY <1>2
  <2>3. ~broken' /\ heap' = [x \in Cells |-> IF x = n THEN v ELSE IF x = NULL THEN NULL ELSE heap[x]]
    BY <1>1, <2>2, Zenon DEF Destroy
  <2> HIDE DEF n
  <2> QED BY <1>3, <2>1, <2>2, <2>3, NullAssumption
<1>7. committed' = committed /\ working' = Put(working, s, v, arch /\ working[s] /= NULL)
  BY <1>1, <1>2 DEF Expect
<1>8. /\ working' \in [Slots -> Values \cup {NULL}]
      /\ \A t \in Slots : working'[t] =
           IF t = s THEN v
           ELSE IF arch /\ working[s] /= NULL /\ t = Arc(s) THEN working[s] ELSE working[t]
  <2> DEFINE b == arch /\ working[s] /= NULL
  <2>1. b \in BOOLEAN /\ working \in [Slots -> Values \cup {NULL}] /\ v \in Values \cup {NULL}
    BY <1>1 DEF Types
  <2>2. working' = Put(working, s, v, b)
    BY <1>7
  <2> HIDE DEF b
  <2>3. /\ working' \in [Slots -> Values \cup {NULL}]
        /\ \A t \in Slots : working'[t] = IF t = s THEN v ELSE IF b /\ t = Arc(s) THEN working[s] ELSE working[t]
    BY <2>1, <2>2, PutWorking
  <2> QED BY <2>3 DEF b
<1>9. SetInside(s, v, arch, n, old, moves)
  BY <1>2, <1>3, <1>5, <1>6, <1>7, <1>8 DEF SetInside
<1>10. /\ e1 \in RollbackArgs /\ e2 \in RollbackArgs
       /\ e1.slot = s /\ e1.cell = old /\ (e1.has <=> arch) /\ ~e1.is
       /\ e2.slot = Arc(s) /\ e2.cell = store[Arc(s)] /\ ~e2.has /\ e2.is
  <2> HIDE DEF old
  <2>1. \A c \in Cells \cup {NULL}, t \in Slots, a, b \in BOOLEAN : RollbackArg(t, c, a, b) \in RollbackArgs
    BY DEF RollbackArg, RollbackArgs
  <2>2. e1 \in RollbackArgs /\ e2 \in RollbackArgs
    BY <1>4, <2>1, Zenon
  <2>3. /\ e1.slot = s /\ e1.cell = old /\ (e1.has <=> arch) /\ ~e1.is
        /\ e2.slot = Arc(s) /\ e2.cell = store[Arc(s)] /\ ~e2.has /\ e2.is
    BY DEF RollbackArg
  <2> QED BY <2>2, <2>3
<1>11. SetEntries(s, arch, old, moves)
  <2>1. rollbackBuf \in Seq(RollbackArgs)
    BY <1>1 DEF Types
  <2>2. rollbackBuf' = IF moves THEN Append(Append(rollbackBuf, e1), e2) ELSE Append(rollbackBuf, e1)
    <3> HIDE DEF e1, e2, moves
    <3>1. \A q \in Seq(RollbackArgs) : q \o <<>> = q /\ q \o <<e2>> = Append(q, e2)
      BY <1>10
    <3>2. Append(rollbackBuf, e1) \in Seq(RollbackArgs)
      BY <1>10, <2>1
    <3> QED BY <1>2, <3>1, <3>2
  <2> HIDE DEF e1, e2, moves, old
  <2>3. /\ Append(rollbackBuf, e1) \in Seq(RollbackArgs) /\ Len(Append(rollbackBuf, e1)) = L + 1
        /\ Append(rollbackBuf, e1)[L + 1] = e1 /\ L \in Nat
        /\ \A i \in 1..L : Append(rollbackBuf, e1)[i] = rollbackBuf[i]
    BY <1>10, <2>1, Appended
  <2> DEFINE q == Append(rollbackBuf, e1)
  <2> HIDE DEF q
  <2>4. q \in Seq(RollbackArgs) /\ Len(q) = L + 1
    BY <2>3 DEF q
  <2>5. /\ Append(q, e2) \in Seq(RollbackArgs) /\ Len(Append(q, e2)) = L + 2
        /\ Append(q, e2)[L + 2] = e2
        /\ \A i \in 1..(L + 1) : Append(q, e2)[i] = q[i]
    <3>1. /\ Append(q, e2) \in Seq(RollbackArgs) /\ Len(Append(q, e2)) = Len(q) + 1
          /\ Append(q, e2)[Len(q) + 1] = e2
          /\ \A i \in 1..Len(q) : Append(q, e2)[i] = q[i]
      BY <1>10, <2>4, Appended
    <3>2. Len(q) + 1 = L + 2
      BY <2>4, <2>3
    <3> QED BY <3>1, <3>2, <2>4
  <2>6. CASE moves
    <3>1. rollbackBuf' = Append(q, e2)
      BY <2>2, <2>6 DEF q
    <3> QED BY <3>1, <2>3, <2>5, <2>6, <1>10 DEF SetEntries, Replaced, q
  <2>7. CASE ~moves
    <3>1. rollbackBuf' = q
      BY <2>2, <2>7 DEF q
    <3> QED BY <3>1, <2>3, <2>7, <1>10 DEF SetEntries, Replaced, q
  <2> QED BY <2>6, <2>7
<1> QED BY <1>9, <1>11

\* It leaves every value one owner: what is replaced goes to the archive or to the new entry.
LEMMA SetInsideCommits ==
  ASSUME IndInv, phase = "open", NEW s \in Slots, NEW v \in Values, NEW arch \in BOOLEAN,
         arch => s[2] = "rec", ~Pending(s), arch => ~Pending(Arc(s)),
         NEW n, NEW old, NEW moves,
         SetInside(s, v, arch, n, old, moves), SetEntries(s, arch, old, moves)
  PROVE  MayCommit'
<1> DEFINE L == Len(rollbackBuf)
<1>1. Types /\ ~undo /\ MayCommit
  BY DEF IndInv, Stages
<1>2. /\ n \in Cells /\ n /= NULL /\ heap[n] = NULL
      /\ \A t \in Slots : store[t] /= n
      /\ \A i \in Replaced : rollbackBuf[i].cell /= n
  BY NullAssumption DEF SetInside, Fresh, Held, Replaced
<1>3. /\ \A t \in Slots : store'[t] = IF t = s THEN n ELSE IF moves /\ t = Arc(s) THEN old ELSE store[t]
      /\ \A x \in Cells : heap'[x] = IF x = n THEN v ELSE heap[x]
      /\ old = store[s] /\ (moves <=> arch /\ old /= NULL)
      /\ unsetBuf' = unsetBuf
  BY DEF SetInside
<1>4. /\ Replaced \subseteq Replaced' /\ L + 1 \in Replaced' /\ (moves => L + 2 \in Replaced') /\ L \in Nat
      /\ \A i \in Replaced' :
           \/ i \in Replaced /\ rollbackBuf'[i] = rollbackBuf[i]
           \/ /\ i = L + 1
              /\ rollbackBuf'[i].slot = s /\ rollbackBuf'[i].cell = old /\ (rollbackBuf'[i].has <=> arch)
           \/ /\ moves /\ i = L + 2
              /\ rollbackBuf'[i].slot = Arc(s) /\ rollbackBuf'[i].cell = store[Arc(s)] /\ ~rollbackBuf'[i].has
      /\ \A i \in Replaced : i /= L + 1 /\ i /= L + 2
  BY DEF SetEntries, Replaced
<1>5. /\ Arc(s) \in Slots /\ (moves => Arc(s) /= s)
      /\ \A t \in Slots : store[t] \in Cells \cup {NULL}
  BY <1>1, <1>3, SlotFacts DEF Types
<1>6. \A t \in Slots : (Leaving(t) <=> Leaving(t)') /\ (Pending(t) <=> Pending(t)')
  BY <1>3 DEF Leaving, Pending, Unsets
<1>7. ~Leaving(s) /\ (moves => ~Leaving(Arc(s)))
  BY <1>3 DEF Leaving, Pending, Unsets
<1>8. \A i \in Replaced : rollbackBuf'[i] = rollbackBuf[i]
  BY <1>4
<1>9. v /= NULL /\ store[s] = old
  BY <1>3, NullAssumption
<1> HIDE DEF L
<1>10. Removals'
  BY <1>1, <1>3 DEF MayCommit, Removals, Unsets
<1>11. Apart'
  <2>1. ASSUME NEW t \in Slots, NEW u \in Slots, t /= u, ~Leaving(t), ~Leaving(u), store'[t] /= NULL
        PROVE  store'[t] /= store'[u]
    BY <1>1, <1>2, <1>3, <1>5, <1>7, <2>1 DEF MayCommit, Apart
  <2>2. ASSUME NEW t \in Slots, NEW i \in Replaced', ~Leaving(t), ~rollbackBuf'[i].has, store'[t] /= NULL
        PROVE  store'[t] /= rollbackBuf'[i].cell
    <3>1. CASE i \in Replaced /\ rollbackBuf'[i] = rollbackBuf[i]
      BY <1>1, <1>2, <1>3, <1>5, <1>7, <2>2, <3>1 DEF MayCommit, Apart
    <3>2. CASE rollbackBuf'[i].cell = old /\ ~arch
      BY <1>1, <1>2, <1>3, <1>5, <1>7, <2>2, <3>2 DEF MayCommit, Apart
    <3>3. CASE rollbackBuf'[i].cell = store[Arc(s)] /\ moves
      BY <1>1, <1>2, <1>3, <1>5, <1>7, <2>2, <3>3 DEF MayCommit, Apart
    <3> QED BY <1>4, <2>2, <3>1, <3>2, <3>3
  <2>3. ASSUME NEW i \in Replaced', NEW j \in Replaced', i /= j, ~rollbackBuf'[i].has, ~rollbackBuf'[j].has,
               rollbackBuf'[i].cell /= NULL
        PROVE  rollbackBuf'[i].cell /= rollbackBuf'[j].cell
    <3> DEFINE OldOne(k) == k \in Replaced /\ rollbackBuf'[k] = rollbackBuf[k]
               First(k) == k = L + 1 /\ rollbackBuf'[k].cell = old /\ ~arch
               Second(k) == k = L + 2 /\ rollbackBuf'[k].cell = store[Arc(s)] /\ moves
    <3>1. (OldOne(i) \/ First(i) \/ Second(i)) /\ (OldOne(j) \/ First(j) \/ Second(j))
      BY <1>4, <2>3
    <3>2. ~(First(i) /\ Second(j)) /\ ~(Second(i) /\ First(j))
      BY <1>3
    <3>3. ~(First(i) /\ First(j)) /\ ~(Second(i) /\ Second(j))
      BY <2>3
    <3>4. CASE OldOne(i) /\ OldOne(j)
      BY <1>1, <2>3, <3>4 DEF MayCommit, Apart
    <3>5. CASE OldOne(i) /\ (First(j) \/ Second(j))
      BY <1>1, <1>3, <1>5, <1>7, <2>3, <3>5 DEF MayCommit, Apart
    <3>6. CASE (First(i) \/ Second(i)) /\ OldOne(j)
      BY <1>1, <1>3, <1>5, <1>7, <2>3, <3>6 DEF MayCommit, Apart
    <3> QED BY <3>1, <3>2, <3>3, <3>4, <3>5, <3>6
  <2> QED BY <1>6, <2>1, <2>2, <2>3 DEF Apart
<1>12. Owned'
  <2>1. ASSUME NEW t \in Slots, ~Leaving(t), store'[t] /= NULL
        PROVE  heap'[store'[t]] /= NULL
    BY <1>1, <1>2, <1>3, <1>5, <1>7, <1>9, <2>1 DEF MayCommit, Owned
  <2>2. ASSUME NEW i \in Replaced', ~rollbackBuf'[i].has, rollbackBuf'[i].cell /= NULL
        PROVE  heap'[rollbackBuf'[i].cell] /= NULL
    <3>1. CASE i \in Replaced /\ rollbackBuf'[i] = rollbackBuf[i]
      <4>1. rollbackBuf[i] \in RollbackArgs
        <5>1. rollbackBuf \in Seq(RollbackArgs)
          BY <1>1 DEF Types
        <5> QED BY <3>1, <5>1 DEF Replaced
      <4>2. rollbackBuf[i].cell \in Cells /\ rollbackBuf[i].cell /= n
        BY <1>2, <2>2, <3>1, <4>1 DEF RollbackArgs
      <4> QED BY <1>1, <1>3, <2>2, <3>1, <4>2 DEF MayCommit, Owned
    <3>2. CASE rollbackBuf'[i].cell = old \/ (rollbackBuf'[i].cell = store[Arc(s)] /\ moves)
      BY <1>1, <1>2, <1>3, <1>5, <1>7, <2>2, <3>2 DEF MayCommit, Owned
    <3> QED BY <1>4, <2>2, <3>1, <3>2
  <2>3. ASSUME NEW c \in Cells, heap'[c] /= NULL
        PROVE  \/ \E t \in Slots : ~Leaving(t) /\ store'[t] = c
               \/ \E i \in Replaced' : ~rollbackBuf'[i].has /\ rollbackBuf'[i].cell = c
    <3>1. CASE c = n
      BY <1>3, <1>7, <3>1
    <3>2. CASE c = old /\ c /= n
      <4>1. CASE moves
        BY <1>3, <1>5, <1>7, <3>2, <4>1
      <4>2. CASE ~moves
        <5>1. old /= NULL /\ ~arch
          BY <1>3, <3>2, <4>2, NullAssumption
        <5>2. rollbackBuf'[L + 1].cell = old /\ ~rollbackBuf'[L + 1].has
          BY <1>4, <5>1, <4>2
        <5> QED BY <1>4, <3>2, <5>2
      <4> QED BY <4>1, <4>2
    <3>3. CASE c /= old /\ c /= n
      <4>1. \/ \E t \in Slots : ~Leaving(t) /\ store[t] = c
            \/ \E i \in Replaced : ~rollbackBuf[i].has /\ rollbackBuf[i].cell = c
        BY <1>1, <1>3, <2>3, <3>3 DEF MayCommit, Owned
      <4>2. CASE \E i \in Replaced : ~rollbackBuf[i].has /\ rollbackBuf[i].cell = c
        BY <1>4, <1>8, <4>2
      <4>3. ASSUME NEW t \in Slots, ~Leaving(t), store[t] = c
            PROVE  \/ \E u \in Slots : ~Leaving(u) /\ store'[u] = c
                   \/ \E i \in Replaced' : ~rollbackBuf'[i].has /\ rollbackBuf'[i].cell = c
        <5>1. t /= s
          BY <1>3, <3>3, <4>3
        <5>2. CASE moves /\ t = Arc(s)
          <6>1. rollbackBuf'[L + 2].cell = store[Arc(s)] /\ ~rollbackBuf'[L + 2].has
            BY <1>4, <5>2
          <6> QED BY <1>4, <4>3, <5>2, <6>1
        <5>3. CASE ~(moves /\ t = Arc(s))
          BY <1>3, <4>3, <5>1, <5>3
        <5> QED BY <5>2, <5>3
      <4> QED BY <4>1, <4>2, <4>3
    <3> QED BY <3>1, <3>2, <3>3
  <2> QED BY <1>6, <2>1, <2>2, <2>3 DEF Owned
<1>13. Archived'
  <2> SUFFICES ASSUME NEW t \in Slots, Leaving(t), store'[t] /= NULL
               PROVE  \/ store'[Arc(t)] = store'[t]
                      \/ \E i \in Replaced' : ~rollbackBuf'[i].has /\ rollbackBuf'[i].cell = store'[t]
    BY <1>6 DEF Archived
  <2>1. t /= s /\ (moves => t /= Arc(s)) /\ store'[t] = store[t] /\ t[2] = "rec" /\ Arc(t) \in Slots
        /\ ~(Leaving(Arc(t)))
    <3>1. t /= s /\ (moves => t /= Arc(s)) /\ store'[t] = store[t]
      BY <1>3, <1>7
    <3>2. t[2] = "rec"
      BY <1>1 DEF MayCommit, Removals, Leaving
    <3>3. Arc(t) \in Slots /\ ~Leaving(Arc(t))
      BY <1>1, SlotFacts DEF MayCommit, Removals, Leaving
    <3> QED BY <3>1, <3>2, <3>3
  <2>2. CASE \E i \in Replaced : ~rollbackBuf[i].has /\ rollbackBuf[i].cell = store[t]
    BY <1>4, <1>8, <2>1, <2>2
  <2>3. CASE store[Arc(t)] = store[t]
    <3>1. CASE Arc(t) = s
      <4>1. ~arch /\ old = store[t]
        BY <1>3, <2>1, <2>3, <3>1, SlotFacts
      <4>2. rollbackBuf'[L + 1].cell = old /\ ~rollbackBuf'[L + 1].has
        BY <1>3, <1>4, <4>1
      <4> QED BY <1>4, <2>1, <4>1, <4>2
    <3>2. CASE moves /\ Arc(t) = Arc(s)
      BY <1>3, <2>1, <3>2, SlotFacts
    <3>3. CASE Arc(t) /= s /\ ~(moves /\ Arc(t) = Arc(s))
      BY <1>3, <2>1, <2>3, <3>3
    <3> QED BY <3>1, <3>2, <3>3
  <2> QED BY <1>1, <2>1, <2>2, <2>3 DEF MayCommit, Archived
<1>14. Asked'
  <2>1. ~Pending(s) /\ (moves => ~Pending(Arc(s)))
    BY <1>3
  <2>2. \A t \in Slots : working[t] = IF Pending(t) THEN NULL ELSE Content(t)
    BY <1>1 DEF MayCommit, Asked
  <2>3. working[s] /= NULL <=> old /= NULL
    BY <1>1, <1>3, <1>7, <2>1, <2>2 DEF MayCommit, Owned, Content
  <2>4. \A t \in Slots : working'[t] = IF t = s THEN v ELSE IF moves /\ t = Arc(s) THEN working[s] ELSE working[t]
    BY <1>3, <2>3 DEF SetInside
  <2>5. \A t \in Slots : t /= s /\ ~(moves /\ t = Arc(s)) => Content(t)' = Content(t)
    BY <1>2, <1>3, <1>5 DEF Content
  <2>6. Content(s)' = v
    BY <1>2, <1>3 DEF Content
  <2>7. moves => Content(Arc(s))' = Content(s)
    BY <1>2, <1>3, <1>5 DEF Content
  <2> QED BY <1>6, <2>1, <2>2, <2>4, <2>5, <2>6, <2>7 DEF Asked
<1> QED BY <1>10, <1>11, <1>12, <1>13, <1>14 DEF MayCommit

\* What entries and slots are made of.
LEMMA Entries ==
  ASSUME Types
  PROVE  /\ \A i \in Replaced : /\ rollbackBuf[i] \in RollbackArgs /\ rollbackBuf[i].slot \in Slots
                                /\ rollbackBuf[i].cell \in Cells \cup {NULL}
                                /\ rollbackBuf[i].has \in BOOLEAN /\ rollbackBuf[i].is \in BOOLEAN
         /\ \A i \in Unsets : unsetBuf[i] \in UnsetArgs /\ unsetBuf[i].slot \in Slots
         /\ \A t \in Slots : store[t] \in Cells \cup {NULL}
<1>1. rollbackBuf \in Seq(RollbackArgs) /\ unsetBuf \in Seq(UnsetArgs)
      /\ store \in [Slots -> Cells \cup {NULL}]
  BY DEF Types
<1>2. \A i \in Replaced : rollbackBuf[i] \in RollbackArgs
  BY <1>1 DEF Replaced
<1>3. \A i \in Unsets : unsetBuf[i] \in UnsetArgs
  BY <1>1 DEF Unsets
<1>4. \A e \in RollbackArgs : e.slot \in Slots /\ e.cell \in Cells \cup {NULL}
                              /\ e.has \in BOOLEAN /\ e.is \in BOOLEAN
  BY DEF RollbackArgs
<1>5. \A e \in UnsetArgs : e.slot \in Slots
  BY DEF UnsetArgs
<1> QED BY <1>1, <1>2, <1>3, <1>4, <1>5

\* Only what a step changes of the rollback view matters.
LEMMA RollbackViewSame ==
  ASSUME UNCHANGED <<store, heap, rollbackBuf, committed>>, undo' = undo, working' = working \/ ~undo,
         MayRollback
  PROVE  MayRollback'
<1>1. Replaced' = Replaced /\ \A s : Borrowed(s)' = Borrowed(s) /\ Replacements(s)' = Replacements(s)
  BY DEF Replaced, Borrowed, Replacements
<1>2. Entered' /\ ApartBack' /\ OwnedBack' /\ Lent'
  BY <1>1 DEF MayRollback, Entered, ApartBack, OwnedBack, Lent
<1>3. ~undo => Began'
  BY <1>1 DEF MayRollback, Began, Content, ValueOf
<1>4. undo => Ends'
  BY <1>1 DEF MayRollback, Ends, Content, ValueOf
<1> QED BY <1>2, <1>3, <1>4 DEF MayRollback

\* It can still be rolled back, if no record with an archive has been replaced twice: the new
\* entries keep what the record and its archive had.
LEMMA SetInsideRollsBack ==
  ASSUME IndInv, phase = "open", NEW s \in Slots, NEW v \in Values, NEW arch \in BOOLEAN,
         arch => s[2] = "rec",
         NEW n, NEW old, NEW moves,
         SetInside(s, v, arch, n, old, moves), SetEntries(s, arch, old, moves),
         RollbackOK'
  PROVE  MayRollback'
<1> DEFINE L == Len(rollbackBuf)
<1>1. Types /\ ~undo /\ undo' = undo
  BY DEF IndInv, Stages, SetInside
<1>2. /\ n \in Cells /\ n /= NULL /\ heap[n] = NULL /\ v /= NULL
      /\ \A t \in Slots : store[t] /= n
      /\ \A i \in Replaced : rollbackBuf[i].cell /= n
  BY NullAssumption DEF SetInside, Fresh, Held, Replaced
<1>3. /\ \A t \in Slots : store'[t] = IF t = s THEN n ELSE IF moves /\ t = Arc(s) THEN old ELSE store[t]
      /\ \A x \in Cells : heap'[x] = IF x = n THEN v ELSE heap[x]
      /\ old = store[s] /\ (moves <=> arch /\ old /= NULL)
      /\ unsetBuf' = unsetBuf /\ committed' = committed
  BY DEF SetInside
<1>4. /\ Replaced \subseteq Replaced' /\ L + 1 \in Replaced' /\ (moves => L + 2 \in Replaced') /\ L \in Nat
      /\ \A i \in Replaced' :
           \/ i \in Replaced /\ rollbackBuf'[i] = rollbackBuf[i]
           \/ /\ i = L + 1
              /\ rollbackBuf'[i].slot = s /\ rollbackBuf'[i].cell = old
              /\ (rollbackBuf'[i].has <=> arch) /\ ~rollbackBuf'[i].is
           \/ /\ moves /\ i = L + 2
              /\ rollbackBuf'[i].slot = Arc(s) /\ rollbackBuf'[i].cell = store[Arc(s)]
              /\ ~rollbackBuf'[i].has /\ rollbackBuf'[i].is
      /\ \A i \in Replaced : i /= L + 1 /\ i /= L + 2 /\ i <= L /\ i \in Nat
      /\ Replaced' \subseteq Nat
  BY DEF SetEntries, Replaced
<1>5. Arc(s) \in Slots /\ (moves => Arc(s) /= s)
  BY <1>3, SlotFacts
<1>6. \A i, j \in Replaced' : i /= j /\ rollbackBuf'[i].slot = rollbackBuf'[j].slot
         => ~rollbackBuf'[i].has /\ ~rollbackBuf'[i].is
  BY DEF RollbackOK, ArchivedTwice, Replaced
<1>7. \A i \in Replaced : rollbackBuf'[i] = rollbackBuf[i]
  BY <1>4
<1>8. MayRollback
  <2>1. ~ArchivedTwice
    BY <1>4, <1>6, <1>7 DEF ArchivedTwice, Replaced
  <2>2. ~ArchivedUnset
    BY <1>3 DEF ArchivedUnset, RollbackOK
  <2> QED BY <2>1, <2>2 DEF IndInv, RollbackOK
<1>9. Entered /\ ApartBack /\ OwnedBack /\ Lent /\ Began
  BY <1>1, <1>8 DEF MayRollback
<1>10. /\ rollbackBuf'[L + 1].slot = s /\ rollbackBuf'[L + 1].cell = old
       /\ (rollbackBuf'[L + 1].has <=> arch) /\ ~rollbackBuf'[L + 1].is
       /\ moves => /\ rollbackBuf'[L + 2].slot = Arc(s) /\ rollbackBuf'[L + 2].cell = store[Arc(s)]
                   /\ ~rollbackBuf'[L + 2].has /\ rollbackBuf'[L + 2].is
  BY <1>4
<1>11. \A i \in Replaced : /\ arch \/ rollbackBuf[i].has \/ rollbackBuf[i].is => rollbackBuf[i].slot /= s
                           /\ moves => rollbackBuf[i].slot /= Arc(s)
  <2> SUFFICES ASSUME NEW i \in Replaced
               PROVE  /\ arch \/ rollbackBuf[i].has \/ rollbackBuf[i].is => rollbackBuf[i].slot /= s
                      /\ moves => rollbackBuf[i].slot /= Arc(s)
    OBVIOUS
  <2>1. i \in Replaced' /\ rollbackBuf'[i] = rollbackBuf[i] /\ i /= L + 1 /\ i /= L + 2
    BY <1>4, <1>7
  <2> QED BY <1>4, <1>6, <1>10, <2>1
<1>12. \A i \in Replaced : rollbackBuf[i].slot \in Slots /\ rollbackBuf[i].cell \in Cells \cup {NULL}
  BY <1>1, Entries
<1>13. \A t \in Slots : store[t] \in Cells \cup {NULL}
  BY <1>1, Entries
<1> HIDE DEF L
<1>14. ~Borrowed(s) /\ (moves => ~Borrowed(Arc(s)))
  BY <1>11 DEF Borrowed
<1>15. \A t \in Slots : Borrowed(t)' <=> Borrowed(t) \/ (moves /\ t = Arc(s))
  <2> SUFFICES ASSUME NEW t \in Slots PROVE Borrowed(t)' <=> Borrowed(t) \/ (moves /\ t = Arc(s))
    OBVIOUS
  <2>1. Borrowed(t) => Borrowed(t)'
    BY <1>4, <1>7 DEF Borrowed
  <2>2. moves /\ t = Arc(s) => Borrowed(t)'
    BY <1>4, <1>10 DEF Borrowed
  <2>3. Borrowed(t)' => Borrowed(t) \/ (moves /\ t = Arc(s))
    <3> SUFFICES ASSUME NEW i \in Replaced', rollbackBuf'[i].slot = t, rollbackBuf'[i].is
                 PROVE  Borrowed(t) \/ (moves /\ t = Arc(s))
      BY DEF Borrowed
    <3> QED BY <1>4 DEF Borrowed
  <2> QED BY <2>1, <2>2, <2>3
<1>16. \A i \in Replaced' : \/ i \in Replaced /\ rollbackBuf'[i] = rollbackBuf[i]
                            \/ i = L + 1 \/ (moves /\ i = L + 2)
  BY <1>4
<1>17. \A i \in Replaced : store[rollbackBuf[i].slot] /= NULL
  BY <1>1, <1>9 DEF Entered
<1>18. Entered'
  <2>1. ASSUME NEW i \in Replaced', NEW j \in Replaced', i < j, rollbackBuf'[i].slot = rollbackBuf'[j].slot
        PROVE  rollbackBuf'[j].cell /= NULL
    <3>1. ~rollbackBuf'[i].is /\ ~rollbackBuf'[j].is /\ i /= j
      BY <1>4, <1>6, <2>1
    <3>2. CASE j \in Replaced
      <4>1. i \in Replaced
        BY <1>4, <1>16, <2>1, <3>2
      <4> QED BY <1>7, <1>9, <2>1, <3>2, <4>1 DEF Entered
    <3>3. CASE j = L + 1
      <4>1. i \in Replaced
        BY <1>4, <1>16, <2>1, <3>3
      <4>2. rollbackBuf[i].slot = s
        BY <1>7, <1>10, <2>1, <3>3, <4>1
      <4> QED BY <1>3, <1>10, <1>17, <3>3, <4>1, <4>2
    <3>4. CASE moves /\ j = L + 2
      BY <1>10, <3>1, <3>4
    <3> QED BY <1>16, <3>2, <3>3, <3>4
  <2>2. ASSUME NEW i \in Replaced'
        PROVE  store'[rollbackBuf'[i].slot] /= NULL
    <3>1. CASE i \in Replaced
      BY <1>2, <1>3, <1>7, <1>12, <1>17, <3>1
    <3>2. CASE i = L + 1 \/ (moves /\ i = L + 2)
      BY <1>2, <1>3, <1>5, <1>10, <3>2
    <3> QED BY <1>16, <3>1, <3>2
  <2> QED BY <1>6, <2>1, <2>2 DEF Entered
<1>19. ApartBack'
  <2>1. ASSUME NEW t \in Slots, NEW u \in Slots, t /= u, ~Borrowed(t)', ~Borrowed(u)', store'[t] /= NULL
        PROVE  store'[t] /= store'[u]
    <3>1. ~Borrowed(t) /\ ~Borrowed(u) /\ ~(moves /\ t = Arc(s)) /\ ~(moves /\ u = Arc(s))
      BY <1>15, <2>1
    <3> QED BY <1>2, <1>3, <1>9, <2>1, <3>1 DEF ApartBack
  <2>2. ASSUME NEW t \in Slots, NEW i \in Replaced', ~Borrowed(t)', store'[t] /= NULL
        PROVE  store'[t] /= rollbackBuf'[i].cell
    <3>1. ~Borrowed(t) /\ ~(moves /\ t = Arc(s))
      BY <1>15, <2>2
    <3>2. CASE i \in Replaced
      BY <1>2, <1>3, <1>7, <1>9, <2>2, <3>1, <3>2 DEF ApartBack
    <3>3. CASE i = L + 1
      BY <1>2, <1>3, <1>9, <1>10, <1>14, <2>2, <3>1, <3>3 DEF ApartBack
    <3>4. CASE moves /\ i = L + 2
      BY <1>2, <1>3, <1>5, <1>9, <1>10, <1>14, <2>2, <3>1, <3>4 DEF ApartBack
    <3> QED BY <1>16, <3>2, <3>3, <3>4
  <2>3. ASSUME NEW i \in Replaced', NEW j \in Replaced', i /= j, rollbackBuf'[i].cell /= NULL
        PROVE  rollbackBuf'[i].cell /= rollbackBuf'[j].cell
    <3>1. CASE i \in Replaced /\ j \in Replaced
      BY <1>7, <1>9, <2>3, <3>1 DEF ApartBack
    <3>2. \A k \in Replaced : /\ store[s] /= NULL => store[s] /= rollbackBuf[k].cell
                              /\ moves /\ store[Arc(s)] /= NULL => store[Arc(s)] /= rollbackBuf[k].cell
      BY <1>5, <1>9, <1>14 DEF ApartBack
    <3>3. moves /\ store[s] /= NULL => store[s] /= store[Arc(s)]
      BY <1>5, <1>9, <1>14 DEF ApartBack
    <3>4. CASE i \in Replaced /\ j \notin Replaced
      BY <1>3, <1>7, <1>10, <1>16, <2>3, <3>2, <3>4
    <3>5. CASE i \notin Replaced /\ j \in Replaced
      BY <1>3, <1>7, <1>10, <1>16, <2>3, <3>2, <3>5
    <3>6. CASE i \notin Replaced /\ j \notin Replaced
      BY <1>3, <1>10, <1>16, <2>3, <3>3, <3>6
    <3> QED BY <3>1, <3>4, <3>5, <3>6
  <2> QED BY <2>1, <2>2, <2>3 DEF ApartBack
<1>20. OwnedBack'
  <2>1. ASSUME NEW t \in Slots, ~Borrowed(t)', store'[t] /= NULL
        PROVE  heap'[store'[t]] /= NULL
    BY <1>2, <1>3, <1>9, <1>13, <1>15, <2>1 DEF OwnedBack
  <2>2. ASSUME NEW i \in Replaced', rollbackBuf'[i].cell /= NULL
        PROVE  heap'[rollbackBuf'[i].cell] /= NULL
    <3>1. CASE i \in Replaced
      BY <1>2, <1>3, <1>7, <1>9, <1>12, <2>2, <3>1 DEF OwnedBack
    <3>2. CASE i = L + 1
      BY <1>2, <1>3, <1>9, <1>10, <1>13, <1>14, <2>2, <3>2 DEF OwnedBack
    <3>3. CASE moves /\ i = L + 2
      BY <1>2, <1>3, <1>5, <1>9, <1>10, <1>13, <1>14, <2>2, <3>3 DEF OwnedBack
    <3> QED BY <1>16, <3>1, <3>2, <3>3
  <2>3. ASSUME NEW c \in Cells, heap'[c] /= NULL
        PROVE  \/ \E t \in Slots : ~Borrowed(t)' /\ store'[t] = c
               \/ \E i \in Replaced' : rollbackBuf'[i].cell = c
    <3>1. CASE c = n
      <4>1. ~Borrowed(s)' /\ store'[s] = c
        BY <1>3, <1>5, <1>14, <1>15, <3>1
      <4> QED BY <4>1
    <3>2. CASE c /= n
      <4>1. \/ \E t \in Slots : ~Borrowed(t) /\ store[t] = c
            \/ \E i \in Replaced : rollbackBuf[i].cell = c
        BY <1>3, <1>9, <2>3, <3>2 DEF OwnedBack
      <4>2. CASE \E i \in Replaced : rollbackBuf[i].cell = c
        BY <1>4, <1>7, <4>2
      <4>3. ASSUME NEW t \in Slots, ~Borrowed(t), store[t] = c
            PROVE  \/ \E u \in Slots : ~Borrowed(u)' /\ store'[u] = c
                   \/ \E i \in Replaced' : rollbackBuf'[i].cell = c
        <5>1. CASE t = s
          BY <1>3, <1>4, <1>10, <4>3, <5>1
        <5>2. CASE moves /\ t = Arc(s)
          BY <1>4, <1>10, <4>3, <5>2
        <5>3. CASE t /= s /\ ~(moves /\ t = Arc(s))
          BY <1>3, <1>15, <4>3, <5>3
        <5> QED BY <5>1, <5>2, <5>3
      <4> QED BY <4>1, <4>2, <4>3
    <3> QED BY <3>1, <3>2
  <2> QED BY <2>1, <2>2, <2>3 DEF OwnedBack
<1>21. Lent'
  <2> SUFFICES ASSUME NEW t \in Slots, Borrowed(t)'
               PROVE  \E i \in Replaced' : rollbackBuf'[i].has /\ rollbackBuf'[i].cell = store'[t]
    BY DEF Lent
  <2>1. CASE moves /\ t = Arc(s)
    BY <1>3, <1>4, <1>5, <1>10, <2>1
  <2>2. CASE Borrowed(t) /\ ~(moves /\ t = Arc(s))
    <3>1. t /= s /\ store'[t] = store[t]
      BY <1>3, <1>14, <2>2
    <3> QED BY <1>1, <1>4, <1>7, <1>9, <2>2, <3>1 DEF Lent
  <2> QED BY <1>15, <2>1, <2>2
<1>22. Began'
  <2>1. ASSUME NEW t \in Slots, t /= s, ~(moves /\ t = Arc(s))
        PROVE  Replacements(t)' = Replacements(t) /\ Content(t)' = Content(t)
    <3>1. Replacements(t)' = Replacements(t)
      <4>1. \A i \in Replaced' : rollbackBuf'[i].slot = t <=> i \in Replaced /\ rollbackBuf[i].slot = t
        BY <1>7, <1>10, <1>16, <2>1
      <4> QED BY <1>4, <4>1 DEF Replacements, Replaced
    <3>2. Content(t)' = Content(t)
      BY <1>2, <1>3, <1>13, <2>1 DEF Content
    <3> QED BY <3>1, <3>2
  <2>2. \A i \in Replaced : ValueOf(rollbackBuf[i].cell)' = ValueOf(rollbackBuf[i].cell)
    BY <1>2, <1>3, <1>7, <1>12 DEF ValueOf
  <2>3. ASSUME NEW t \in Slots, t /= s, ~(moves /\ t = Arc(s))
        PROVE  /\ Replacements(t)' = {} => committed'[t] = Content(t)'
               /\ Replacements(t)' /= {} => \E j \in Replacements(t)' : \A k \in Replacements(t)' : k <= j
               /\ \A i \in Replacements(t)' : (\A j \in Replacements(t)' : i <= j)
                     => committed'[t] = ValueOf(rollbackBuf[i].cell)'
    <3>1. \A i \in Replacements(t) : i \in Replaced
      BY DEF Replacements, Replaced
    <3> QED BY <1>3, <1>7, <1>9, <2>1, <2>2, <2>3, <3>1 DEF Began
  <2>4. L + 1 \in Replacements(s)' /\ (moves => L + 2 \in Replacements(Arc(s))')
    BY <1>4, <1>10 DEF Replacements, Replaced
  <2>9. PICK kept : kept = store[Arc(s)]
    OBVIOUS
  <2>5. Content(s) = ValueOf(old)' /\ (moves => Content(Arc(s)) = ValueOf(kept)')
    <3>1. ASSUME NEW t \in Slots
          PROVE  Content(t) = IF store[t] = NULL THEN NULL ELSE heap'[store[t]]
      BY <1>2, <1>3, <1>13 DEF Content
    <3> QED BY <1>3, <1>5, <2>9, <3>1 DEF ValueOf
  <2>6. ASSUME NEW i \in Replacements(s)', \A j \in Replacements(s)' : i <= j
        PROVE  committed'[s] = ValueOf(rollbackBuf[i].cell)'
    <3>1. i \in Replaced' /\ rollbackBuf'[i].slot = s
      BY DEF Replacements, Replaced
    <3>2. CASE i \in Replaced
      <4>1. i \in Replacements(s)
        BY <1>7, <3>1, <3>2 DEF Replacements, Replaced
      <4>2. \A j \in Replacements(s) : j \in Replacements(s)'
        BY <1>4, <1>7 DEF Replacements, Replaced
      <4> QED BY <1>3, <1>7, <1>9, <2>2, <2>6, <3>2, <4>1, <4>2 DEF Began
    <3>3. CASE i = L + 1
      <4>1. Replacements(s) = {}
        <5> SUFFICES ASSUME NEW j \in Replacements(s) PROVE FALSE
          OBVIOUS
        <5>1. j \in Replaced /\ rollbackBuf[j].slot = s
          BY DEF Replacements, Replaced
        <5>2. j \in Replacements(s)'
          BY <1>4, <1>7, <5>1 DEF Replacements, Replaced
        <5> QED BY <1>4, <2>6, <3>3, <5>1, <5>2
      <4> QED BY <1>3, <1>9, <1>10, <2>5, <3>3, <4>1 DEF Began
    <3>4. CASE moves /\ i = L + 2
      BY <1>5, <1>10, <3>1, <3>4
    <3> QED BY <1>16, <3>1, <3>2, <3>3, <3>4
  <2>7. ASSUME moves, NEW i \in Replacements(Arc(s))'
        PROVE  committed'[Arc(s)] = ValueOf(rollbackBuf[i].cell)'
    <3>1. i = L + 2
      BY <1>5, <1>7, <1>10, <1>11, <1>16, <2>7 DEF Replacements, Replaced
    <3>2. Replacements(Arc(s)) = {}
      BY <1>11, <2>7 DEF Replacements, Replaced
    <3>3. rollbackBuf'[i].cell = kept
      BY <1>10, <2>7, <2>9, <3>1
    <3>4. ValueOf(rollbackBuf[i].cell)' = ValueOf(kept)'
      BY <3>3 DEF ValueOf
    <3> QED BY <1>3, <1>5, <1>9, <2>5, <2>7, <3>2, <3>4 DEF Began
  <2>8. /\ \A k \in Replacements(s)' : k <= L + 1
        /\ moves => \A k \in Replacements(Arc(s))' : k <= L + 2
    BY <1>4, <1>5, <1>10, <1>16 DEF Replacements, Replaced
  <2> QED BY <2>3, <2>4, <2>6, <2>7, <2>8 DEF Began
<1> QED BY <1>1, <1>18, <1>19, <1>20, <1>21, <1>22 DEF MayRollback

\* sid_kvs_set inside a transaction keeps the invariant.
LEMMA SetInsideKeeps ==
  ASSUME IndInv, phase = "open", NEW s \in Slots, NEW v \in Values, NEW arch \in BOOLEAN,
         arch => s[2] = "rec", ~Pending(s), arch => ~Pending(Arc(s)), Set(s, v, arch, TRUE)
  PROVE  IndInv'
<1>1. PICK n, old, moves : SetInside(s, v, arch, n, old, moves) /\ SetEntries(s, arch, old, moves)
  BY SetInsideEffect
<1>2. Types'
  BY <1>1 DEF IndInv, Types, SetInside, SetEntries
<1>3. Stages' /\ ~broken' /\ ~undo'
  BY <1>1 DEF IndInv, Stages, SetInside
<1>4. MayCommit'
  BY <1>1, SetInsideCommits
<1>5. RollbackOK' => MayRollback'
  BY <1>1, SetInsideRollsBack
<1> QED BY <1>2, <1>3, <1>4, <1>5 DEF IndInv

-----------------------------------------------------------------------------
(***************************************************************************)
(* Calls outside a transaction.                                            *)
(***************************************************************************)

\* The store between two transactions: every value is that of one record, and the records
\* are what was asked for.
Settled ==
    /\ \A s, t \in Slots : s /= t /\ store[s] /= NULL => store[s] /= store[t]
    /\ \A s \in Slots : store[s] /= NULL => heap[store[s]] /= NULL
    /\ \A c \in Cells : heap[c] /= NULL => \E s \in Slots : store[s] = c
    /\ \A s \in Slots : working[s] = Content(s)

\* With both buffers empty this is what makes a commit safe, before a call ...
LEMMA SettledBefore ==
  ASSUME unsetBuf = <<>>, rollbackBuf = <<>>, MayCommit
  PROVE  Settled
<1>1. /\ \A s \in Slots : ~Leaving(s) /\ ~Pending(s)
      /\ Replaced = {}
  BY DEF Leaving, Pending, Unsets, Replaced
<1> QED BY <1>1 DEF MayCommit, Apart, Owned, Asked, Settled

\* ... and after it.
LEMMA SettledAfter ==
  ASSUME unsetBuf' = <<>>, rollbackBuf' = <<>>, Settled'
  PROVE  MayCommit'
<1>1. /\ \A s \in Slots : ~Leaving(s)' /\ ~Pending(s)'
      /\ Replaced' = {} /\ Unsets' = {}
  BY DEF Leaving, Pending, Unsets, Replaced
<1>2. Removals' /\ Archived'
  BY <1>1 DEF Removals, Archived
<1>3. Apart'
  BY <1>1 DEF Apart, Settled
<1>4. Owned'
  BY <1>1 DEF Owned, Settled
<1>5. Asked'
  BY <1>1 DEF Asked, Settled
<1> QED BY <1>2, <1>3, <1>4, <1>5 DEF MayCommit

\* What a call does outside a transaction: s gets the new cell n, or none, and one value is
\* freed, that of the record or the one its archive had.
CallOutside(s, v, arch, n, old, moves, gone) ==
    /\ (n = NULL <=> v = NULL) /\ (n /= NULL => n \in Cells /\ Fresh(n))
    /\ old = store[s] /\ (moves <=> arch /\ old /= NULL)
    /\ gone = IF moves THEN store[Arc(s)] ELSE old
    /\ store' \in [Slots -> Cells \cup {NULL}]
    /\ \A t \in Slots : store'[t] = IF t = s THEN n ELSE IF moves /\ t = Arc(s) THEN old ELSE store[t]
    /\ heap' \in [Cells -> Values \cup {NULL}]
    /\ \A x \in Cells : heap'[x] = IF x = n THEN v ELSE IF x = gone THEN NULL ELSE heap[x]
    /\ ~broken'
    /\ phase' = phase /\ undo' = undo /\ unsetBuf' = unsetBuf /\ rollbackBuf' = rollbackBuf
    /\ committed' = working'
    /\ working' \in [Slots -> Values \cup {NULL}]
    /\ \A t \in Slots : working'[t] =
          IF t = s THEN v
          ELSE IF arch /\ working[s] /= NULL /\ t = Arc(s) THEN working[s] ELSE working[t]

\* That is what the two calls do.
LEMMA CallOutsideEffect ==
  ASSUME IndInv, phase = "none", NEW s \in Slots, NEW v \in Values \cup {NULL}, NEW arch \in BOOLEAN,
         v = NULL => Unset(s, arch, TRUE), v /= NULL => Set(s, v, arch, TRUE)
  PROVE  \E n, old, moves, gone : CallOutside(s, v, arch, n, old, moves, gone)
<1> DEFINE n == IF v = NULL THEN NULL ELSE Alloc
           old == store[s]
           moves == arch /\ old /= NULL
           gone == IF moves THEN store[Arc(s)] ELSE old
           b == arch /\ working[s] /= NULL
<1>1. Types /\ ~broken /\ ~InTx /\ Settled
  <2>1. Types /\ ~broken /\ ~InTx /\ unsetBuf = <<>> /\ rollbackBuf = <<>> /\ MayCommit
    BY DEF IndInv, Stages, InTx
  <2> QED BY <2>1, SettledBefore
<1> DEFINE Done == /\ store' = Put(store, s, n, moves) /\ Destroy(gone, n, v)
                   /\ Expect(s, v, arch)
                   /\ UNCHANGED <<phase, undo, unsetBuf, rollbackBuf>>
                   /\ (n = NULL <=> v = NULL) /\ (n /= NULL => n \in Cells /\ Fresh(n))
<1>2. ASSUME v = NULL PROVE Done
  <2>1. /\ store' = Put(store, s, NULL, moves) /\ Destroy(gone, NULL, NULL)
        /\ Expect(s, NULL, arch)
        /\ UNCHANGED <<phase, undo, unsetBuf, rollbackBuf>>
    BY <1>1, <1>2, Zenon DEF Unset
  <2>2. n = NULL
    BY <1>2
  <2> HIDE DEF n, moves, gone
  <2> QED BY <1>2, <2>1, <2>2
<1>3. ASSUME v /= NULL PROVE Done
  <2>1. /\ store' = Put(store, s, Alloc, moves) /\ Destroy(gone, Alloc, v)
        /\ Expect(s, v, arch) /\ (\E c \in Cells : Fresh(c))
        /\ UNCHANGED <<phase, undo, unsetBuf, rollbackBuf>>
    BY <1>1, <1>3, Zenon DEF Set
  <2>2. n = Alloc
    BY <1>3
  <2>3. Alloc \in Cells /\ Fresh(Alloc)
    BY <2>1, AllocFresh
  <2> HIDE DEF n, moves, gone
  <2> QED BY <1>3, <2>1, <2>2, <2>3, NullAssumption
<1>4. Done
  BY <1>2, <1>3
<1>5. /\ store \in [Slots -> Cells \cup {NULL}] /\ heap \in [Cells -> Values \cup {NULL}]
      /\ working \in [Slots -> Values \cup {NULL}] /\ Arc(s) \in Slots
  BY <1>1, SlotFacts DEF Types
<1>6. n \in Cells \cup {NULL} /\ moves \in BOOLEAN /\ b \in BOOLEAN /\ old \in Cells \cup {NULL}
  BY <1>4, <1>5, NullAssumption
<1>7. gone \in Cells \cup {NULL} /\ (gone /= NULL => heap[gone] /= NULL)
  BY <1>1, <1>5, <1>6 DEF Settled
<1>8. /\ store' \in [Slots -> Cells \cup {NULL}]
      /\ \A t \in Slots : store'[t] = IF t = s THEN n ELSE IF moves /\ t = Arc(s) THEN old ELSE store[t]
  <2>1. store' = Put(store, s, n, moves)
    BY <1>4
  <2> HIDE DEF moves, n
  <2> QED BY <1>5, <1>6, <2>1 DEF Put
<1>9. /\ heap' \in [Cells -> Values \cup {NULL}] /\ ~broken'
      /\ \A x \in Cells : heap'[x] = IF x = n THEN v ELSE IF x = gone THEN NULL ELSE heap[x]
  <2>1. Destroy(gone, n, v)
    BY <1>4
  <2> HIDE DEF n, gone
  <2>2. ~broken' /\ heap' = [x \in Cells |-> IF x = n THEN v ELSE IF x = gone THEN NULL ELSE heap[x]]
    BY <1>1, <1>7, <2>1, Zenon DEF Destroy
  <2> QED BY <1>5, <2>2
<1>10. committed' = working' /\ working' = Put(working, s, v, b)
  BY <1>1, <1>4 DEF Expect
<1>11. /\ working' \in [Slots -> Values \cup {NULL}]
       /\ \A t \in Slots : working'[t] =
            IF t = s THEN v
            ELSE IF arch /\ working[s] /= NULL /\ t = Arc(s) THEN working[s] ELSE working[t]
  <2>0. working' = Put(working, s, v, b) /\ b \in BOOLEAN
    BY <1>6, <1>10
  <2> HIDE DEF b, n, old, moves, gone
  <2>1. /\ working' \in [Slots -> Values \cup {NULL}]
        /\ \A t \in Slots : working'[t] = IF t = s THEN v ELSE IF b /\ t = Arc(s) THEN working[s] ELSE working[t]
    BY <1>5, <2>0 DEF Put
  <2> QED BY <2>1 DEF b
<1>12. CallOutside(s, v, arch, n, old, moves, gone)
  <2> HIDE DEF n
  <2> QED BY <1>4, <1>8, <1>9, <1>10, <1>11 DEF CallOutside
<1> QED BY <1>12

\* sid_kvs_set and sid_kvs_unset outside a transaction keep the invariant.
LEMMA CallOutsideKeeps ==
  ASSUME IndInv, phase = "none", NEW s \in Slots, NEW v \in Values \cup {NULL}, NEW arch \in BOOLEAN,
         arch => s[2] = "rec",
         v = NULL => Unset(s, arch, TRUE), v /= NULL => Set(s, v, arch, TRUE)
  PROVE  IndInv'
<1>1. PICK n, old, moves, gone : CallOutside(s, v, arch, n, old, moves, gone)
  BY CallOutsideEffect
<1>2. Types /\ Settled /\ ~undo /\ unsetBuf = <<>> /\ rollbackBuf = <<>>
  <2>1. Types /\ unsetBuf = <<>> /\ rollbackBuf = <<>> /\ MayCommit /\ ~undo
    BY DEF IndInv, Stages
  <2> QED BY <2>1, SettledBefore
<1>3. /\ \A t \in Slots : store'[t] = IF t = s THEN n ELSE IF moves /\ t = Arc(s) THEN old ELSE store[t]
      /\ \A x \in Cells : heap'[x] = IF x = n THEN v ELSE IF x = gone THEN NULL ELSE heap[x]
      /\ old = store[s] /\ (moves <=> arch /\ old /= NULL) /\ gone = IF moves THEN store[Arc(s)] ELSE old
      /\ (n = NULL <=> v = NULL)
  BY <1>1 DEF CallOutside
<1>4. n /= NULL => n \in Cells /\ heap[n] = NULL /\ \A t \in Slots : store[t] /= n
  BY <1>1 DEF CallOutside, Fresh, Held
<1>5. /\ Arc(s) \in Slots /\ (moves => Arc(s) /= s)
      /\ \A t \in Slots : store[t] \in Cells \cup {NULL}
  BY <1>2, <1>3, SlotFacts DEF Types
<1>6. Settled'
  <2>1. ASSUME NEW t \in Slots, NEW u \in Slots, t /= u, store'[t] /= NULL
        PROVE  store'[t] /= store'[u]
    BY <1>2, <1>3, <1>4, <1>5, <2>1 DEF Settled
  <2>2. ASSUME NEW t \in Slots, store'[t] /= NULL
        PROVE  heap'[store'[t]] /= NULL /\ store'[t] \in Cells
    BY <1>2, <1>3, <1>4, <1>5, <2>2, NullAssumption DEF Settled
  <2>3. ASSUME NEW c \in Cells, heap'[c] /= NULL
        PROVE  \E t \in Slots : store'[t] = c
    BY <1>2, <1>3, <1>4, <1>5, <2>3, NullAssumption DEF Settled
  <2>4. working[s] /= NULL <=> old /= NULL
    BY <1>2, <1>3 DEF Settled, Content
  <2>5. \A t \in Slots : working'[t] = IF t = s THEN v ELSE IF moves /\ t = Arc(s) THEN working[s] ELSE working[t]
    BY <1>1, <1>3, <2>4 DEF CallOutside
  <2>6. \A t \in Slots : t /= s /\ ~(moves /\ t = Arc(s)) => Content(t)' = Content(t)
    BY <1>2, <1>3, <1>4, <1>5, <2>2 DEF Content, Settled
  <2>7. Content(s)' = v
    BY <1>3, <1>4 DEF Content
  <2>8. moves => Content(Arc(s))' = Content(s)
    BY <1>2, <1>3, <1>4, <1>5 DEF Content, Settled
  <2>9. \A t \in Slots : working'[t] = Content(t)'
    BY <1>2, <2>5, <2>6, <2>7, <2>8 DEF Settled
  <2> QED BY <2>1, <2>2, <2>3, <2>9 DEF Settled
<1>7. unsetBuf' = <<>> /\ rollbackBuf' = <<>> /\ ~undo' /\ phase' = "none" /\ committed' = working' /\ ~broken'
  BY <1>1, <1>2 DEF CallOutside
<1>8. MayCommit'
  BY <1>6, <1>7, SettledAfter
<1>9. Types' /\ Stages'
  BY <1>1, <1>2, <1>7 DEF Types, CallOutside, Stages
<1> QED BY <1>7, <1>8, <1>9 DEF IndInv

\* What sid_kvs_unset does inside a transaction: the record stays, its archive has its value
\* at once and what the archive had is freed.
UnsetInside(s, arch, old, moves) ==
    /\ old = store[s] /\ (moves <=> arch /\ old /= NULL)
    /\ store' \in [Slots -> Cells \cup {NULL}]
    /\ \A t \in Slots : store'[t] = IF moves /\ t = Arc(s) THEN old ELSE store[t]
    /\ heap' \in [Cells -> Values \cup {NULL}]
    /\ \A x \in Cells : heap'[x] = IF moves /\ x = store[Arc(s)] THEN NULL ELSE heap[x]
    /\ ~broken'
    /\ phase' = phase /\ undo' = undo /\ rollbackBuf' = rollbackBuf /\ committed' = committed
    /\ working' \in [Slots -> Values \cup {NULL}]
    /\ \A t \in Slots : working'[t] =
          IF t = s THEN NULL
          ELSE IF arch /\ working[s] /= NULL /\ t = Arc(s) THEN working[s] ELSE working[t]

\* The entry it adds to the buffer of removals.
UnsetEntry(s, arch) ==
    /\ unsetBuf' \in Seq(UnsetArgs)
    /\ Unsets \subseteq Unsets' /\ Len(unsetBuf) + 1 \in Unsets' /\ Len(unsetBuf) \in Nat
    /\ unsetBuf'[Len(unsetBuf) + 1].slot = s /\ (unsetBuf'[Len(unsetBuf) + 1].has <=> arch)
    /\ \A i \in Unsets : unsetBuf'[i] = unsetBuf[i] /\ i < Len(unsetBuf) + 1
    /\ \A i \in Unsets' : i \in Unsets \/ i = Len(unsetBuf) + 1

\* That is what Unset does.
LEMMA UnsetInsideEffect ==
  ASSUME IndInv, phase = "open", NEW s \in Slots, NEW arch \in BOOLEAN,
         arch => s[2] = "rec", arch => ~Pending(Arc(s)), Unset(s, arch, TRUE)
  PROVE  \E old, moves : UnsetInside(s, arch, old, moves) /\ UnsetEntry(s, arch)
<1> DEFINE old == store[s]
           moves == arch /\ old /= NULL
           gone == IF moves THEN store[Arc(s)] ELSE NULL
           b == arch /\ working[s] /= NULL
           e == UnsetArg(s, arch)
           L == Len(unsetBuf)
<1>1. Types /\ ~broken /\ InTx /\ MayCommit
  BY DEF IndInv, InTx, Stages
<1>2. /\ store' = Put(store, s, old, moves)
      /\ Destroy(gone, NULL, NULL)
      /\ unsetBuf' = Append(unsetBuf, e)
      /\ Expect(s, NULL, arch)
      /\ UNCHANGED <<phase, undo, rollbackBuf>>
  BY <1>1, Zenon DEF Unset
<1>3. /\ store \in [Slots -> Cells \cup {NULL}] /\ heap \in [Cells -> Values \cup {NULL}]
      /\ working \in [Slots -> Values \cup {NULL}] /\ Arc(s) \in Slots /\ (moves => Arc(s) /= s)
      /\ unsetBuf \in Seq(UnsetArgs)
  BY <1>1, SlotFacts DEF Types
<1>4. moves \in BOOLEAN /\ b \in BOOLEAN /\ old \in Cells \cup {NULL}
  BY <1>3
<1>5. gone \in Cells \cup {NULL} /\ (gone /= NULL => heap[gone] /= NULL)
  <2>1. moves => ~Leaving(Arc(s))
    BY DEF Leaving, Pending, Unsets
  <2> QED BY <1>1, <1>3, <1>4, <2>1 DEF MayCommit, Owned
<1>6. /\ store' \in [Slots -> Cells \cup {NULL}]
      /\ \A t \in Slots : store'[t] = IF moves /\ t = Arc(s) THEN old ELSE store[t]
  <2>1. store' = Put(store, s, old, moves) /\ old = store[s] /\ (moves => Arc(s) /= s)
    BY <1>2, <1>3
  <2> HIDE DEF moves, old
  <2> QED BY <1>3, <1>4, <2>1 DEF Put
<1>7. /\ heap' \in [Cells -> Values \cup {NULL}] /\ ~broken'
      /\ \A x \in Cells : heap'[x] = IF moves /\ x = store[Arc(s)] THEN NULL ELSE heap[x]
  <2>1. Destroy(gone, NULL, NULL) /\ (gone = IF moves THEN store[Arc(s)] ELSE NULL)
    BY <1>2
  <2> HIDE DEF gone, moves
  <2>2. ~broken' /\ heap' = [x \in Cells |-> IF x = NULL THEN NULL ELSE IF x = gone THEN NULL ELSE heap[x]]
    BY <1>1, <1>5, <2>1, Zenon DEF Destroy
  <2> QED BY <1>3, <2>1, <2>2, NullAssumption
<1>8. /\ committed' = committed /\ working' \in [Slots -> Values \cup {NULL}]
      /\ \A t \in Slots : working'[t] =
           IF t = s THEN NULL
           ELSE IF arch /\ working[s] /= NULL /\ t = Arc(s) THEN working[s] ELSE working[t]
  <2>1. committed' = committed /\ working' = Put(working, s, NULL, b) /\ b \in BOOLEAN
    BY <1>1, <1>2, <1>4 DEF Expect
  <2> HIDE DEF b, old, moves, gone
  <2>2. /\ working' \in [Slots -> Values \cup {NULL}]
        /\ \A t \in Slots : working'[t] = IF t = s THEN NULL ELSE IF b /\ t = Arc(s) THEN working[s] ELSE working[t]
    BY <1>3, <2>1 DEF Put
  <2> QED BY <2>1, <2>2 DEF b
<1>9. UnsetInside(s, arch, old, moves)
  BY <1>2, <1>6, <1>7, <1>8 DEF UnsetInside
<1>10. e \in UnsetArgs /\ e.slot = s /\ (e.has <=> arch)
  BY DEF UnsetArg, UnsetArgs
<1>11. UnsetEntry(s, arch)
  <2> HIDE DEF e
  <2>1. /\ unsetBuf' \in Seq(UnsetArgs) /\ Len(unsetBuf') = L + 1 /\ unsetBuf'[L + 1] = e /\ L \in Nat
        /\ \A i \in 1..L : unsetBuf'[i] = unsetBuf[i]
    BY <1>2, <1>3, <1>10, Appended
  <2> QED BY <1>10, <2>1 DEF UnsetEntry, Unsets
<1> QED BY <1>9, <1>11

\* It leaves every value one owner: that of the record is now its archive's.
LEMMA UnsetInsideCommits ==
  ASSUME IndInv, phase = "open", NEW s \in Slots, NEW arch \in BOOLEAN,
         arch => s[2] = "rec", ~Pending(s), arch => ~Pending(Arc(s)),
         NEW old, NEW moves, UnsetInside(s, arch, old, moves), UnsetEntry(s, arch)
  PROVE  MayCommit'
<1> DEFINE L == Len(unsetBuf)
<1>1. Types /\ MayCommit
  BY DEF IndInv, Stages
<1>2. /\ \A t \in Slots : store'[t] = IF moves /\ t = Arc(s) THEN old ELSE store[t]
      /\ \A x \in Cells : heap'[x] = IF moves /\ x = store[Arc(s)] THEN NULL ELSE heap[x]
      /\ old = store[s] /\ (moves <=> arch /\ old /= NULL)
      /\ rollbackBuf' = rollbackBuf
  BY DEF UnsetInside
<1>3. /\ Unsets \subseteq Unsets' /\ L + 1 \in Unsets' /\ L \in Nat
      /\ unsetBuf'[L + 1].slot = s /\ (unsetBuf'[L + 1].has <=> arch)
      /\ \A i \in Unsets : unsetBuf'[i] = unsetBuf[i] /\ i < L + 1
      /\ \A i \in Unsets' : i \in Unsets \/ i = L + 1
  BY DEF UnsetEntry
<1>4. /\ Arc(s) \in Slots /\ (arch => Arc(s) /= s)
      /\ \A t \in Slots : store[t] \in Cells \cup {NULL}
  BY <1>1, SlotFacts DEF Types
<1> HIDE DEF L
<1>5. \A t \in Slots : (Leaving(t)' <=> Leaving(t) \/ (arch /\ t = s))
  <2> SUFFICES ASSUME NEW t \in Slots PROVE Leaving(t)' <=> Leaving(t) \/ (arch /\ t = s)
    OBVIOUS
  <2>1. Leaving(t) => Leaving(t)'
    BY <1>3 DEF Leaving
  <2>2. arch /\ t = s => Leaving(t)'
    BY <1>3 DEF Leaving
  <2>3. Leaving(t)' => Leaving(t) \/ (arch /\ t = s)
    BY <1>3 DEF Leaving
  <2> QED BY <2>1, <2>2, <2>3
<1>6. \A t \in Slots : (Pending(t)' <=> Pending(t) \/ t = s)
  <2> SUFFICES ASSUME NEW t \in Slots PROVE Pending(t)' <=> Pending(t) \/ t = s
    OBVIOUS
  <2>1. Pending(t) => Pending(t)'
    BY <1>3 DEF Pending, Unsets
  <2>2. t = s => Pending(t)'
    BY <1>3 DEF Pending, Unsets
  <2>3. Pending(t)' => Pending(t) \/ t = s
    BY <1>3 DEF Pending, Unsets
  <2> QED BY <2>1, <2>2, <2>3
<1>7. ~Leaving(s) /\ (arch => ~Leaving(Arc(s))) /\ Replaced' = Replaced
  BY <1>2 DEF Leaving, Pending, Unsets, Replaced
<1>8. \A i \in Unsets : unsetBuf[i].slot /= s /\ (arch => unsetBuf[i].slot /= Arc(s))
  BY DEF Pending, Unsets
<1>9. Removals'
  <2>1. /\ \A i \in Unsets : unsetBuf[i].has => unsetBuf[i].slot[2] = "rec"
        /\ \A i, j \in Unsets : unsetBuf[i].slot = unsetBuf[j].slot => i = j
        /\ \A i, j \in Unsets : unsetBuf[i].has /\ unsetBuf[j].slot = Arc(unsetBuf[i].slot) => i < j
    BY <1>1 DEF MayCommit, Removals
  <2>2. ASSUME NEW i \in Unsets', unsetBuf'[i].has
        PROVE  unsetBuf'[i].slot[2] = "rec"
    BY <1>3, <2>1, <2>2
  <2>3. ASSUME NEW i \in Unsets', NEW j \in Unsets', unsetBuf'[i].slot = unsetBuf'[j].slot
        PROVE  i = j
    BY <1>3, <1>8, <2>1, <2>3
  <2>4. ASSUME NEW i \in Unsets', NEW j \in Unsets', unsetBuf'[i].has,
               unsetBuf'[j].slot = Arc(unsetBuf'[i].slot)
        PROVE  i < j
    BY <1>3, <1>4, <1>8, <2>1, <2>4
  <2> QED BY <2>2, <2>3, <2>4 DEF Removals
<1>10. Apart'
  <2>1. ASSUME NEW t \in Slots, NEW u \in Slots, t /= u, ~Leaving(t)', ~Leaving(u)', store'[t] /= NULL
        PROVE  store'[t] /= store'[u]
    BY <1>1, <1>2, <1>4, <1>5, <1>7, <2>1 DEF MayCommit, Apart
  <2>2. ASSUME NEW t \in Slots, NEW i \in Replaced, ~Leaving(t)', ~rollbackBuf[i].has, store'[t] /= NULL
        PROVE  store'[t] /= rollbackBuf[i].cell
    BY <1>1, <1>2, <1>4, <1>5, <1>7, <2>2 DEF MayCommit, Apart
  <2>3. \A i, j \in Replaced :
          i /= j /\ ~rollbackBuf[i].has /\ ~rollbackBuf[j].has /\ rollbackBuf[i].cell /= NULL
             => rollbackBuf[i].cell /= rollbackBuf[j].cell
    BY <1>1 DEF MayCommit, Apart
  <2> QED BY <1>2, <1>7, <2>1, <2>2, <2>3 DEF Apart
<1>11. Owned'
  <2>1. ASSUME NEW t \in Slots, ~Leaving(t)', store'[t] /= NULL
        PROVE  heap'[store'[t]] /= NULL
    <3>1. store'[t] \in Cells /\ heap[store'[t]] /= NULL
      BY <1>1, <1>2, <1>4, <1>5, <1>7, <2>1 DEF MayCommit, Owned
    <3>2. moves => store'[t] /= store[Arc(s)]
      BY <1>1, <1>2, <1>4, <1>5, <1>7, <2>1 DEF MayCommit, Apart
    <3> QED BY <1>2, <3>1, <3>2
  <2>2. ASSUME NEW i \in Replaced, ~rollbackBuf[i].has, rollbackBuf[i].cell /= NULL
        PROVE  heap'[rollbackBuf[i].cell] /= NULL
    <3>1. rollbackBuf[i].cell \in Cells /\ heap[rollbackBuf[i].cell] /= NULL
      BY <1>1, <2>2, Entries DEF MayCommit, Owned
    <3>2. moves => rollbackBuf[i].cell /= store[Arc(s)]
      BY <1>1, <1>2, <1>4, <1>7, <2>2 DEF MayCommit, Apart
    <3> QED BY <1>2, <3>1, <3>2
  <2>3. ASSUME NEW c \in Cells, heap'[c] /= NULL
        PROVE  \/ \E t \in Slots : ~Leaving(t)' /\ store'[t] = c
               \/ \E i \in Replaced : ~rollbackBuf[i].has /\ rollbackBuf[i].cell = c
    <3>1. heap[c] /= NULL /\ (moves => c /= store[Arc(s)])
      BY <1>2, <2>3
    <3>2. CASE \E i \in Replaced : ~rollbackBuf[i].has /\ rollbackBuf[i].cell = c
      BY <3>2
    <3>3. ASSUME NEW t \in Slots, ~Leaving(t), store[t] = c
          PROVE  \E u \in Slots : ~Leaving(u)' /\ store'[u] = c
      <4>1. CASE arch /\ t = s
        <5>1. moves /\ old = c
          BY <1>2, <3>3, <4>1, NullAssumption
        <5>2. ~Leaving(Arc(s))' /\ store'[Arc(s)] = c
          BY <1>2, <1>4, <1>5, <1>7, <4>1, <5>1
        <5> QED BY <1>4, <5>2
      <4>2. CASE ~(arch /\ t = s)
        BY <1>2, <1>5, <3>1, <3>3, <4>2
      <4> QED BY <4>1, <4>2
    <3> QED BY <1>1, <3>1, <3>2, <3>3 DEF MayCommit, Owned
  <2> QED BY <1>2, <1>7, <2>1, <2>2, <2>3 DEF Owned
<1>12. Archived'
  <2> SUFFICES ASSUME NEW t \in Slots, Leaving(t)', store'[t] /= NULL
               PROVE  \/ store'[Arc(t)] = store'[t]
                      \/ \E i \in Replaced : ~rollbackBuf[i].has /\ rollbackBuf[i].cell = store'[t]
    BY <1>2, <1>7 DEF Archived
  <2>1. CASE arch /\ t = s
    BY <1>2, <1>4, <2>1
  <2>2. CASE Leaving(t)
    <3>1. t[2] = "rec" /\ t /= s /\ Arc(t) \in Slots /\ (arch => t /= Arc(s))
      BY <1>1, <1>7, <2>2, SlotFacts DEF MayCommit, Removals, Leaving
    <3>2. arch => Arc(t) /= Arc(s)
      BY <3>1, SlotFacts
    <3>3. store'[t] = store[t] /\ store'[Arc(t)] = store[Arc(t)]
      BY <1>2, <3>1, <3>2
    <3> QED BY <1>1, <2>2, <3>3 DEF MayCommit, Archived
  <2> QED BY <1>5, <2>1, <2>2
<1>13. Asked'
  <2>1. \A t \in Slots : working[t] = IF Pending(t) THEN NULL ELSE Content(t)
    BY <1>1 DEF MayCommit, Asked
  <2>2. working[s] = Content(s) /\ (working[s] /= NULL <=> old /= NULL)
    BY <1>1, <1>2, <1>7, <2>1 DEF MayCommit, Owned, Content
  <2>3. \A t \in Slots : working'[t] = IF t = s THEN NULL ELSE IF moves /\ t = Arc(s) THEN working[s] ELSE working[t]
    BY <1>2, <2>2 DEF UnsetInside
  <2>4. ASSUME NEW t \in Slots, t /= s, ~Pending(t)
        PROVE  working'[t] = Content(t)'
    <3>1. ~Leaving(t)
      BY <2>4 DEF Leaving, Pending, Unsets
    <3>2. CASE moves /\ t = Arc(s)
      <4>1. store'[t] = old /\ old /= NULL /\ old \in Cells /\ old /= store[Arc(s)]
        BY <1>1, <1>2, <1>4, <1>7, <2>4, <3>2 DEF MayCommit, Apart
      <4> QED BY <1>2, <2>2, <2>3, <2>4, <3>2, <4>1 DEF Content
    <3>3. CASE ~(moves /\ t = Arc(s))
      <4>1. store'[t] = store[t] /\ working'[t] = working[t]
        BY <1>2, <2>3, <2>4, <3>3
      <4>2. store[t] /= NULL /\ moves => store[t] /= store[Arc(s)]
        BY <1>1, <1>2, <1>4, <1>7, <3>1, <3>3 DEF MayCommit, Apart
      <4> QED BY <1>2, <1>4, <2>1, <2>4, <4>1, <4>2 DEF Content
    <3> QED BY <3>2, <3>3
  <2>5. ASSUME NEW t \in Slots, Pending(t)'
        PROVE  working'[t] = NULL
    <3>1. Pending(t) => ~(moves /\ t = Arc(s))
      BY <1>2
    <3> QED BY <1>6, <2>1, <2>3, <2>5, <3>1
  <2> QED BY <1>6, <2>4, <2>5 DEF Asked
<1> QED BY <1>9, <1>10, <1>11, <1>12, <1>13 DEF MayCommit

\* sid_kvs_unset inside a transaction keeps the invariant.
LEMMA UnsetInsideKeeps ==
  ASSUME IndInv, phase = "open", NEW s \in Slots, NEW arch \in BOOLEAN,
         arch => s[2] = "rec", ~Pending(s), arch => ~Pending(Arc(s)), Unset(s, arch, TRUE)
  PROVE  IndInv'
<1>1. PICK old, moves : UnsetInside(s, arch, old, moves) /\ UnsetEntry(s, arch)
  BY UnsetInsideEffect
<1>2. Types'
  BY <1>1 DEF IndInv, Types, UnsetInside, UnsetEntry
<1>3. Stages' /\ ~broken' /\ ~undo'
  BY <1>1 DEF IndInv, Stages, UnsetInside
<1>4. MayCommit'
  BY <1>1, UnsetInsideCommits
<1>5. ASSUME RollbackOK'
      PROVE  MayRollback'
  <2>1. ~arch
    BY <1>1, <1>5 DEF ArchivedUnset, UnsetEntry, Unsets, RollbackOK
  <2>2. ~ArchivedUnset
    BY <1>1, <1>5 DEF ArchivedUnset, UnsetEntry, Unsets, RollbackOK
  <2>3. ~ArchivedTwice
    BY <1>1, <1>5 DEF ArchivedTwice, UnsetInside, RollbackOK
  <2>4. store' = store /\ heap' = heap /\ rollbackBuf' = rollbackBuf /\ committed' = committed
    <3>1. /\ store \in [Slots -> Cells \cup {NULL}] /\ heap \in [Cells -> Values \cup {NULL}]
          /\ store' \in [Slots -> Cells \cup {NULL}] /\ heap' \in [Cells -> Values \cup {NULL}]
          /\ \A t \in Slots : store'[t] = store[t]
          /\ \A x \in Cells : heap'[x] = heap[x]
      BY <1>1, <2>1 DEF IndInv, Types, UnsetInside
    <3>2. store' = store
      BY <3>1
    <3>3. heap' = heap
      BY <3>1
    <3> QED BY <1>1, <3>2, <3>3 DEF UnsetInside
  <2>5. MayRollback /\ ~undo /\ undo' = undo
    BY <1>1, <2>2, <2>3 DEF IndInv, RollbackOK, Stages, UnsetInside
  <2> QED BY <2>4, <2>5, RollbackViewSame
<1> QED BY <1>2, <1>3, <1>4, <1>5 DEF IndInv

-----------------------------------------------------------------------------
(***************************************************************************)
(* The beginning of a transaction, and its end.                            *)
(***************************************************************************)

\* sid_kvs_transaction_begin: there is nothing to roll back yet.
LEMMA BeginKeeps ==
  ASSUME IndInv, TransactionBegin
  PROVE  IndInv'
<1>1. Types /\ ~broken /\ phase = "none" /\ ~undo /\ unsetBuf = <<>> /\ rollbackBuf = <<>>
      /\ committed = working /\ MayCommit
  BY DEF IndInv, Stages, TransactionBegin
<1>2. Settled
  BY <1>1, SettledBefore
<1>3. UNCHANGED <<store, heap, broken, undo, unsetBuf, rollbackBuf, committed, working>> /\ phase' = "open"
  BY DEF TransactionBegin
<1>4. Types' /\ Stages' /\ ~broken' /\ ~undo'
  BY <1>1, <1>3 DEF Types, Stages
<1>5. MayCommit'
  BY <1>1, <1>3 DEF MayCommit, Removals, Apart, Owned, Archived, Asked, Leaving, Pending, Unsets, Replaced, Content
<1>6. MayRollback'
  <2>1. Replaced' = {} /\ \A s \in Slots : ~Borrowed(s)' /\ Replacements(s)' = {}
    BY <1>1, <1>3 DEF Replaced, Borrowed, Replacements
  <2>2. Entered' /\ ApartBack' /\ OwnedBack' /\ Lent'
    BY <1>2, <1>3, <2>1 DEF Entered, ApartBack, OwnedBack, Lent, Settled
  <2>3. Began'
    BY <1>1, <1>2, <1>3, <2>1 DEF Began, Settled, Content
  <2> QED BY <1>4, <2>2, <2>3 DEF MayRollback
<1> QED BY <1>4, <1>5, <1>6 DEF IndInv

\* sid_kvs_transaction_end up to its loops: one of the two views is all that counts from here.
LEMMA EndKeeps ==
  ASSUME IndInv, NEW r \in BOOLEAN, TransactionEnd(r), r => RollbackOK
  PROVE  IndInv'
<1>1. Types /\ ~broken /\ phase = "open" /\ MayCommit /\ (r => MayRollback)
  BY DEF IndInv, Stages, TransactionEnd
<1>2. /\ UNCHANGED <<store, heap, broken, unsetBuf, rollbackBuf>>
      /\ phase' = "unsets" /\ undo' = r
      /\ working' = (IF r THEN [s \in Slots |-> Restored(s)] ELSE working) /\ committed' = committed
  BY DEF TransactionEnd
<1>3. r => \A s \in Slots :
              /\ Restored(s) \in Values \cup {NULL}
              /\ Replacements(s) = {} => Restored(s) = Content(s)
              /\ \A i \in Replacements(s) : (\A k \in Replacements(s) : i <= k) =>
                    /\ rollbackBuf[i].cell = NULL => Restored(s) = NULL
                    /\ \A j \in Replacements(s) : (\A k \in Replacements(s) : k <= j) /\ rollbackBuf[i].cell /= NULL
                          => Restored(s) = ValueOf(rollbackBuf[j].cell)
  <2> SUFFICES ASSUME r, NEW s \in Slots
               PROVE  /\ Restored(s) \in Values \cup {NULL}
                      /\ Replacements(s) = {} => Restored(s) = Content(s)
                      /\ \A i \in Replacements(s) : (\A k \in Replacements(s) : i <= k) =>
                            /\ rollbackBuf[i].cell = NULL => Restored(s) = NULL
                            /\ \A j \in Replacements(s) :
                                  (\A k \in Replacements(s) : k <= j) /\ rollbackBuf[i].cell /= NULL
                                  => Restored(s) = ValueOf(rollbackBuf[j].cell)
    OBVIOUS
  <2> DEFINE G == Replacements(s)
  <2>1. Entered /\ OwnedBack /\ Began
    BY <1>1 DEF MayRollback, IndInv, Stages
  <2>2. \A i \in G : i \in Replaced /\ i \in Nat /\ rollbackBuf[i].slot = s
    BY DEF Replacements, Replaced
  <2>3. /\ committed \in [Slots -> Values \cup {NULL}] /\ heap \in [Cells -> Values \cup {NULL}]
        /\ \A i \in G : rollbackBuf[i].cell \in Cells \cup {NULL}
        /\ \A i \in G : rollbackBuf[i].cell /= NULL => heap[rollbackBuf[i].cell] /= NULL
    BY <1>1, <2>1, <2>2, Entries DEF Types, OwnedBack
  <2>4. /\ G = {} => committed[s] = Content(s)
        /\ \A i \in G : (\A k \in G : i <= k) => committed[s] = ValueOf(rollbackBuf[i].cell)
    BY <2>1 DEF Began
  <2> HIDE DEF G
  <2>5. ASSUME NEW j \in G, \A k \in G : k <= j
        PROVE  Max(G) = j
    BY <2>2, <2>5 DEF Max
  <2>6. CASE committed[s] /= NULL /\ \E i, j \in G : i /= j
    <3>1. Restored(s) = heap[rollbackBuf[Max(G)].cell]
      BY <2>6 DEF Restored, G
    <3>2. PICK j \in G : \A k \in G : k <= j
      BY <2>1, <2>6 DEF Began, G
    <3>3. Max(G) = j
      BY <2>5, <3>2
    <3>4. PICK i \in G : i /= j
      BY <2>6
    <3>5. i < j
      BY <2>2, <3>2, <3>4
    <3>6. rollbackBuf[j].cell /= NULL
      BY <2>1, <2>2, <3>5 DEF Entered
    <3>7. Restored(s) = ValueOf(rollbackBuf[j].cell) /\ Restored(s) \in Values \cup {NULL}
      BY <2>3, <3>1, <3>3, <3>6 DEF ValueOf
    <3>8. ASSUME NEW a \in G, \A k \in G : a <= k PROVE rollbackBuf[a].cell /= NULL
      BY <2>4, <2>6, <3>8 DEF ValueOf
    <3>9. ASSUME NEW b \in G, \A k \in G : k <= b PROVE b = j
      BY <2>2, <3>2, <3>9
    <3> QED BY <3>2, <3>7, <3>8, <3>9 DEF G
  <2>7. CASE ~(committed[s] /= NULL /\ \E i, j \in G : i /= j)
    <3>1. Restored(s) = committed[s]
      BY <2>7 DEF Restored, G
    <3>2. ASSUME NEW i \in G, \A k \in G : i <= k
          PROVE  /\ rollbackBuf[i].cell = NULL => Restored(s) = NULL
                 /\ \A j \in G : (\A k \in G : k <= j) /\ rollbackBuf[i].cell /= NULL
                        => Restored(s) = ValueOf(rollbackBuf[j].cell)
      <4>1. committed[s] = ValueOf(rollbackBuf[i].cell)
        BY <2>4, <3>2
      <4>2. rollbackBuf[i].cell /= NULL => committed[s] /= NULL
        BY <2>3, <4>1 DEF ValueOf
      <4>3. rollbackBuf[i].cell /= NULL => \A j \in G : j = i
        BY <2>7, <4>2
      <4> QED BY <3>1, <4>1, <4>3 DEF ValueOf
    <3>3. Restored(s) \in Values \cup {NULL}
      BY <2>3, <3>1
    <3> QED BY <2>4, <3>1, <3>2, <3>3 DEF G
  <2> QED BY <2>6, <2>7
<1>4. Types' /\ Stages' /\ ~broken'
  <2>1. working' \in [Slots -> Values \cup {NULL}]
    BY <1>1, <1>2, <1>3 DEF Types
  <2> QED BY <1>1, <1>2, <2>1 DEF Types, Stages
<1>5. ~r => MayCommit'
  BY <1>1, <1>2 DEF MayCommit, Removals, Apart, Owned, Archived, Asked, Leaving, Pending, Unsets, Replaced, Content
<1>6. r => MayRollback'
  <2> SUFFICES ASSUME r PROVE MayRollback'
    OBVIOUS
  <2>1. UNCHANGED <<store, heap, rollbackBuf>> /\ Replaced' = Replaced /\ ~undo /\ undo'
        /\ \A s : Borrowed(s)' = Borrowed(s) /\ Replacements(s)' = Replacements(s)
    BY <1>1, <1>2 DEF Replaced, Borrowed, Replacements, IndInv, Stages
  <2>2. Entered' /\ ApartBack' /\ OwnedBack' /\ Lent'
    BY <1>1, <2>1 DEF MayRollback, Entered, ApartBack, OwnedBack, Lent
  <2>3. Ends'
    <3>1. \A s \in Slots : working'[s] = Restored(s) /\ Content(s)' = Content(s)
      BY <1>2, <2>1 DEF Content
    <3>2. \A c : ValueOf(c)' = ValueOf(c)
      BY <2>1 DEF ValueOf
    <3>3. \A i \in Replaced : store[rollbackBuf[i].slot] /= NULL
      BY <1>1, <2>1 DEF MayRollback, Entered
    <3>4. \A s \in Slots : \A i \in Replacements(s) : store[s] /= NULL
      BY <3>3 DEF Replacements, Replaced
    <3> QED BY <1>3, <2>1, <3>1, <3>2, <3>4 DEF Ends
  <2> QED BY <2>1, <2>2, <2>3 DEF MayRollback
<1> QED BY <1>2, <1>4, <1>5, <1>6 DEF IndInv

\* _kv_store_trans_unset_value: nothing but the removed record points to what is freed.
LEMMA EndUnsetCommits ==
  ASSUME IndInv, EndUnset, ~undo
  PROVE  MayCommit' /\ Types' /\ ~broken'
<1> DEFINE e == Head(unsetBuf)
           s == e.slot
           gone == IF e.has THEN NULL ELSE store[s]
<1>1. Types /\ MayCommit /\ ~broken /\ unsetBuf \in Seq(UnsetArgs) /\ unsetBuf /= <<>>
  BY DEF IndInv, EndUnset, Types
<1>2. /\ e = unsetBuf[1] /\ 1 \in Unsets /\ unsetBuf' \in Seq(UnsetArgs)
      /\ \A i \in Unsets' : unsetBuf'[i] = unsetBuf[i + 1] /\ i + 1 \in Unsets /\ i \in Nat /\ i >= 1
      /\ \A i \in Unsets : i /= 1 => i - 1 \in Unsets' /\ unsetBuf'[i - 1] = unsetBuf[i]
      /\ \A i \in Unsets : i >= 1 /\ i \in Nat
  <2>1. unsetBuf' = Tail(unsetBuf)
    BY DEF EndUnset
  <2>2. /\ e = unsetBuf[1] /\ 1 \in 1..Len(unsetBuf)
        /\ unsetBuf' \in Seq(UnsetArgs) /\ Len(unsetBuf) \in Nat /\ Len(unsetBuf') = Len(unsetBuf) - 1
        /\ \A i \in 1..Len(unsetBuf') : unsetBuf'[i] = unsetBuf[i + 1] /\ i + 1 \in 1..Len(unsetBuf)
    BY <1>1, <2>1, Shifted
  <2>3. ASSUME NEW i \in Unsets, i /= 1
        PROVE  i - 1 \in Unsets' /\ unsetBuf'[i - 1] = unsetBuf[i]
    <3>1. i - 1 \in 1..Len(unsetBuf') /\ (i - 1) + 1 = i
      BY <2>2, <2>3 DEF Unsets
    <3> QED BY <2>2, <3>1 DEF Unsets
  <2> QED BY <2>2, <2>3 DEF Unsets
<1>3. /\ store' = [store EXCEPT ![s] = NULL] /\ Destroy(gone, NULL, NULL)
      /\ UNCHANGED <<phase, undo, rollbackBuf, committed, working>>
  BY Zenon DEF EndUnset
<1>4. s \in Slots /\ store \in [Slots -> Cells \cup {NULL}] /\ heap \in [Cells -> Values \cup {NULL}]
      /\ \A t \in Slots : store[t] \in Cells \cup {NULL}
  BY <1>1, <1>2, Entries DEF Types
<1> HIDE DEF e
<1>5. /\ \A i \in Unsets : unsetBuf[i].has => unsetBuf[i].slot[2] = "rec"
      /\ \A i, j \in Unsets : unsetBuf[i].slot = unsetBuf[j].slot => i = j
      /\ \A i, j \in Unsets : unsetBuf[i].has /\ unsetBuf[j].slot = Arc(unsetBuf[i].slot) => i < j
  BY <1>1 DEF MayCommit, Removals
<1>6. /\ Leaving(s) <=> e.has
      /\ Pending(s) /\ (e.has => s[2] = "rec")
  <2>1. e.has => Leaving(s)
    BY <1>2 DEF Leaving
  <2>2. Leaving(s) => e.has
    BY <1>2, <1>5 DEF Leaving
  <2>3. Pending(s) /\ (e.has => s[2] = "rec")
    BY <1>2, <1>5 DEF Pending, Unsets
  <2> QED BY <2>1, <2>2, <2>3
<1>7. \A t \in Slots : Leaving(t)' <=> Leaving(t) /\ t /= s
  <2> SUFFICES ASSUME NEW t \in Slots PROVE Leaving(t)' <=> Leaving(t) /\ t /= s
    OBVIOUS
  <2>1. Leaving(t) /\ t /= s => Leaving(t)'
    BY <1>2 DEF Leaving
  <2>2. Leaving(t)' => Leaving(t) /\ t /= s
    <3> SUFFICES ASSUME NEW i \in Unsets', unsetBuf'[i].slot = t, unsetBuf'[i].has
                 PROVE  Leaving(t) /\ t /= s
      BY DEF Leaving
    <3>1. i + 1 \in Unsets /\ unsetBuf[i + 1].slot = t /\ unsetBuf[i + 1].has /\ i + 1 /= 1
      BY <1>2
    <3> QED BY <1>2, <1>5, <3>1 DEF Leaving
  <2> QED BY <2>1, <2>2
<1>8. \A t \in Slots : Pending(t)' <=> Pending(t) /\ t /= s
  <2> SUFFICES ASSUME NEW t \in Slots PROVE Pending(t)' <=> Pending(t) /\ t /= s
    OBVIOUS
  <2>1. Pending(t) /\ t /= s => Pending(t)'
    BY <1>2 DEF Pending, Unsets
  <2>2. Pending(t)' => Pending(t) /\ t /= s
    <3> SUFFICES ASSUME NEW i \in Unsets', unsetBuf'[i].slot = t
                 PROVE  Pending(t) /\ t /= s
      BY DEF Pending, Unsets
    <3>1. i + 1 \in Unsets /\ unsetBuf[i + 1].slot = t /\ i + 1 /= 1
      BY <1>2
    <3> QED BY <1>2, <1>5, <3>1 DEF Pending, Unsets
  <2> QED BY <2>1, <2>2
<1>9. gone \in Cells \cup {NULL} /\ (gone /= NULL => heap[gone] /= NULL)
  BY <1>1, <1>4, <1>6 DEF MayCommit, Owned
<1>10. ~broken' /\ heap' \in [Cells -> Values \cup {NULL}]
       /\ \A x \in Cells : heap'[x] = IF x = gone THEN NULL ELSE heap[x]
  <2> HIDE DEF gone
  <2>1. ~broken' /\ heap' = [x \in Cells |-> IF x = NULL THEN NULL ELSE IF x = gone THEN NULL ELSE heap[x]]
    BY <1>1, <1>3, <1>9, Zenon DEF Destroy
  <2> QED BY <1>4, <2>1, NullAssumption
<1>11. store' \in [Slots -> Cells \cup {NULL}]
       /\ \A t \in Slots : store'[t] = IF t = s THEN NULL ELSE store[t]
  BY <1>3, <1>4
<1>12. Types'
  BY <1>1, <1>2, <1>3, <1>10, <1>11 DEF Types
<1>13. Replaced' = Replaced /\ rollbackBuf' = rollbackBuf
  BY <1>3 DEF Replaced
<1> HIDE DEF s
<1>14. \A t \in Slots : t /= s /\ ~Leaving(t) /\ store[t] /= NULL => store[t] /= gone
  BY <1>1, <1>4, <1>6 DEF MayCommit, Apart
<1>15. \A i \in Replaced : ~rollbackBuf[i].has /\ rollbackBuf[i].cell /= NULL => rollbackBuf[i].cell /= gone
  BY <1>1, <1>4, <1>6 DEF MayCommit, Apart
<1>16. Removals'
  <2>1. ASSUME NEW i \in Unsets', unsetBuf'[i].has
        PROVE  unsetBuf'[i].slot[2] = "rec"
    BY <1>2, <1>5, <2>1
  <2>2. ASSUME NEW i \in Unsets', NEW j \in Unsets', unsetBuf'[i].slot = unsetBuf'[j].slot
        PROVE  i = j
    <3>1. i + 1 = j + 1
      BY <1>2, <1>5, <2>2
    <3> QED BY <1>2, <3>1
  <2>3. ASSUME NEW i \in Unsets', NEW j \in Unsets', unsetBuf'[i].has,
               unsetBuf'[j].slot = Arc(unsetBuf'[i].slot)
        PROVE  i < j
    <3>1. /\ i + 1 \in Unsets /\ j + 1 \in Unsets /\ unsetBuf[i + 1].has
          /\ unsetBuf[j + 1].slot = Arc(unsetBuf[i + 1].slot)
      BY <1>2, <2>3
    <3>2. i + 1 < j + 1
      BY <1>5, <3>1
    <3> QED BY <1>2, <3>2
  <2> QED BY <2>1, <2>2, <2>3 DEF Removals
<1>17. Apart'
  <2>1. ASSUME NEW t \in Slots, NEW u \in Slots, t /= u, ~Leaving(t)', ~Leaving(u)', store'[t] /= NULL
        PROVE  store'[t] /= store'[u]
    BY <1>1, <1>7, <1>11, <2>1 DEF MayCommit, Apart
  <2>2. ASSUME NEW t \in Slots, NEW i \in Replaced, ~Leaving(t)', ~rollbackBuf[i].has, store'[t] /= NULL
        PROVE  store'[t] /= rollbackBuf[i].cell
    BY <1>1, <1>7, <1>11, <2>2 DEF MayCommit, Apart
  <2> QED BY <1>1, <1>13, <2>1, <2>2 DEF MayCommit, Apart
<1>18. Owned'
  <2>1. ASSUME NEW t \in Slots, ~Leaving(t)', store'[t] /= NULL
        PROVE  heap'[store'[t]] /= NULL
    BY <1>1, <1>4, <1>7, <1>10, <1>11, <1>14, <2>1 DEF MayCommit, Owned
  <2>2. ASSUME NEW i \in Replaced, ~rollbackBuf[i].has, rollbackBuf[i].cell /= NULL
        PROVE  heap'[rollbackBuf[i].cell] /= NULL
    <3>1. rollbackBuf[i].cell \in Cells
      BY <1>1, <2>2, Entries
    <3> QED BY <1>1, <1>10, <1>15, <2>2, <3>1 DEF MayCommit, Owned
  <2>3. ASSUME NEW c \in Cells, heap'[c] /= NULL
        PROVE  \/ \E t \in Slots : ~Leaving(t)' /\ store'[t] = c
               \/ \E i \in Replaced : ~rollbackBuf[i].has /\ rollbackBuf[i].cell = c
    <3>1. heap[c] /= NULL /\ c /= gone
      BY <1>10, <2>3
    <3>2. ASSUME NEW t \in Slots, ~Leaving(t), store[t] = c
          PROVE  ~Leaving(t)' /\ store'[t] = c
      <4>1. t /= s
        BY <1>6, <3>1, <3>2
      <4> QED BY <1>7, <1>11, <3>2, <4>1
    <3> QED BY <1>1, <3>1, <3>2 DEF MayCommit, Owned
  <2> QED BY <1>13, <2>1, <2>2, <2>3 DEF Owned
<1>19. Archived'
  <2> SUFFICES ASSUME NEW t \in Slots, Leaving(t)', store'[t] /= NULL
               PROVE  \/ store'[Arc(t)] = store'[t]
                      \/ \E i \in Replaced : ~rollbackBuf[i].has /\ rollbackBuf[i].cell = store'[t]
    BY <1>13 DEF Archived
  <2>1. Leaving(t) /\ t /= s /\ store'[t] = store[t]
    BY <1>7, <1>11
  <2>2. Arc(t) \in Slots
    BY SlotFacts
  <2>3. Arc(t) /= s
    <3>1. PICK i \in Unsets : unsetBuf[i].slot = t /\ unsetBuf[i].has
      BY <2>1 DEF Leaving
    <3>2. Arc(t) = s => i < 1
      BY <1>2, <1>5, <3>1 DEF s
    <3> QED BY <1>2, <3>1, <3>2
  <2> QED BY <1>1, <1>11, <2>1, <2>2, <2>3 DEF MayCommit, Archived
<1>20. Asked'
  <2>1. \A t \in Slots : working[t] = IF Pending(t) THEN NULL ELSE Content(t)
    BY <1>1 DEF MayCommit, Asked
  <2>2. \A t \in Slots : t = s => Content(t)' = NULL /\ working[t] = NULL
    BY <1>4, <1>6, <1>11, <2>1 DEF Content
  <2>3. ASSUME NEW t \in Slots, t /= s, ~Pending(t)
        PROVE  Content(t)' = Content(t)
    <3>1. ~Leaving(t)
      BY <2>3 DEF Leaving, Pending, Unsets
    <3> QED BY <1>4, <1>10, <1>11, <1>14, <2>3, <3>1 DEF Content
  <2> QED BY <1>3, <1>8, <2>1, <2>2, <2>3 DEF Asked
<1> QED BY <1>10, <1>12, <1>16, <1>17, <1>18, <1>19, <1>20 DEF MayCommit

\* The first loop of sid_kvs_transaction_end keeps the invariant.
LEMMA EndUnsetKeeps ==
  ASSUME IndInv, EndUnset
  PROVE  IndInv'
<1>1. phase = "unsets" /\ phase' = phase /\ undo' = undo /\ committed' = committed /\ working' = working
  BY DEF EndUnset
<1>2. Stages'
  BY <1>1 DEF IndInv, Stages
<1>3. CASE ~undo
  BY <1>1, <1>2, <1>3, EndUnsetCommits DEF IndInv
<1>4. CASE undo
  <2>1. UNCHANGED <<store, heap, broken, rollbackBuf>> /\ unsetBuf' = Tail(unsetBuf) /\ unsetBuf /= <<>>
    BY <1>4 DEF EndUnset
  <2>2. unsetBuf' \in Seq(UnsetArgs)
    BY <2>1, Shifted DEF IndInv, Types
  <2>3. Types' /\ ~broken'
    BY <1>1, <2>1, <2>2 DEF IndInv, Types
  <2>4. MayRollback
    BY <1>4 DEF IndInv
  <2>5. MayRollback'
    BY <1>1, <2>1, <2>4, RollbackViewSame
  <2> QED BY <1>1, <1>2, <1>4, <2>3, <2>5 DEF IndInv
<1> QED BY <1>3, <1>4

\* The buffer of removals is used up.
LEMMA EndUnsetDoneKeeps ==
  ASSUME IndInv, EndUnsetDone
  PROVE  IndInv'
<1>1. UNCHANGED <<store, heap, broken, undo, unsetBuf, rollbackBuf, committed, working>>
      /\ phase = "unsets" /\ phase' = "rollbacks" /\ unsetBuf = <<>>
  BY DEF EndUnsetDone
<1>2. Types' /\ Stages' /\ ~broken'
  BY <1>1 DEF IndInv, Types, Stages
<1>3. ~undo => MayCommit'
  BY <1>1 DEF IndInv, MayCommit, Removals, Apart, Owned, Archived, Asked, Leaving, Pending, Unsets, Replaced, Content
<1>4. undo => MayRollback'
  BY <1>1, RollbackViewSame DEF IndInv
<1> QED BY <1>1, <1>2, <1>3, <1>4 DEF IndInv

\* The rollback buffer without its first entry.
LEMMA RollbackBufShifted ==
  ASSUME Types, rollbackBuf /= <<>>, rollbackBuf' = Tail(rollbackBuf)
  PROVE  /\ Head(rollbackBuf) = rollbackBuf[1] /\ 1 \in Replaced /\ rollbackBuf' \in Seq(RollbackArgs)
         /\ \A i \in Replaced' :
              rollbackBuf'[i] = rollbackBuf[i + 1] /\ i + 1 \in Replaced /\ i \in Nat /\ i + 1 /= 1
         /\ \A i \in Replaced : i /= 1 => i - 1 \in Replaced' /\ rollbackBuf'[i - 1] = rollbackBuf[i]
<1>1. /\ Head(rollbackBuf) = rollbackBuf[1] /\ 1 \in 1..Len(rollbackBuf)
      /\ rollbackBuf' \in Seq(RollbackArgs) /\ Len(rollbackBuf) \in Nat /\ Len(rollbackBuf') = Len(rollbackBuf) - 1
      /\ \A i \in 1..Len(rollbackBuf') : rollbackBuf'[i] = rollbackBuf[i + 1] /\ i + 1 \in 1..Len(rollbackBuf)
  BY Shifted DEF Types
<1>2. ASSUME NEW i \in Replaced, i /= 1
      PROVE  i - 1 \in Replaced' /\ rollbackBuf'[i - 1] = rollbackBuf[i]
  <2>1. i - 1 \in 1..Len(rollbackBuf') /\ (i - 1) + 1 = i
    BY <1>1, <1>2 DEF Replaced
  <2> QED BY <1>1, <2>1 DEF Replaced
<1> QED BY <1>1, <1>2 DEF Replaced

\* A commit frees what was replaced and not archived: nothing else points to it.
LEMMA EndRollbackCommits ==
  ASSUME IndInv, EndRollback, ~undo
  PROVE  MayCommit' /\ Types' /\ ~broken'
<1> DEFINE e == Head(rollbackBuf)
           gone == IF e.has THEN NULL ELSE e.cell
<1>1. Types /\ MayCommit /\ ~broken /\ unsetBuf = <<>> /\ rollbackBuf /= <<>> /\ rollbackBuf' = Tail(rollbackBuf)
  BY DEF IndInv, EndRollback, Stages
<1>2. /\ e = rollbackBuf[1] /\ 1 \in Replaced /\ rollbackBuf' \in Seq(RollbackArgs)
      /\ \A i \in Replaced' : rollbackBuf'[i] = rollbackBuf[i + 1] /\ i + 1 \in Replaced /\ i \in Nat /\ i + 1 /= 1
      /\ \A i \in Replaced : i /= 1 => i - 1 \in Replaced' /\ rollbackBuf'[i - 1] = rollbackBuf[i]
  BY <1>1, RollbackBufShifted
<1>3. /\ store' = store /\ Destroy(gone, NULL, NULL)
      /\ UNCHANGED <<phase, undo, unsetBuf, committed, working>>
  BY Zenon DEF EndRollback
<1>4. /\ e.cell \in Cells \cup {NULL} /\ heap \in [Cells -> Values \cup {NULL}]
      /\ \A t \in Slots : store[t] \in Cells \cup {NULL}
  BY <1>1, <1>2, Entries DEF Types
<1> HIDE DEF e
<1>5. gone \in Cells \cup {NULL} /\ (gone /= NULL => heap[gone] /= NULL)
  BY <1>1, <1>2, <1>4 DEF MayCommit, Owned
<1>6. ~broken' /\ heap' \in [Cells -> Values \cup {NULL}]
      /\ \A x \in Cells : heap'[x] = IF x = gone THEN NULL ELSE heap[x]
  <2> HIDE DEF gone
  <2>1. ~broken' /\ heap' = [x \in Cells |-> IF x = NULL THEN NULL ELSE IF x = gone THEN NULL ELSE heap[x]]
    BY <1>1, <1>3, <1>5, Zenon DEF Destroy
  <2> QED BY <1>4, <2>1, NullAssumption
<1>7. /\ Unsets = {} /\ unsetBuf' = unsetBuf /\ Unsets' = {}
      /\ \A t \in Slots : ~Leaving(t) /\ ~Leaving(t)' /\ ~Pending(t) /\ ~Pending(t)'
  BY <1>1, <1>3 DEF Leaving, Pending, Unsets
<1>8. \A t \in Slots : store[t] /= NULL => store[t] /= gone
  BY <1>1, <1>2, <1>7 DEF MayCommit, Apart
<1>9. \A i \in Replaced : i /= 1 /\ ~rollbackBuf[i].has /\ rollbackBuf[i].cell /= NULL => rollbackBuf[i].cell /= gone
  BY <1>1, <1>2 DEF MayCommit, Apart
<1>10. Removals' /\ Archived'
  BY <1>7 DEF Removals, Archived
<1>11. Apart'
  <2>1. ASSUME NEW t \in Slots, NEW i \in Replaced', ~rollbackBuf'[i].has, store[t] /= NULL
        PROVE  store[t] /= rollbackBuf'[i].cell
    <3> DEFINE k == i + 1
    <3>1. k \in Replaced /\ rollbackBuf'[i] = rollbackBuf[k]
      BY <1>2
    <3> HIDE DEF k
    <3> QED BY <1>1, <1>7, <2>1, <3>1 DEF MayCommit, Apart
  <2>2. ASSUME NEW i \in Replaced', NEW j \in Replaced', i /= j, ~rollbackBuf'[i].has, ~rollbackBuf'[j].has,
               rollbackBuf'[i].cell /= NULL
        PROVE  rollbackBuf'[i].cell /= rollbackBuf'[j].cell
    <3> DEFINE k == i + 1
               l == j + 1
    <3>1. k /= l /\ k \in Replaced /\ l \in Replaced
          /\ rollbackBuf'[i] = rollbackBuf[k] /\ rollbackBuf'[j] = rollbackBuf[l]
      BY <1>2, <2>2
    <3> HIDE DEF k, l
    <3> QED BY <1>1, <2>2, <3>1 DEF MayCommit, Apart
  <2> QED BY <1>1, <1>3, <1>7, <2>1, <2>2 DEF MayCommit, Apart
<1>12. Owned'
  <2>1. ASSUME NEW t \in Slots, store[t] /= NULL
        PROVE  heap'[store[t]] /= NULL
    BY <1>1, <1>4, <1>6, <1>7, <1>8, <2>1 DEF MayCommit, Owned
  <2>2. ASSUME NEW i \in Replaced', ~rollbackBuf'[i].has, rollbackBuf'[i].cell /= NULL
        PROVE  heap'[rollbackBuf'[i].cell] /= NULL
    <3> DEFINE k == i + 1
    <3>1. k \in Replaced /\ k /= 1 /\ rollbackBuf'[i] = rollbackBuf[k]
      BY <1>2
    <3> HIDE DEF k
    <3>2. rollbackBuf[k].cell \in Cells
      BY <1>1, <2>2, <3>1, Entries
    <3>3. ~rollbackBuf[k].has /\ rollbackBuf[k].cell /= NULL
      BY <2>2, <3>1
    <3>4. heap[rollbackBuf[k].cell] /= NULL
      BY <1>1, <3>1, <3>3 DEF MayCommit, Owned
    <3>5. rollbackBuf[k].cell /= gone
      BY <1>9, <3>1, <3>3
    <3> QED BY <1>6, <3>1, <3>2, <3>4, <3>5
  <2>3. ASSUME NEW c \in Cells, heap'[c] /= NULL
        PROVE  \/ \E t \in Slots : store[t] = c
               \/ \E i \in Replaced' : ~rollbackBuf'[i].has /\ rollbackBuf'[i].cell = c
    <3>1. heap[c] /= NULL /\ c /= gone
      BY <1>6, <2>3
    <3>2. ASSUME NEW i \in Replaced, ~rollbackBuf[i].has, rollbackBuf[i].cell = c
          PROVE  \E j \in Replaced' : ~rollbackBuf'[j].has /\ rollbackBuf'[j].cell = c
      <4>1. i /= 1
        BY <1>2, <3>1, <3>2
      <4> QED BY <1>2, <3>2, <4>1
    <3> QED BY <1>1, <3>1, <3>2 DEF MayCommit, Owned
  <2> QED BY <1>3, <1>7, <2>1, <2>2, <2>3 DEF Owned
<1>13. Asked'
  <2>1. \A t \in Slots : Content(t)' = Content(t)
    BY <1>3, <1>4, <1>6, <1>8 DEF Content
  <2> QED BY <1>1, <1>3, <1>7, <2>1 DEF MayCommit, Asked
<1>14. Types'
  BY <1>1, <1>2, <1>3, <1>6 DEF Types
<1> QED BY <1>6, <1>10, <1>11, <1>12, <1>13, <1>14 DEF MayCommit

\* _kv_store_trans_rollback_value: the record has its old value again, and the one it was given
\* is freed, unless it is the old value of another record.
LEMMA EndRollbackUndoes ==
  ASSUME IndInv, EndRollback, undo
  PROVE  MayRollback' /\ Types' /\ ~broken'
<1>0. PICK e : e = Head(rollbackBuf)
  OBVIOUS
<1>1. Types /\ MayRollback /\ ~broken /\ rollbackBuf /= <<>> /\ rollbackBuf' = Tail(rollbackBuf)
      /\ UNCHANGED <<phase, undo, unsetBuf, committed, working>> /\ Rollback(e)
  BY <1>0 DEF IndInv, EndRollback
<1>2. /\ e = rollbackBuf[1] /\ 1 \in Replaced /\ rollbackBuf' \in Seq(RollbackArgs)
      /\ \A i \in Replaced' : rollbackBuf'[i] = rollbackBuf[i + 1] /\ i + 1 \in Replaced /\ i \in Nat /\ i + 1 /= 1
      /\ \A i \in Replaced : i /= 1 => i - 1 \in Replaced' /\ rollbackBuf'[i - 1] = rollbackBuf[i]
  BY <1>0, <1>1, RollbackBufShifted
<1>3. Entered /\ ApartBack /\ OwnedBack /\ Lent /\ Ends
  BY <1>1 DEF MayRollback
<1>4. /\ e.slot \in Slots /\ e.cell \in Cells \cup {NULL} /\ e.is \in BOOLEAN
      /\ store \in [Slots -> Cells \cup {NULL}] /\ heap \in [Cells -> Values \cup {NULL}]
      /\ \A t \in Slots : store[t] \in Cells \cup {NULL}
      /\ \A i \in Replaced : rollbackBuf[i].slot \in Slots /\ rollbackBuf[i].cell \in Cells \cup {NULL}
  BY <1>0, <1>1, <1>2, Entries DEF Types
<1>30. PICK s : s = e.slot
  OBVIOUS
<1> DEFINE curr == store[s]
           gone == IF curr = e.cell \/ (curr /= NULL /\ e.is) THEN NULL
                   ELSE IF curr = NULL THEN e.cell ELSE curr
<1>5. \A i \in Replaced : /\ i /= 1 /\ rollbackBuf[i].slot = s => ~rollbackBuf[i].has /\ ~rollbackBuf[i].is
                          /\ i /= 1 /\ (e.has \/ e.is) => rollbackBuf[i].slot /= s
                          /\ i /= 1 /\ rollbackBuf[i].slot = s => rollbackBuf[i].cell /= NULL
                          /\ i /= 1 => i > 1
  <2>1. \A i \in Replaced : i /= 1 => i > 1
    BY DEF Replaced
  <2> QED BY <1>2, <1>3, <1>30, <2>1 DEF Entered
<1>6. /\ Borrowed(s) <=> e.is
      /\ e.has \/ e.is => curr /= NULL
  BY <1>2, <1>3, <1>5, <1>30 DEF Borrowed, Entered
<1>7. gone \in Cells \cup {NULL} /\ (gone /= NULL => heap[gone] /= NULL)
  BY <1>2, <1>3, <1>4, <1>6, <1>30 DEF OwnedBack
<1>8. /\ store' \in [Slots -> Cells \cup {NULL}]
      /\ \A t \in Slots : store'[t] = IF t = s /\ curr /= NULL THEN e.cell ELSE store[t]
      /\ heap' \in [Cells -> Values \cup {NULL}] /\ ~broken'
      /\ \A x \in Cells : heap'[x] = IF x = gone THEN NULL ELSE heap[x]
  <2>1. CASE UNCHANGED <<store, heap, broken>> /\ curr = e.cell
    BY <1>1, <1>4, <1>30, <2>1, NullAssumption
  <2>2. CASE curr = NULL /\ e.cell /= NULL /\ Destroy(e.cell, NULL, NULL) /\ UNCHANGED store
    <3>1. gone = e.cell
      BY <2>2
    <3>2. Destroy(gone, NULL, NULL)
      BY <2>2, <3>1
    <3> HIDE DEF gone
    <3>3. ~broken' /\ heap' = [x \in Cells |-> IF x = NULL THEN NULL ELSE IF x = gone THEN NULL ELSE heap[x]]
      BY <1>1, <1>7, <3>2, Zenon DEF Destroy
    <3> QED BY <1>4, <1>30, <2>2, <3>3, NullAssumption
  <2>3. CASE /\ curr /= NULL /\ curr /= e.cell
             /\ store' = [store EXCEPT ![e.slot] = e.cell]
             /\ Destroy(IF e.is THEN NULL ELSE curr, NULL, NULL)
    <3>1. (IF e.is THEN NULL ELSE curr) = gone
      BY <2>3
    <3>2. Destroy(gone, NULL, NULL)
      BY <2>3, <3>1
    <3> HIDE DEF gone
    <3>3. ~broken' /\ heap' = [x \in Cells |-> IF x = NULL THEN NULL ELSE IF x = gone THEN NULL ELSE heap[x]]
      BY <1>1, <1>7, <3>2, Zenon DEF Destroy
    <3>4. heap' \in [Cells -> Values \cup {NULL}] /\ \A x \in Cells : heap'[x] = IF x = gone THEN NULL ELSE heap[x]
      BY <1>4, <3>3, NullAssumption
    <3>5. /\ store' \in [Slots -> Cells \cup {NULL}]
          /\ \A t \in Slots : store'[t] = IF t = s /\ curr /= NULL THEN e.cell ELSE store[t]
      BY <1>4, <1>30, <2>3
    <3> QED BY <3>3, <3>4, <3>5
  <2> QED BY <1>30, <1>1, <2>1, <2>2, <2>3, Zenon DEF Rollback, curr
<1>9. \A t \in Slots : ~Borrowed(t) /\ t /= s /\ store[t] /= NULL => store[t] /= gone
  BY <1>2, <1>3, <1>4, <1>6, <1>30 DEF ApartBack
<1>10. \A i \in Replaced : i /= 1 /\ rollbackBuf[i].cell /= NULL => rollbackBuf[i].cell /= gone
  BY <1>2, <1>3, <1>4, <1>6, <1>30 DEF ApartBack
<1>11. curr /= NULL /\ e.cell /= NULL => e.cell /= gone /\ heap[e.cell] /= NULL
  BY <1>2, <1>3, <1>30 DEF OwnedBack
<1>12. \A t \in Slots : Borrowed(t)' <=> Borrowed(t) /\ t /= s
  <2> SUFFICES ASSUME NEW t \in Slots PROVE Borrowed(t)' <=> Borrowed(t) /\ t /= s
    OBVIOUS
  <2>1. Borrowed(t) /\ t /= s => Borrowed(t)'
    BY <1>2, <1>30 DEF Borrowed
  <2>2. Borrowed(t)' => Borrowed(t) /\ t /= s
    <3> SUFFICES ASSUME NEW i \in Replaced', rollbackBuf'[i].slot = t, rollbackBuf'[i].is
                 PROVE  Borrowed(t) /\ t /= s
      BY DEF Borrowed
    <3>1. i + 1 \in Replaced /\ i + 1 /= 1 /\ rollbackBuf[i + 1].slot = t /\ rollbackBuf[i + 1].is
      BY <1>2
    <3> QED BY <1>5, <3>1 DEF Borrowed
  <2> QED BY <2>1, <2>2
<1>13. \A t \in Slots :
          /\ \A i \in Replacements(t)' : i + 1 \in Replacements(t) /\ i + 1 /= 1 /\ i \in Nat
                 /\ rollbackBuf'[i] = rollbackBuf[i + 1]
          /\ \A i \in Replacements(t) : i \in Nat /\ (i /= 1 => i > 1 /\ i - 1 \in Replacements(t)')
          /\ t /= s => 1 \notin Replacements(t)
  BY <1>2, <1>5, <1>30 DEF Replacements, Replaced
<1>14. 1 \in Replacements(s)
  BY <1>2, <1>30 DEF Replacements, Replaced
<1> HIDE DEF gone, curr
<1>15. Entered'
  <2>1. ASSUME NEW i \in Replaced', NEW j \in Replaced', i /= j, rollbackBuf'[i].slot = rollbackBuf'[j].slot
        PROVE  /\ ~rollbackBuf'[i].has /\ ~rollbackBuf'[i].is
               /\ i < j => rollbackBuf'[j].cell /= NULL
    <3>1. /\ i + 1 \in Replaced /\ j + 1 \in Replaced /\ i + 1 /= j + 1 /\ (i < j => i + 1 < j + 1)
          /\ rollbackBuf'[i] = rollbackBuf[i + 1] /\ rollbackBuf'[j] = rollbackBuf[j + 1]
      BY <1>2, <2>1
    <3> QED BY <1>3, <2>1, <3>1 DEF Entered
  <2>2. ASSUME NEW i \in Replaced', rollbackBuf'[i].has \/ rollbackBuf'[i].is
        PROVE  store'[rollbackBuf'[i].slot] /= NULL
    <3>1. /\ i + 1 \in Replaced /\ i + 1 /= 1 /\ rollbackBuf'[i] = rollbackBuf[i + 1]
          /\ rollbackBuf[i + 1].slot \in Slots
      BY <1>2, <1>4
    <3>2. rollbackBuf[i + 1].slot /= s
      BY <1>5, <2>2, <3>1
    <3> QED BY <1>3, <1>8, <2>2, <3>1, <3>2 DEF Entered
  <2>3. undo'
    BY <1>1
  <2>4. \A i, j \in Replaced' : i < j => i /= j
    BY <1>2
  <2> QED BY <2>1, <2>2, <2>3, <2>4 DEF Entered
<1>16. ApartBack'
  <2>1. ASSUME NEW t \in Slots, NEW u \in Slots, t /= u, ~Borrowed(t)', ~Borrowed(u)', store'[t] /= NULL
        PROVE  store'[t] /= store'[u]
    BY <1>2, <1>3, <1>4, <1>8, <1>12, <2>1 DEF ApartBack, curr
  <2>2. ASSUME NEW t \in Slots, NEW i \in Replaced', ~Borrowed(t)', store'[t] /= NULL
        PROVE  store'[t] /= rollbackBuf'[i].cell
    <3>1. i + 1 \in Replaced /\ i + 1 /= 1 /\ rollbackBuf'[i] = rollbackBuf[i + 1]
      BY <1>2
    <3>2. CASE t = s /\ curr /= NULL
      BY <1>2, <1>3, <1>8, <2>2, <3>1, <3>2 DEF ApartBack
    <3>3. CASE ~(t = s /\ curr /= NULL)
      BY <1>3, <1>8, <1>12, <2>2, <3>1, <3>3 DEF ApartBack, curr
    <3> QED BY <3>2, <3>3
  <2>3. ASSUME NEW i \in Replaced', NEW j \in Replaced', i /= j, rollbackBuf'[i].cell /= NULL
        PROVE  rollbackBuf'[i].cell /= rollbackBuf'[j].cell
    <3>1. /\ i + 1 \in Replaced /\ j + 1 \in Replaced /\ i + 1 /= j + 1
          /\ rollbackBuf'[i] = rollbackBuf[i + 1] /\ rollbackBuf'[j] = rollbackBuf[j + 1]
      BY <1>2, <2>3
    <3> QED BY <1>3, <2>3, <3>1 DEF ApartBack
  <2> QED BY <2>1, <2>2, <2>3 DEF ApartBack
<1>17. OwnedBack'
  <2>1. ASSUME NEW t \in Slots, ~Borrowed(t)', store'[t] /= NULL
        PROVE  heap'[store'[t]] /= NULL
    <3>1. CASE t = s /\ curr /= NULL
      BY <1>4, <1>8, <1>11, <2>1, <3>1
    <3>2. CASE t = s /\ curr = NULL
      BY <1>8, <2>1, <3>2 DEF curr
    <3>3. CASE t /= s
      BY <1>3, <1>4, <1>8, <1>9, <1>12, <2>1, <3>3 DEF OwnedBack
    <3> QED BY <3>1, <3>2, <3>3
  <2>2. ASSUME NEW i \in Replaced', rollbackBuf'[i].cell /= NULL
        PROVE  heap'[rollbackBuf'[i].cell] /= NULL
    <3>1. i + 1 \in Replaced /\ i + 1 /= 1 /\ rollbackBuf'[i] = rollbackBuf[i + 1]
      BY <1>2
    <3>2. rollbackBuf[i + 1].cell \in Cells
      BY <1>4, <2>2, <3>1
    <3> QED BY <1>3, <1>8, <1>10, <2>2, <3>1, <3>2 DEF OwnedBack
  <2>3. ASSUME NEW c \in Cells, heap'[c] /= NULL
        PROVE  \/ \E t \in Slots : ~Borrowed(t)' /\ store'[t] = c
               \/ \E i \in Replaced' : rollbackBuf'[i].cell = c
    <3>1. heap[c] /= NULL /\ c /= gone /\ c /= NULL
      BY <1>8, <2>3, NullAssumption
    <3>2. CASE curr /= NULL /\ e.cell = c
      <4>1. s \in Slots /\ ~Borrowed(s)' /\ store'[s] = c
        BY <1>30, <1>4, <1>8, <1>12, <3>2
      <4> QED BY <4>1
    <3>3. ASSUME NEW t \in Slots, ~Borrowed(t), store[t] = c, ~(curr /= NULL /\ e.cell = c)
          PROVE  ~Borrowed(t)' /\ store'[t] = c
      <4>1. t /= s
        BY <1>6, <3>1, <3>3 DEF gone, curr
      <4> QED BY <1>8, <1>12, <3>3, <4>1
    <3>4. ASSUME NEW i \in Replaced, rollbackBuf[i].cell = c, ~(curr /= NULL /\ e.cell = c)
          PROVE  \E j \in Replaced' : rollbackBuf'[j].cell = c
      <4>1. i /= 1
        BY <1>2, <3>1, <3>4 DEF gone
      <4> QED BY <1>2, <3>4, <4>1
    <3> QED BY <1>3, <3>1, <3>2, <3>3, <3>4 DEF OwnedBack
  <2> QED BY <2>1, <2>2, <2>3 DEF OwnedBack
<1>18. Lent'
  <2> SUFFICES ASSUME NEW t \in Slots, Borrowed(t)'
               PROVE  \/ \E i \in Replaced' : rollbackBuf'[i].has /\ rollbackBuf'[i].cell = store'[t]
                      \/ \E u \in Slots : store'[u] = store'[t] /\ ~Borrowed(u)' /\ Replacements(u)' = {}
    BY <1>1 DEF Lent
  <2>1. Borrowed(t) /\ t /= s /\ store'[t] = store[t]
    BY <1>8, <1>12
  <2>2. ASSUME NEW u \in Slots, store[u] = store[t], ~Borrowed(u), Replacements(u) = {}
        PROVE  store'[u] = store'[t] /\ ~Borrowed(u)' /\ Replacements(u)' = {}
    <3>1. u /= s
      BY <1>14, <2>2
    <3> QED BY <1>8, <1>12, <1>13, <2>1, <2>2, <3>1
  <2>3. ASSUME NEW i \in Replaced, rollbackBuf[i].has, rollbackBuf[i].cell = store[t], i /= 1
        PROVE  \E j \in Replaced' : rollbackBuf'[j].has /\ rollbackBuf'[j].cell = store'[t]
    BY <1>2, <2>1, <2>3
  <2>4. ASSUME e.has, e.cell = store[t]
        PROVE  s \in Slots /\ store'[s] = store'[t] /\ ~Borrowed(s)' /\ Replacements(s)' = {}
    <3>1. Replacements(s)' = {}
      <4> SUFFICES ASSUME NEW i \in Replacements(s)' PROVE FALSE
        OBVIOUS
      <4>1. i + 1 \in Replaced /\ i + 1 /= 1 /\ rollbackBuf[i + 1].slot = s
        BY <1>30, <1>4, <1>13 DEF Replacements, Replaced
      <4> QED BY <1>5, <2>4, <4>1
    <3> QED BY <1>30, <1>4, <1>6, <1>8, <1>12, <2>1, <2>4, <3>1
  <2> QED BY <1>2, <1>3, <2>1, <2>2, <2>3, <2>4 DEF Lent
<1>19. Ends'
  <2>1. \A i \in Replaced : i /= 1 => (IF rollbackBuf[i].cell = NULL THEN NULL ELSE heap'[rollbackBuf[i].cell])
                                      = ValueOf(rollbackBuf[i].cell)
    BY <1>4, <1>8, <1>10 DEF ValueOf
  <2>2. ASSUME NEW t \in Slots, t /= s
        PROVE  /\ Replacements(t)' = {} => working'[t] = Content(t)'
               /\ \A i \in Replacements(t)' : (\A k \in Replacements(t)' : i <= k) =>
                     /\ store'[t] = NULL \/ rollbackBuf'[i].cell = NULL => working'[t] = NULL
                     /\ \A j \in Replacements(t)' :
                           (\A k \in Replacements(t)' : k <= j) /\ store'[t] /= NULL /\ rollbackBuf'[i].cell /= NULL
                           => working'[t] = ValueOf(rollbackBuf[j].cell)'
    <3>1. working' = working /\ store'[t] = store[t]
      BY <1>1, <1>8, <2>2
    <3>2. CASE Replacements(t)' = {}
      <4>1. Replacements(t) = {}
        BY <1>13, <2>2, <3>2
      <4>2. ~Borrowed(t)
        BY <4>1 DEF Borrowed, Replacements, Replaced
      <4>3. Content(t)' = Content(t)
        BY <1>4, <1>8, <1>9, <2>2, <3>1, <4>2 DEF Content
      <4> QED BY <1>3, <3>1, <3>2, <4>1, <4>3 DEF Ends
    <3>3. ASSUME NEW i \in Replacements(t)', \A k \in Replacements(t)' : i <= k
          PROVE  /\ store'[t] = NULL \/ rollbackBuf'[i].cell = NULL => working'[t] = NULL
                 /\ \A j \in Replacements(t)' :
                       (\A k \in Replacements(t)' : k <= j) /\ store'[t] /= NULL /\ rollbackBuf'[i].cell /= NULL
                       => working'[t] = ValueOf(rollbackBuf[j].cell)'
      <4>1. /\ i + 1 \in Replacements(t) /\ rollbackBuf'[i] = rollbackBuf[i + 1]
            /\ \A k \in Replacements(t) : i + 1 <= k
        <5>1. ASSUME NEW k \in Replacements(t) PROVE i + 1 <= k
          <6>1. k /= 1 /\ k \in Nat /\ k - 1 \in Replacements(t)' /\ i \in Nat
            BY <1>13, <2>2
          <6>2. i <= k - 1
            BY <3>3, <6>1
          <6> QED BY <6>1, <6>2
        <5> QED BY <1>13, <5>1
      <4>2. ASSUME NEW j \in Replacements(t)', \A k \in Replacements(t)' : k <= j
            PROVE  /\ j + 1 \in Replacements(t) /\ ValueOf(rollbackBuf[j].cell)' = ValueOf(rollbackBuf[j + 1].cell)
                   /\ \A k \in Replacements(t) : k <= j + 1
        <5>1. ASSUME NEW k \in Replacements(t) PROVE k <= j + 1
          <6>1. k /= 1 /\ k \in Nat /\ k - 1 \in Replacements(t)' /\ j \in Nat
            BY <1>13, <2>2
          <6>2. k - 1 <= j
            BY <4>2, <6>1
          <6> QED BY <6>1, <6>2
        <5>2. j + 1 \in Replacements(t) /\ j + 1 /= 1 /\ rollbackBuf'[j] = rollbackBuf[j + 1]
          BY <1>13
        <5>3. j + 1 \in Replaced
          BY <5>2 DEF Replacements, Replaced
        <5>4. ValueOf(rollbackBuf[j].cell)' = ValueOf(rollbackBuf[j + 1].cell)
          BY <2>1, <5>2, <5>3 DEF ValueOf
        <5> QED BY <5>1, <5>2, <5>4
      <4> QED BY <1>3, <3>1, <4>1, <4>2 DEF Ends
    <3> QED BY <3>2, <3>3
  <2>3. s \in Slots /\ working' = working
    BY <1>30, <1>1, <1>4
  <2>4. \A k \in Replacements(s) : 1 <= k
    BY <1>30, <1>5, <1>13, <1>14 DEF Replacements, Replaced
  <2>5. curr = NULL \/ e.cell = NULL => working[s] = NULL /\ store'[s] = NULL
    BY <1>2, <1>3, <1>8, <1>14, <2>3, <2>4 DEF Ends, curr
  <2>6. ASSUME Replacements(s)' = {}, curr /= NULL, e.cell /= NULL
        PROVE  working[s] = heap'[e.cell] /\ store'[s] = e.cell
    <3>1. \A k \in Replacements(s) : k = 1
      BY <1>13, <2>3, <2>6
    <3>2. working[s] = ValueOf(e.cell)
      BY <1>2, <1>3, <1>14, <2>3, <2>4, <2>6, <3>1 DEF Ends, curr
    <3> QED BY <1>4, <1>8, <1>11, <2>3, <2>6, <3>2 DEF ValueOf
  <2>7. Replacements(s)' = {} => working'[s] = Content(s)'
    BY <2>3, <2>5, <2>6 DEF Content
  <2>8. ASSUME NEW i \in Replacements(s)'
        PROVE  rollbackBuf'[i].cell /= NULL
    <3>1. i + 1 \in Replacements(s) /\ i + 1 /= 1 /\ rollbackBuf'[i] = rollbackBuf[i + 1]
      BY <1>13, <2>3
    <3>2. i + 1 \in Replaced /\ rollbackBuf[i + 1].slot = s
      BY <3>1 DEF Replacements, Replaced
    <3> QED BY <1>5, <3>1, <3>2
  <2>9. ASSUME NEW j \in Replacements(s)', \A k \in Replacements(s)' : k <= j, store'[s] /= NULL
        PROVE  working'[s] = ValueOf(rollbackBuf[j].cell)'
    <3>1. j + 1 \in Replacements(s) /\ j + 1 /= 1 /\ rollbackBuf'[j] = rollbackBuf[j + 1] /\ j \in Nat
      BY <1>13, <2>3
    <3>2. j + 1 \in Replaced
      BY <3>1 DEF Replacements, Replaced
    <3>3. ASSUME NEW k \in Replacements(s) PROVE k <= j + 1
      <4>1. CASE k = 1
        BY <3>1, <4>1
      <4>2. CASE k /= 1
        <5>1. k \in Nat /\ k - 1 \in Replacements(s)'
          BY <1>13, <2>3, <4>2
        <5>2. k - 1 <= j
          BY <2>9, <5>1
        <5> QED BY <3>1, <5>1, <5>2
      <4> QED BY <4>1, <4>2
    <3>4. curr /= NULL /\ e.cell /= NULL
      BY <2>5, <2>9
    <3>5. working[s] = ValueOf(rollbackBuf[j + 1].cell)
      BY <1>2, <1>3, <1>14, <2>3, <2>4, <3>1, <3>3, <3>4 DEF Ends, curr
    <3>6. ValueOf(rollbackBuf[j].cell)' = ValueOf(rollbackBuf[j + 1].cell)
      BY <2>1, <3>1, <3>2 DEF ValueOf
    <3> QED BY <2>3, <3>5, <3>6
  <2>10. store'[s] = NULL => working'[s] = NULL
    <3>1. store'[s] = NULL => curr = NULL \/ e.cell = NULL
      BY <1>8, <2>3 DEF curr
    <3> QED BY <2>3, <2>5, <3>1
  <2> QED BY <2>2, <2>3, <2>7, <2>8, <2>9, <2>10 DEF Ends
<1>20. Types'
  BY <1>1, <1>2, <1>8 DEF Types
<1> QED BY <1>1, <1>8, <1>15, <1>16, <1>17, <1>18, <1>19, <1>20 DEF MayRollback

\* The second loop of sid_kvs_transaction_end keeps the invariant.
LEMMA EndRollbackKeeps ==
  ASSUME IndInv, EndRollback
  PROVE  IndInv'
<1>1. phase = "rollbacks" /\ UNCHANGED <<phase, undo, unsetBuf, committed, working>>
  BY DEF EndRollback
<1>2. Stages'
  BY <1>1 DEF IndInv, Stages
<1>3. CASE ~undo
  BY <1>1, <1>2, <1>3, EndRollbackCommits DEF IndInv
<1>4. CASE undo
  BY <1>1, <1>2, <1>4, EndRollbackUndoes DEF IndInv
<1> QED BY <1>3, <1>4

\* The end of a transaction: what was to be rolled back is what it was.
LEMMA EndRollbackDoneKeeps ==
  ASSUME IndInv, EndRollbackDone
  PROVE  IndInv'
<1>1. /\ UNCHANGED <<store, heap, broken, unsetBuf, rollbackBuf, working>> /\ committed' = working
      /\ phase = "rollbacks" /\ phase' = "none" /\ ~undo' /\ undo' \in BOOLEAN /\ rollbackBuf = <<>>
  BY DEF EndRollbackDone
<1>2. unsetBuf = <<>>
  BY <1>1 DEF IndInv, Stages
<1>3. Types' /\ Stages' /\ ~broken'
  BY <1>1, <1>2 DEF IndInv, Types, Stages
<1>4. Settled
  <2>1. CASE ~undo
    BY <1>1, <1>2, <2>1, SettledBefore DEF IndInv
  <2>2. CASE undo
    <3>1. ApartBack /\ OwnedBack /\ Ends
      BY <2>2 DEF IndInv, MayRollback
    <3>2. Replaced = {} /\ \A t \in Slots : ~Borrowed(t) /\ Replacements(t) = {}
      BY <1>1 DEF Replaced, Borrowed, Replacements
    <3> QED BY <3>1, <3>2 DEF ApartBack, OwnedBack, Ends, Settled
  <2> QED BY <2>1, <2>2
<1>5. Settled'
  BY <1>1, <1>4 DEF Settled, Content
<1>6. MayCommit'
  BY <1>1, <1>2, <1>5, SettledAfter
<1> QED BY <1>1, <1>3, <1>6 DEF IndInv

-----------------------------------------------------------------------------
(***************************************************************************)
(* The theorems.                                                           *)
(***************************************************************************)

\* A call whose update callback refuses changes nothing, and neither does a stuttering step.
LEMMA StutterKeeps ==
  ASSUME IndInv, UNCHANGED kvVars
  PROVE  IndInv'
<1>1. UNCHANGED <<store, heap, broken, phase, undo, unsetBuf, rollbackBuf, committed, working>>
  BY DEF kvVars
<1>2. Types' /\ Stages' /\ ~broken'
  BY <1>1 DEF IndInv, Types, Stages
<1>3. ~undo => MayCommit'
  BY <1>1 DEF IndInv, MayCommit, Removals, Apart, Owned, Archived, Asked, Leaving, Pending, Unsets, Replaced, Content
<1>4. undo \/ (phase = "open" /\ RollbackOK) => MayRollback'
  BY <1>1, RollbackViewSame DEF IndInv
<1>5. RollbackOK' <=> RollbackOK
  BY <1>1 DEF RollbackOK, ArchivedTwice, ArchivedUnset
<1> QED BY <1>1, <1>2, <1>3, <1>4, <1>5 DEF IndInv

\* The empty store.
LEMMA InitInd == Init => IndInv
<1> SUFFICES ASSUME Init PROVE IndInv
  OBVIOUS
<1>1. /\ store = [s \in Slots |-> NULL] /\ heap = [c \in Cells |-> NULL] /\ ~broken /\ phase = "none" /\ ~undo
      /\ undo \in BOOLEAN /\ unsetBuf = <<>> /\ rollbackBuf = <<>>
      /\ committed = [s \in Slots |-> NULL] /\ working = [s \in Slots |-> NULL]
  BY DEF Init
<1>2. Types
  BY <1>1 DEF Types
<1>3. Stages
  BY <1>1 DEF Stages
<1>4. /\ \A s \in Slots : ~Leaving(s) /\ ~Pending(s) /\ store[s] = NULL /\ working[s] = NULL /\ Content(s) = NULL
      /\ \A c \in Cells : heap[c] = NULL
      /\ Replaced = {} /\ Unsets = {}
  BY <1>1 DEF Leaving, Pending, Unsets, Replaced, Content
<1>5. MayCommit
  BY <1>4 DEF MayCommit, Removals, Apart, Owned, Archived, Asked
<1> QED BY <1>1, <1>2, <1>3, <1>5 DEF IndInv

\* Every step of callers that keep to TouchOK and RollbackOK keeps the invariant.
LEMMA NextInd ==
  ASSUME IndInv, [Next]_kvVars
  PROVE  IndInv'
<1>1. \A s \in Slots, arch \in BOOLEAN : TouchOK(s, arch) => ~Pending(s) /\ (arch => ~Pending(Arc(s)))
  BY DEF TouchOK
<1>2. ASSUME NEW s \in Slots, NEW v \in Values, NEW arch \in BOOLEAN, NEW ok \in BOOLEAN,
             arch => s[2] = "rec", TouchOK(s, arch), Set(s, v, arch, ok)
      PROVE  IndInv'
  <2>1. ~Pending(s) /\ (arch => ~Pending(Arc(s)))
    BY <1>1, <1>2
  <2>2. (UNCHANGED kvVars) \/ Set(s, v, arch, TRUE)
    BY <1>2, Zenon DEF Set
  <2>3. phase = "none" \/ phase = "open"
    BY <1>2 DEF Set
  <2>4. v /= NULL /\ v \in Values \cup {NULL}
    BY NullAssumption
  <2>5. CASE phase = "none" /\ Set(s, v, arch, TRUE)
    BY <1>2, <2>4, <2>5, CallOutsideKeeps
  <2>6. CASE phase = "open" /\ Set(s, v, arch, TRUE)
    BY <1>2, <2>1, <2>6, SetInsideKeeps
  <2> QED BY <2>2, <2>3, <2>5, <2>6, StutterKeeps
<1>3. ASSUME NEW s \in Slots, NEW arch \in BOOLEAN, NEW ok \in BOOLEAN,
             arch => s[2] = "rec", TouchOK(s, arch), Unset(s, arch, ok)
      PROVE  IndInv'
  <2>1. ~Pending(s) /\ (arch => ~Pending(Arc(s)))
    BY <1>1, <1>3
  <2>2. (UNCHANGED kvVars) \/ Unset(s, arch, TRUE)
    BY <1>3, Zenon DEF Unset
  <2>3. phase = "none" \/ phase = "open"
    BY <1>3 DEF Unset
  <2>4. CASE phase = "none" /\ Unset(s, arch, TRUE)
    BY <1>3, <2>4, CallOutsideKeeps
  <2>5. CASE phase = "open" /\ Unset(s, arch, TRUE)
    BY <1>3, <2>1, <2>5, UnsetInsideKeeps
  <2> QED BY <2>2, <2>3, <2>4, <2>5, StutterKeeps
<1>4. CASE TransactionBegin
  BY <1>4, BeginKeeps
<1>5. CASE TransactionEnd(FALSE)
  BY <1>5, EndKeeps
<1>6. CASE RollbackOK /\ TransactionEnd(TRUE)
  BY <1>6, EndKeeps
<1>7. CASE EndStep
  BY <1>7, EndUnsetKeeps, EndUnsetDoneKeeps, EndRollbackKeeps, EndRollbackDoneKeeps DEF EndStep
<1>8. CASE UNCHANGED kvVars
  BY <1>8, StutterKeeps
<1> QED BY <1>2, <1>3, <1>4, <1>5, <1>6, <1>7, <1>8 DEF Next

\* The two views of the heap hold in every state of the store, whatever sequence of calls,
\* refusals, commits and rollbacks led there.
THEOREM Invariance == Spec => []IndInv
<1>1. IndInv /\ [Next]_kvVars => IndInv'
  BY NextInd
<1> QED BY <1>1, InitInd, PTL DEF Spec

\* The invariant says so of the heap: a record that does not own its value shows that of one that
\* does, in either view.
LEMMA IndSafe == IndInv => HeapSafe
<1> SUFFICES ASSUME IndInv, NEW s \in Slots, store[s] /= NULL
             PROVE  heap[store[s]] /= NULL
  BY DEF IndInv, HeapSafe
<1>1. Types
  BY DEF IndInv
<1>2. CASE undo
  <2>1. OwnedBack /\ Lent
    BY <1>2 DEF IndInv, MayRollback
  <2> QED BY <2>1, <1>1, Entries DEF OwnedBack, Lent
<1>3. CASE ~undo
  <2>1. MayCommit
    BY <1>3 DEF IndInv
  <2>2. CASE ~Leaving(s)
    BY <2>1, <2>2 DEF MayCommit, Owned
  <2>3. CASE Leaving(s)
    <3>1. Arc(s) \in Slots /\ ~Leaving(Arc(s))
      BY <2>1, SlotFacts DEF MayCommit, Removals, Leaving
    <3> QED BY <2>1, <2>3, <3>1 DEF MayCommit, Archived, Owned
  <2> QED BY <2>2, <2>3
<1> QED BY <1>2, <1>3

\* Between transactions the records own what there is.
LEMMA IndOwner == IndInv => OneOwner
<1> SUFFICES ASSUME IndInv, phase = "none"
             PROVE  \A c \in Cells : heap[c] /= NULL =>
                       \E s \in Slots : store[s] = c /\ \A t \in Slots : store[t] = c => t = s
  BY DEF OneOwner
<1>1. Settled
  BY SettledBefore DEF IndInv, Stages
<1> QED BY <1>1, NullAssumption DEF Settled

\* No value is freed twice and no record points to a freed one, in or out of a transaction
\* (_destroy_kv_store_value in _update_fn, _unset_fn, _rollback_fn, sid_kvs_transaction_end).
THEOREM NoUseAfterFree == Spec => []HeapSafe
  BY IndSafe, Invariance, PTL

\* Between transactions what is allocated belongs to exactly one record: nothing leaks
\* (sid_kvs_transaction_end has used up both buffers).
THEOREM NothingLeaks == Spec => []OneOwner
  BY IndOwner, Invariance, PTL

\* A commit leaves what was asked for, and a rollback what was there before; what a record that
\* was replaced again is left with is its value before the last time (sid_kvs_transaction_end).
THEOREM EndsAsExpectedHolds == Spec => []EndsAsExpected
<1>1. IndInv => EndsAsExpected
  <2> SUFFICES ASSUME IndInv, phase = "none"
               PROVE  \A s \in Slots : Content(s) = working[s]
    BY DEF EndsAsExpected
  <2>1. Settled
    BY SettledBefore DEF IndInv, Stages
  <2> QED BY <2>1 DEF Settled
<1> QED BY <1>1, Invariance, PTL
=============================================================================
