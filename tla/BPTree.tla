------------------------------- MODULE BPTree -------------------------------
(***************************************************************************)
(* The B+ tree behind the main key-value store and every worker's copy of  *)
(* it (src/src/internal/bptree.c, created with order 4 in ubr.c): search,  *)
(* insertion with node splits, aliases that share a record, deletion with  *)
(* borrowing and merging, iteration along the leaves, and the reference    *)
(* counts that free keys and records.                                      *)
(*                                                                         *)
(* Keys are numbers in the place of strings: strcmp is <, and the strings  *)
(* that start with a prefix are an interval that begins at or after it.    *)
(* Arrays and the loops that shift them are sequences.  A key object is    *)
(* identified with its text: NothingLeaks and Shape say that an object in  *)
(* an inner node is always one that a leaf holds too, so a text never has  *)
(* two objects.                                                            *)
(***************************************************************************)
EXTENDS Integers, SequencesExt

CONSTANTS
    Keys,           \* the keys, a set of numbers
    Data,           \* what the records hold
    Order,          \* bptree->order
    AliasPairs,     \* the <<key, alias>> that bptree_add_alias is called with
    KeyPrefixes,       \* <<p, last>>: a prefix, and the last key that starts with it
    Starts,         \* sequences of keys: the trees to start from, by insertion
    MaxOps          \* bound on the operations after that

ASSUME OrderAssumption == Order \in Nat /\ Order > 3

VARIABLES tree, ops

vars == <<tree, ops>>

NoNode == 0

FreshId(f) == CHOOSE i \in 1..Cardinality(DOMAIN f) + 1 :
                  i \notin DOMAIN f /\ \A j \in 1..(i - 1) : j \in DOMAIN f

With(f, i, v) == [x \in DOMAIN f \cup {i} |-> IF x = i THEN v ELSE f[x]]

Without(f, i) == [x \in DOMAIN f \ {i} |-> f[x]]

\* spare counts the nodes of node_list that are allocated and not yet used.
EmptyTree == [root |-> NoNode, node |-> << >>, rec |-> << >>,
              kref |-> [k \in Keys |-> 0], spare |-> 0]

Cut(n) == (n + 1) \div 2

---------------------------------------------------------------------------
(* References.                                                             *)

RefKey(t, k) == [t EXCEPT !.kref[k] = @ + 1]

UnrefKey(t, k) == [t EXCEPT !.kref[k] = @ - 1]

RefRecord(t, r) == [t EXCEPT !.rec[r].refs = @ + 1]

UnrefRecord(t, r) ==
    IF t.rec[r].refs > 1 THEN [t EXCEPT !.rec[r].refs = @ - 1]
    ELSE [t EXCEPT !.rec = Without(@, r)]

---------------------------------------------------------------------------
(* Search.                                                                 *)

\* The place of the first key that is not below k, or the end.
Descend(n, k) ==
    LET i == SelectInSeq(n.keys, LAMBDA x : k <= x)
    IN  IF i = 0 THEN Len(n.keys) + 1 ELSE i

FindLeaf(t, k) ==
    LET down[c \in DOMAIN t.node] ==
            IF t.node[c].leaf THEN c ELSE down[t.node[c].ptrs[Descend(t.node[c], k)]]
    IN  IF t.root = NoNode THEN NoNode ELSE down[t.root]

\* The leaf that would hold k, and the place of its first key among the wanted
\* ones (k, or those with the prefix k); 0 if none.
Find(t, k, wanted) ==
    LET leaf == FindLeaf(t, k)
    IN  [leaf |-> leaf,
         i |-> IF leaf = NoNode THEN 0 ELSE SelectInSeq(t.node[leaf].keys, LAMBDA x : x \in wanted)]

FindExact(t, k) == Find(t, k, {k})

Has(t, k) == FindExact(t, k).i # 0

RecordAt(t, at) == t.node[at.leaf].ptrs[at.i]

Lookup(t, k) == t.rec[RecordAt(t, FindExact(t, k))].data

---------------------------------------------------------------------------
(* Insertion.                                                              *)

InsertionPoint(n, k) ==
    LET i == SelectInSeq(n.keys, LAMBDA x : x > k)
    IN  IF i = 0 THEN Len(n.keys) + 1 ELSE i

InsertIntoLeaf(t, id, k, r) ==
    LET n == t.node[id]
        i == InsertionPoint(n, k)
    IN  RefRecord(RefKey([t EXCEPT !.node[id].keys = InsertAt(n.keys, i, k),
                                   !.node[id].ptrs = InsertAt(n.ptrs, i, r)], k), r)

\* Fault: the nodes that are full are counted, the new root is not.
NoRootNodesNeeded(t, id) ==
    LET full[c \in DOMAIN t.node \cup {NoNode}] ==
            IF c # NoNode /\ Len(t.node[c].keys) = Order - 1
            THEN 1 + full[t.node[c].parent] ELSE 0
    IN  full[id]

NumberOfNodesNeeded(t, id) ==
    LET full[c \in DOMAIN t.node \cup {NoNode}] ==
            IF c = NoNode THEN 1
            ELSE IF Len(t.node[c].keys) = Order - 1 THEN 1 + full[t.node[c].parent] ELSE 0
    IN  full[id]

\* A node is taken from the list and set up as new.
TakeNode(t, id, new) == [t EXCEPT !.node = With(@, id, new), !.spare = @ - 1]

InsertIntoNewRoot(t, left, k, right) ==
    LET root == FreshId(t.node)
        t1   == TakeNode(t, root, [leaf |-> FALSE, keys |-> <<k>>, ptrs |-> <<left, right>>,
                                   parent |-> NoNode, next |-> NoNode])
    IN  RefKey([t1 EXCEPT !.root = root, !.node[left].parent = root,
                          !.node[right].parent = root], k)

RECURSIVE InsertIntoParent(_, _, _, _)

\* A full inner node is cut in two; the key between the halves moves up.
InsertIntoNodeAfterSplitting(t, id, at, k, right) ==
    LET n     == t.node[id]
        keys  == InsertAt(n.keys, at, k)
        ptrs  == InsertAt(n.ptrs, at + 1, right)
        split == Cut(Order)
        new   == FreshId(t.node)
        t1    == TakeNode([t EXCEPT !.node[id].keys = SubSeq(keys, 1, split - 1),
                                    !.node[id].ptrs = SubSeq(ptrs, 1, split)],
                          new,
                          [leaf |-> FALSE, keys |-> SubSeq(keys, split + 1, Order),
                           ptrs |-> SubSeq(ptrs, split + 1, Order + 1),
                           parent |-> n.parent, next |-> NoNode])
        moved == Range(t1.node[new].ptrs)
        t2    == [t1 EXCEPT !.node = [c \in DOMAIN @ |->
                      IF c \in moved THEN [@[c] EXCEPT !.parent = new] ELSE @[c]]]
    IN  UnrefKey(InsertIntoParent(RefKey(t2, k), id, keys[split], new), keys[split])

InsertIntoNode(t, id, at, k, right) ==
    RefKey([t EXCEPT !.node[id].keys = InsertAt(@, at, k),
                     !.node[id].ptrs = InsertAt(@, at + 1, right)], k)

IndexOf(s, x) == SelectInSeq(s, LAMBDA y : y = x)

InsertIntoParent(t, left, k, right) ==
    LET id == t.node[left].parent
        at == IndexOf(t.node[id].ptrs, left)
    IN  IF id = NoNode THEN InsertIntoNewRoot(t, left, k, right)
        ELSE IF Len(t.node[id].keys) < Order - 1 THEN InsertIntoNode(t, id, at, k, right)
        ELSE InsertIntoNodeAfterSplitting(t, id, at, k, right)

InsertIntoLeafAfterSplitting(t, id, k, r) ==
    LET n     == t.node[id]
        i     == InsertionPoint(n, k)
        keys  == InsertAt(n.keys, i, k)
        ptrs  == InsertAt(n.ptrs, i, r)
        split == Cut(Order - 1)
        new   == FreshId(t.node)
        t1    == TakeNode([t EXCEPT !.node[id].keys = SubSeq(keys, 1, split),
                                    !.node[id].ptrs = SubSeq(ptrs, 1, split),
                                    !.node[id].next = new],
                          new,
                          [leaf |-> TRUE, keys |-> SubSeq(keys, split + 1, Order),
                           ptrs |-> SubSeq(ptrs, split + 1, Order),
                           parent |-> n.parent, next |-> n.next])
    IN  InsertIntoParent(RefRecord(RefKey(t1, k), r), id, keys[split], new)

\* All the nodes are allocated before the first change, so that a failure
\* leaves the tree as it was; the list must be used up exactly.
Insert(t, k, r) ==
    LET leaf  == FindLeaf(t, k)
        count == NumberOfNodesNeeded(t, leaf)
    IN  IF count = 0 THEN InsertIntoLeaf(t, leaf, k, r)
        ELSE InsertIntoLeafAfterSplitting([t EXCEPT !.spare = count], leaf, k, r)

CreateRoot(t, k, r) ==
    LET id == FreshId(t.node)
    IN  RefRecord(RefKey([t EXCEPT !.root = id,
            !.node = With(@, id, [leaf |-> TRUE, keys |-> <<k>>, ptrs |-> <<r>>,
                                  parent |-> NoNode, next |-> NoNode])], k), r)

SetData(t, at, d) == [t EXCEPT !.rec[RecordAt(t, at)].data = d]

Add(t, k, d) ==
    LET at == FindExact(t, k)
        r  == FreshId(t.rec)
        t1 == [t EXCEPT !.rec = With(@, r, [data |-> d, refs |-> 0])]
    IN  IF at.i # 0 THEN SetData(t, at, d)
        ELSE IF t.root = NoNode THEN CreateRoot(t1, k, r)
        ELSE Insert(t1, k, r)

\* Fault: a forced alias takes the key's record and keeps its own reference.
LeakyAddAlias(t, k, a, force) ==
    LET r == RecordAt(t, FindExact(t, k))
        at == FindExact(t, a)
    IN  IF at.i = 0 THEN Insert(t, a, r)
        ELSE IF RecordAt(t, at) = r \/ ~force THEN t
        ELSE RefRecord([t EXCEPT !.node[at.leaf].ptrs[at.i] = r], r)

AddAlias(t, k, a, force) ==
    LET r  == RecordAt(t, FindExact(t, k))
        at == FindExact(t, a)
    IN  IF at.i = 0 THEN Insert(t, a, r)
        ELSE IF RecordAt(t, at) = r \/ ~force THEN t
        ELSE UnrefRecord(RefRecord([t EXCEPT !.node[at.leaf].ptrs[at.i] = r], r),
                         RecordAt(t, at))

---------------------------------------------------------------------------
(* Deletion.                                                               *)

\* Fault: the last key of a leaf is not swapped out of the inner nodes.
StaleSeparatorRemoveEntry(t, id, k, p) ==
    LET n == t.node[id]
        i == IndexOf(n.keys, k)
        j == IndexOf(n.ptrs, p)
    IN  UnrefKey([t EXCEPT !.node[id].keys = RemoveAt(n.keys, i),
                           !.node[id].ptrs = RemoveAt(n.ptrs, j)], k)

\* The key goes, and the first pointer that equals the one removed.  When
\* the last key of a leaf goes, the key before it takes its place in the
\* closest inner node that holds it.
RemoveEntryFromNode(t, id, k, p) ==
    LET n == t.node[id]
        i == IndexOf(n.keys, k)
        j == IndexOf(n.ptrs, p)
        swap == n.parent # NoNode /\ n.leaf /\ i = Len(n.keys)
        holder[c \in DOMAIN t.node \cup {NoNode}] ==
            IF c = NoNode \/ Contains(t.node[c].keys, k) THEN c
            ELSE holder[t.node[c].parent]
        up == holder[n.parent]
        t1 == UnrefKey([t EXCEPT !.node[id].keys = RemoveAt(n.keys, i),
                                 !.node[id].ptrs = RemoveAt(n.ptrs, j)], k)
    IN  IF ~swap \/ up = NoNode THEN t1
        ELSE RefKey(UnrefKey([t1 EXCEPT !.node[up].keys =
                 ReplaceAt(@, IndexOf(@, k), n.keys[i - 1])], k),
                 n.keys[i - 1])

\* An empty root gives way to its only child, or to nothing.
AdjustRoot(t) ==
    LET n == t.node[t.root]
    IN  IF Len(n.keys) > 0 THEN t
        ELSE IF n.leaf THEN [t EXCEPT !.root = NoNode, !.node = Without(@, t.root)]
        ELSE [t EXCEPT !.root = n.ptrs[1],
                       !.node = Without([@ EXCEPT ![n.ptrs[1]].parent = NoNode], t.root)]

RECURSIVE DeleteEntry(_, _, _, _)

\* Fault: the merged leaf does not get the right neighbour of the one that goes.
UnlinkingCoalesce(t, left, right, prime) ==
    LET l == t.node[left]
        r == t.node[right]
        t1 == IF l.leaf
              THEN [t EXCEPT !.node[left].keys = @ \o r.keys, !.node[left].ptrs = @ \o r.ptrs,
                             !.node[left].next = NoNode]
              ELSE RefKey([t EXCEPT !.node = [c \in DOMAIN @ |->
                       IF c = left THEN [l EXCEPT !.keys = @ \o <<prime>> \o r.keys,
                                                  !.ptrs = @ \o r.ptrs]
                       ELSE IF Contains(r.ptrs, c) THEN [@[c] EXCEPT !.parent = left]
                       ELSE @[c]]], prime)
        t2 == DeleteEntry(t1, r.parent, prime, right)
    IN  [t2 EXCEPT !.node = Without(@, right)]

\* The right one of two neighbours is appended to the left one and goes.
CoalesceNodes(t, left, right, prime) ==
    LET l == t.node[left]
        r == t.node[right]
        t1 == IF l.leaf
              THEN [t EXCEPT !.node[left].keys = @ \o r.keys, !.node[left].ptrs = @ \o r.ptrs,
                             !.node[left].next = r.next]
              ELSE RefKey([t EXCEPT !.node = [c \in DOMAIN @ |->
                       IF c = left THEN [l EXCEPT !.keys = @ \o <<prime>> \o r.keys,
                                                  !.ptrs = @ \o r.ptrs]
                       ELSE IF Contains(r.ptrs, c) THEN [@[c] EXCEPT !.parent = left]
                       ELSE @[c]]], prime)
        t2 == DeleteEntry(t1, r.parent, prime, right)
    IN  [t2 EXCEPT !.node = Without(@, right)]

\* n takes the last entry of its left neighbour.
BorrowFromLeft(t, id, nid, at, prime) ==
    LET n   == t.node[id]
        nb  == t.node[nid]
        t1  == [t EXCEPT !.node[id].ptrs = <<Last(nb.ptrs)>> \o @,
                         !.node[nid].ptrs = Front(@), !.node[nid].keys = Front(@)]
    IN  IF n.leaf
        THEN LET sep == nb.keys[Len(nb.keys) - 1]
             IN  UnrefKey(RefKey([t1 EXCEPT !.node[id].keys = <<Last(nb.keys)>> \o @,
                                            !.node[n.parent].keys[at] = sep], sep), prime)
        ELSE [t1 EXCEPT !.node[id].keys = <<prime>> \o @,
                        !.node[n.parent].keys[at] = Last(nb.keys),
                        !.node[Last(nb.ptrs)].parent = id]

\* n, the leftmost child, takes the first entry of its right neighbour.
BorrowFromRight(t, id, nid, at, prime) ==
    LET n   == t.node[id]
        nb  == t.node[nid]
        t1  == [t EXCEPT !.node[id].ptrs = @ \o <<nb.ptrs[1]>>,
                         !.node[nid].ptrs = Tail(@), !.node[nid].keys = Tail(@),
                         !.node[n.parent].keys[at] = nb.keys[1]]
    IN  IF n.leaf
        THEN UnrefKey(RefKey([t1 EXCEPT !.node[id].keys = @ \o <<nb.keys[1]>>],
                             nb.keys[1]), prime)
        ELSE [t1 EXCEPT !.node[id].keys = @ \o <<prime>>, !.node[nb.ptrs[1]].parent = id]

MinKeys(n) == IF n.leaf THEN Cut(Order - 1) ELSE Cut(Order) - 1

DeleteEntry(t, id, k, p) ==
    LET t1    == RemoveEntryFromNode(t, id, k, p)
        n     == t1.node[id]
        par   == t1.node[n.parent]
        at    == IndexOf(par.ptrs, id) - 1
        prime == par.keys[IF at = 0 THEN 1 ELSE at]
        nid   == par.ptrs[IF at = 0 THEN 2 ELSE at]
        capacity == IF n.leaf THEN Order ELSE Order - 1
    IN  IF id = t1.root THEN AdjustRoot(t1)
        ELSE IF Len(n.keys) >= MinKeys(n) THEN t1
        ELSE IF Len(t1.node[nid].keys) + Len(n.keys) < capacity
        THEN IF at = 0 THEN CoalesceNodes(t1, id, nid, prime)
             ELSE CoalesceNodes(t1, nid, id, prime)
        ELSE IF at = 0 THEN BorrowFromRight(t1, id, nid, 1, prime)
             ELSE BorrowFromLeft(t1, id, nid, at, prime)

Delete(t, k) ==
    LET at == FindExact(t, k)
        r  == RecordAt(t, at)
    IN  IF at.i = 0 THEN t ELSE UnrefRecord(DeleteEntry(t, at.leaf, k, r), r)

\* Every key and pointer of every node is dropped, then the nodes go.
DestroyNodes(t) ==
    LET keysOf(c) == t.node[c].keys
        leafPtrs(c) == IF t.node[c].leaf THEN t.node[c].ptrs ELSE << >>
        dropKeys(u, c) == FoldLeft(UnrefKey, u, keysOf(c))
        dropRecs(u, c) == FoldLeft(UnrefRecord, u, leafPtrs(c))
        drop(c, u) == dropRecs(dropKeys(u, c), c)
    IN  [FoldSet(drop, t, DOMAIN t.node) EXCEPT !.root = NoNode, !.node = << >>]

---------------------------------------------------------------------------
(* Iteration.                                                              *)

\* An iterator is at a place of a leaf, or (c = NoNode) before its start and
\* past its end.
IterNext(t, it, from, within) ==
    LET n  == t.node[it.c]
        to == IF it.c = NoNode THEN from
              ELSE IF it.i < Len(n.keys) THEN [it EXCEPT !.i = @ + 1]
              ELSE [c |-> n.next, i |-> 1]
    IN  IF to.c # NoNode /\ t.node[to.c].keys[to.i] \in within THEN to
        ELSE [c |-> NoNode, i |-> 1]

FirstLeaf(t) ==
    LET down[c \in DOMAIN t.node] ==
            IF t.node[c].leaf THEN c ELSE down[t.node[c].ptrs[1]]
    IN  IF t.root = NoNode THEN NoNode ELSE down[t.root]

\* What an iterator that starts at `from' visits of the keys within.
Visited(t, from, within) ==
    LET walk[n \in 0..Cardinality(Keys) + 1] ==
            IF n = 0 THEN << >>
            ELSE LET s  == walk[n - 1]
                     it == IterNext(t, IF s = << >> THEN [c |-> NoNode, i |-> 1] ELSE Last(s),
                                    from, within)
                 IN  IF Len(s) < n - 1 \/ it.c = NoNode THEN s ELSE Append(s, it)
        places == walk[Cardinality(Keys) + 1]
    IN  [j \in DOMAIN places |-> t.node[places[j].c].keys[places[j].i]]

VisitAll(t) == Visited(t, [c |-> FirstLeaf(t), i |-> 1], Keys)

\* A prefix that no key of the leaf starts with leaves the iterator at the
\* first key of the leaf, which is then not within the prefix.
VisitPrefix(t, p, last) ==
    LET at == Find(t, p, p..last)
    IN  Visited(t, [c |-> at.leaf, i |-> IF at.i = 0 THEN 1 ELSE at.i], p..last)

\* A first key that is not there leaves the iterator at the first key of the
\* leaf it belongs to, and nothing tests the lower end after that.
VisitRange(t, from, to) ==
    LET at == FindExact(t, from)
    IN  Visited(t, [c |-> at.leaf, i |-> IF at.i = 0 THEN 1 ELSE at.i],
                {k \in Keys : k <= to})

---------------------------------------------------------------------------
(* The operations.                                                         *)

First == CHOOSE d \in Data : TRUE

Started(s) == FoldLeft(LAMBDA t, k : Add(t, k, First), EmptyTree, s)

Init == ops = 0 /\ tree \in {Started(s) : s \in Starts}

Step == ops < MaxOps /\ ops' = ops + 1

\* Out of memory: what was allocated is destroyed again and the tree kept.
OutOfMemory == UNCHANGED tree

bptree_add(k, d) ==
    /\ Step
    /\ \/ tree' = Add(tree, k, d)
       \/ ~Has(tree, k) /\ OutOfMemory

bptree_add_alias(k, a, force) ==
    /\ Step
    /\ IF Has(tree, k) THEN tree' = AddAlias(tree, k, a, force) ELSE UNCHANGED tree

\* The callback of bptree_update decides: write, remove or skip.
bptree_update(k, act, d) ==
    /\ Step
    /\ \/ act = "write" /\ tree' = Add(tree, k, d)
       \/ act = "remove" /\ tree' = Delete(tree, k)
       \/ act = "skip" /\ UNCHANGED tree

bptree_del(k) == Step /\ tree' = Delete(tree, k)

\* The tree goes; what it leaves behind would be leaked.
bptree_destroy == Step /\ tree' = DestroyNodes(tree)

Next ==
    \/ \E k \in Keys, d \in Data : bptree_add(k, d)
    \/ \E pair \in AliasPairs, force \in BOOLEAN : bptree_add_alias(pair[1], pair[2], force)
    \/ \E k \in Keys, d \in Data, act \in {"write", "remove", "skip"} :
           bptree_update(k, act, d)
    \/ \E k \in Keys : bptree_del(k)
    \/ bptree_destroy

Spec == Init /\ [][Next]_vars

---------------------------------------------------------------------------
(* Properties.                                                             *)

Leaves(t) == {c \in DOMAIN t.node : t.node[c].leaf}

LeafKeys(t) == UNION {Range(t.node[c].keys) : c \in Leaves(t)}

Sorted(s) == \A i, j \in DOMAIN s : i < j => s[i] < s[j]

\* The greatest key below a node, and the number of levels below it.
Greatest(t) ==
    LET g[c \in DOMAIN t.node] ==
            IF t.node[c].leaf THEN Last(t.node[c].keys) ELSE g[Last(t.node[c].ptrs)]
    IN  g

Height(t) ==
    LET h[c \in DOMAIN t.node] ==
            IF t.node[c].leaf THEN 0 ELSE 1 + h[t.node[c].ptrs[1]]
    IN  h

\* Between two calls the nodes are a balanced search tree: every node but the
\* root is at least half full and none is over-full, children point back at
\* their parents, all leaves are equally deep, and every key of an inner node
\* is the greatest key below the child to its left (bptree.c splits, borrows
\* and merges; verify_bptree of the tests checks it for hand-made cases).
Shape ==
    \A c \in DOMAIN tree.node :
        LET n == tree.node[c] IN
        /\ Sorted(n.keys) /\ Len(n.keys) < Order
        /\ c # tree.root => Len(n.keys) >= MinKeys(n)
        /\ c = tree.root => n.parent = NoNode
        /\ n.leaf => Len(n.ptrs) = Len(n.keys)
        /\ ~n.leaf =>
               /\ Len(n.ptrs) = Len(n.keys) + 1
               /\ \A i \in DOMAIN n.ptrs : tree.node[n.ptrs[i]].parent = c
               /\ \A i, j \in DOMAIN n.ptrs :
                      Height(tree)[n.ptrs[i]] = Height(tree)[n.ptrs[j]]
               /\ \A i \in DOMAIN n.keys : n.keys[i] = Greatest(tree)[n.ptrs[i]]

\* Every iterator sees what lookups see: following the leaves from the first
\* one, or from the place a prefix search finds, visits exactly the keys there
\* are (with the prefix), in order (bptree_iter_next along the leaf pointers).
\* So does a range whose first key is in the tree; from a first key that is not
\* it misses none of the range, but may visit smaller keys of the leaf before.
IterationComplete ==
    LET all == VisitAll(tree)
        Matching(p) == {k \in Keys : Has(tree, k) /\ p[1] <= k /\ k <= p[2]}
    IN  /\ Sorted(all)
        /\ Range(all) = {k \in Keys : Has(tree, k)}
        /\ \A p \in KeyPrefixes :
               LET some == VisitPrefix(tree, p[1], p[2])
                   range == VisitRange(tree, p[1], p[2])
               IN  /\ Sorted(some) /\ Range(some) = Matching(p)
                   /\ Sorted(range) /\ Matching(p) \subseteq Range(range)
                   /\ Has(tree, p[1]) => Range(range) = Matching(p)

Occurrences(s, x) == Cardinality({i \in DOMAIN s : s[i] = x})

\* References are exact between two calls: a key object counts its places in
\* the nodes, a record the leaf pointers to it, no record is without one, and
\* the nodes allocated for an insertion were exactly the ones it used (the
\* assertions of _get_node_from_list and _insert).
NothingLeaks ==
    /\ \A k \in Keys : tree.kref[k] =
           MapThenSumSet(LAMBDA c : Occurrences(tree.node[c].keys, k), DOMAIN tree.node)
    /\ \A r \in DOMAIN tree.rec : tree.rec[r].refs > 0 /\ tree.rec[r].refs =
           MapThenSumSet(LAMBDA c : Occurrences(tree.node[c].ptrs, r), Leaves(tree))
    /\ tree.spare = 0

\* The records as the callers see them: who shares what data.
SharedRecords ==
    LET t == tree
        KeysOf(r) == UNION {{t.node[c].keys[i] : i \in {j \in DOMAIN t.node[c].keys :
                                                            t.node[c].ptrs[j] = r}} :
                            c \in Leaves(t)}
    IN  {[keys |-> KeysOf(r), data |-> t.rec[r].data] : r \in DOMAIN t.rec}

Map == INSTANCE KeyMap WITH shared <- SharedRecords

\* The tree is a map with shared records: every operation has the effect that
\* KeyMap gives it on the records, whatever nodes it splits and merges.
RefinesMap == Map!Spec

\* Deleting a key, an alias or not, leaves every other key its data.
DeleteKeepsOthers ==
    [][\A k \in LeafKeys(tree) \cap LeafKeys(tree') :
           LeafKeys(tree') \subseteq LeafKeys(tree) /\ LeafKeys(tree') # LeafKeys(tree)
               => Lookup(tree', k) = Lookup(tree, k)]_vars
=============================================================================
