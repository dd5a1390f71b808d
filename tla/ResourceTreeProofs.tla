------------------------- MODULE ResourceTreeProofs -------------------------
(***************************************************************************)
(* The shape of the tree of Resource and the walks over it, for any trees, *)
(* any number of resources and iterators: TreeSound, NothingKeepsItself,   *)
(* WalkMissesNothing and SearchesReach.                                    *)
(*                                                                         *)
(* What is above a resource is the least set with its parent and theirs,   *)
(* so that nothing is above itself as long as each resource has a set of   *)
(* that kind that it is not in.  Lists of children change by the removal   *)
(* and the insertion of single children; what a walk has yet to see keeps  *)
(* its order.  A search is described from the children upwards, the way up *)
(* from the parents downwards, by a resource with the fewest below, or     *)
(* above, of which the description would be wrong.                         *)
(***************************************************************************)
EXTENDS ResourceProofs, WellFoundedInduction

\* The parents of the resources of S are in S.
Upward(R, S) == \A x \in S : R[x].parent \in S \cup {None}

\* The resources above r: the least set with its parent and theirs.
Above(R, r) ==
    {x \in DOMAIN R : \A S \in SUBSET DOMAIN R :
                          Upward(R, S) /\ R[r].parent \in S \cup {None} => x \in S}

KidTypes(R) ==
    /\ IsFiniteSet(DOMAIN R)
    /\ \A x \in DOMAIN R : R[x].kids \in Seq(Res) /\ R[x].prio \in Int

Acyclic(R) == \A r \in DOMAIN R : r \notin Above(R, r)

Tree(R) == KidTypes(R) /\ Families(R) /\ Acyclic(R)

\* No resource keeps a reference on itself or on one above it.
Apart ==
    \A i \in DOMAIN iter : iter[i].refd =>
        /\ iter[i].owner /= iter[i].res
        /\ iter[i].owner \in Live => iter[i].res \notin Above(res, iter[i].owner)

\* A resource is created below one of those created before it, if below any of them.
Stacked == \A k \in 1..Len(creating) : \A j \in 1..k : res[creating[j]].parent /= creating[k]

TreeInd == IndInv /\ Tree(res) /\ Apart /\ Stacked

Before(s, x, y) == \E i, j \in 1..Len(s) : i < j /\ s[i] = x /\ s[j] = y

In(s, x) == \E i \in 1..Len(s) : s[i] = x

\* A walk along kids that goes on with next, ListHead at its end, has still to come to what it
\* has yet to show, and will not come to what it has shown.
Ahead(kids, next, yet, shown) ==
    IF next = ListHead THEN yet = {}
    ELSE /\ In(kids, next) /\ next \notin shown
         /\ \A x \in yet : x = next \/ Before(kids, next, x)
         /\ \A x \in shown : ~Before(kids, next, x)

\* What a walk has yet to show, and what it goes on with.
Yet(it) == it.toSee \ Range(it.seen)

Course(it) ==
    Yet(it) \cup (IF it.dir \in {"start", "fwd"} THEN {it.next} ELSE {})
            \cup (IF it.dir \in {"start", "back"} THEN {it.prev} ELSE {})

\* A walk over the tree R that is not over; the children in the making do not matter to it.
OnCourse(R, making, it) ==
    /\ \A x \in Yet(it) : x \in DOMAIN R /\ "down" \notin R[x].flags
    /\ it.dir = "start" => Range(it.seen) = {} /\ it.cur = ListHead
    /\ it.dir \in {"fwd", "back"} => it.cur \in Range(it.seen)
    /\ it.dir \in {"start", "fwd"} => Ahead(R[it.res].kids, it.next, Yet(it), Range(it.seen))
    /\ it.dir \in {"start", "back"} =>
          Ahead(Reverse(R[it.res].kids), it.prev, Yet(it), Range(it.seen))
    /\ \A x \in making : R[x].parent = it.res => it.dir = "start" /\ x \notin Course(it)

WalkOf(R, making, it) ==
    /\ it.seen \in Seq(Res) /\ \A a, b \in 1..Len(it.seen) : a /= b => it.seen[a] /= it.seen[b]
    /\ it.dir \in {"start", "fwd", "back", "over"}
    /\ it.dir = "over" => Yet(it) = {}
    /\ it.dir /= "over" => OnCourse(R, making, it)

WalkInd == TreeInd /\ \A i \in DOMAIN iter : WalkOf(res, InMaking, iter[i])
-----------------------------------------------------------------------------
(***************************************************************************)
(* Lists of children, by what is in them and what is before what.          *)
(***************************************************************************)

\* A relation that contains < has a least element of a set only if < has one.
LEMMA Least ==
  ASSUME NEW R, NEW T \in SUBSET Nat, \A x, y \in Nat : x < y => <<x, y>> \in R,
         \E x \in T : \A y \in T : ~(<<y, x>> \in R)
  PROVE  \E n \in T : \A m \in T : n <= m
<1>1. PICK x \in T : \A y \in T : ~(<<y, x>> \in R)
  OBVIOUS
<1>2. \A y \in T : ~(y < x)
  <2> TAKE y \in T
  <2>1. x \in Nat /\ y \in Nat
    OBVIOUS
  <2>2. y < x => <<y, x>> \in R
    BY <2>1, Zenon
  <2>3. ~(<<y, x>> \in R)
    BY <1>1, Zenon
  <2> QED BY <2>2, <2>3, Zenon
<1>3. \A y \in T : x <= y
  BY <1>2
<1> QED BY <1>3

\* A set of naturals that is not empty has a least element.
LEMMA NatMin ==
  ASSUME NEW T \in SUBSET Nat, T /= {}
  PROVE  \E n \in T : \A m \in T : n <= m
<1>1. \E x \in T : \A y \in T : ~(<<y, x>> \in OpToRel(<, Nat))
  BY NatLessThanWellFounded, WFMin
<1>2. \A x, y \in Nat : x < y => <<x, y>> \in OpToRel(<, Nat)
  <2> TAKE x, y \in Nat
  <2> HAVE x < y
  <2>1. <<x, y>> \in Nat \X Nat /\ <<x, y>>[1] = x /\ <<x, y>>[2] = y
    OBVIOUS
  <2>2. <<x, y>>[1] < <<x, y>>[2]
    BY <2>1
  <2> QED BY <2>1, <2>2, Zenon DEF OpToRel
<1> QED BY <1>1, <1>2, Least, Zenon

\* What the first m steps from v0 lead to.
Steps(f, V, v0, step, m) ==
    f \in [0..m -> V] /\ f[0] = v0 /\ \A n \in 1..m : f[n] = step[n][f[n - 1]]

\* A function that is defined step by step exists.
LEMMA Iterated ==
  ASSUME NEW V, NEW v0 \in V, NEW m \in Nat, NEW step \in [1..m -> [V -> V]]
  PROVE  \E f : Steps(f, V, v0, step, m)
<1> DEFINE Bad == {k \in 0..m : ~\E f : Steps(f, V, v0, step, k)}
<1>0. m \in 0..m
  OBVIOUS
<1> SUFFICES ASSUME Bad /= {} PROVE FALSE
  BY <1>0, Zenon
<1>1. Bad \in SUBSET Nat
  OBVIOUS
<1>2. PICK k \in Bad : \A j \in Bad : k <= j
  BY <1>1, NatMin
<1>3. k \in 0..m /\ k \in Nat
  OBVIOUS
<1>4. k /= 0
  <2> DEFINE f == [n \in 0..0 |-> v0]
  <2>1. f \in [0..0 -> V] /\ f[0] = v0
    OBVIOUS
  <2>2. \A n \in 1..0 : f[n] = step[n][f[n - 1]]
    OBVIOUS
  <2> HIDE DEF f
  <2>3. Steps(f, V, v0, step, 0)
    BY <2>1, <2>2 DEF Steps
  <2> QED BY <2>3
<1>5. k - 1 \in 0..m /\ ~(k <= k - 1)
  BY <1>3, <1>4
<1>6. PICK f : Steps(f, V, v0, step, k - 1)
  BY <1>2, <1>5
<1>7. f \in [0..(k - 1) -> V] /\ f[0] = v0 /\ \A n \in 1..(k - 1) : f[n] = step[n][f[n - 1]]
  BY <1>6 DEF Steps
<1> DEFINE g == [n \in 0..k |-> IF n = k THEN step[k][f[k - 1]] ELSE f[n]]
<1>8. step[k][f[k - 1]] \in V
  <2>1. f[k - 1] \in V /\ k \in 1..m
    BY <1>3, <1>4, <1>7
  <2> QED BY <2>1
<1>9. g \in [0..k -> V]
  <2>1. \A n \in 0..k : n /= k => n \in 0..(k - 1)
    BY <1>3
  <2> QED BY <1>7, <1>8, <2>1
<1>10. g[0] = v0
  BY <1>3, <1>4, <1>7
<1>11. \A n \in 1..k : g[n] = step[n][g[n - 1]]
  <2> TAKE n \in 1..k
  <2>1. n - 1 \in 0..k /\ n - 1 /= k /\ n \in 0..k
    BY <1>3
  <2>2. g[n - 1] = f[n - 1]
    BY <2>1
  <2>3. n /= k => n \in 1..(k - 1)
    BY <1>3
  <2> QED BY <1>7, <2>1, <2>2, <2>3
<1> HIDE DEF g
<1>12. Steps(g, V, v0, step, k)
  BY <1>9, <1>10, <1>11 DEF Steps
<1> QED BY <1>2, <1>12

\* The first n children without those of D, as a list.
KeptOf(s, D, n, t) ==
    /\ t \in Seq(Res)
    /\ \A x : In(t, x) <=> x \notin D /\ \E i \in 1..n : s[i] = x
    /\ \A x, y : Before(t, x, y) <=> /\ x \notin D /\ y \notin D
                                     /\ \E i, j \in 1..n : i < j /\ s[i] = x /\ s[j] = y

\* A list grows at its end.
LEMMA AppendFacts ==
  ASSUME NEW t \in Seq(Res), NEW e \in Res
  PROVE  /\ Append(t, e) \in Seq(Res)
         /\ \A x : In(Append(t, e), x) <=> In(t, x) \/ x = e
         /\ \A x, y : Before(Append(t, e), x, y) <=> Before(t, x, y) \/ (In(t, x) /\ y = e)
<1> DEFINE u == Append(t, e)
<1>1. /\ u \in Seq(Res) /\ Len(t) \in Nat /\ Len(u) = Len(t) + 1 /\ u[Len(t) + 1] = e
      /\ \A i \in 1..Len(t) : u[i] = t[i]
  OBVIOUS
<1> HIDE DEF u
<1>2. \A x : In(u, x) <=> In(t, x) \/ x = e
  BY <1>1 DEF In
<1>3. ASSUME NEW x, NEW y, Before(u, x, y) PROVE Before(t, x, y) \/ (In(t, x) /\ y = e)
  <2>1. PICK i, j \in 1..Len(u) : i < j /\ u[i] = x /\ u[j] = y
    BY <1>3 DEF Before
  <2>2. i \in 1..Len(t)
    BY <1>1, <2>1
  <2>3. CASE j \in 1..Len(t)
    BY <1>1, <2>1, <2>2, <2>3 DEF Before
  <2>4. CASE j = Len(t) + 1
    BY <1>1, <2>1, <2>2, <2>4 DEF In
  <2> QED BY <1>1, <2>3, <2>4
<1>4. ASSUME NEW x, NEW y, Before(t, x, y) PROVE Before(u, x, y)
  <2>1. PICK i, j \in 1..Len(t) : i < j /\ t[i] = x /\ t[j] = y
    BY <1>4 DEF Before
  <2>2. i \in 1..Len(u) /\ j \in 1..Len(u) /\ u[i] = x /\ u[j] = y
    BY <1>1, <2>1
  <2> QED BY <2>1, <2>2 DEF Before
<1>5. ASSUME NEW x, In(t, x) PROVE Before(u, x, e)
  <2>1. PICK i \in 1..Len(t) : t[i] = x
    BY <1>5 DEF In
  <2>2. i \in 1..Len(u) /\ Len(t) + 1 \in 1..Len(u) /\ i < Len(t) + 1 /\ u[i] = x
    BY <1>1, <2>1
  <2> QED BY <1>1, <2>2 DEF Before
<1> QED BY <1>1, <1>2, <1>3, <1>4, <1>5 DEF u

\* One more child is kept or not.
LEMMA KeptStep ==
  ASSUME NEW s \in Seq(Res), NEW D, NEW n \in 1..Len(s), NEW t, KeptOf(s, D, n - 1, t)
  PROVE  KeptOf(s, D, n, IF s[n] \in D THEN t ELSE Append(t, s[n]))
<1>1. /\ n \in Nat /\ n \in 1..n /\ s[n] \in Res
      /\ \A i : i \in 1..n <=> i \in 1..(n - 1) \/ i = n
      /\ \A i \in 1..n : i < n => i \in 1..(n - 1)
      /\ \A i \in 1..(n - 1) : i < n
      /\ \A i \in 1..(n - 1), j \in 1..(n - 1) : i \in 1..n /\ j \in 1..n
  OBVIOUS
<1>2. /\ t \in Seq(Res)
      /\ \A x : In(t, x) <=> x \notin D /\ \E i \in 1..(n - 1) : s[i] = x
      /\ \A x, y : Before(t, x, y) <=>
            /\ x \notin D /\ y \notin D
            /\ \E i, j \in 1..(n - 1) : i < j /\ s[i] = x /\ s[j] = y
  BY DEF KeptOf
<1>3. \A x : (\E i \in 1..n : s[i] = x) <=> (\E i \in 1..(n - 1) : s[i] = x) \/ x = s[n]
  BY <1>1
<1>4. \A x, y : (\E i, j \in 1..n : i < j /\ s[i] = x /\ s[j] = y)
                  <=> \/ \E i, j \in 1..(n - 1) : i < j /\ s[i] = x /\ s[j] = y
                      \/ (\E i \in 1..(n - 1) : s[i] = x) /\ y = s[n]
  <2>1. ASSUME NEW x, NEW y, \E i, j \in 1..n : i < j /\ s[i] = x /\ s[j] = y
        PROVE  \/ \E i, j \in 1..(n - 1) : i < j /\ s[i] = x /\ s[j] = y
               \/ (\E i \in 1..(n - 1) : s[i] = x) /\ y = s[n]
    <3>1. PICK i, j \in 1..n : i < j /\ s[i] = x /\ s[j] = y
      BY <2>1
    <3>2. i \in 1..(n - 1) /\ (j = n \/ j \in 1..(n - 1))
      BY <3>1
    <3> QED BY <3>1, <3>2
  <2>2. ASSUME NEW x, NEW y, NEW i \in 1..(n - 1), s[i] = x, y = s[n]
        PROVE  \E k, j \in 1..n : k < j /\ s[k] = x /\ s[j] = y
    <3>1. i \in 1..n /\ n \in 1..n /\ i < n
      OBVIOUS
    <3> QED BY <2>2, <3>1
  <2>3. ASSUME NEW x, NEW y, NEW i \in 1..(n - 1), NEW j \in 1..(n - 1), i < j, s[i] = x, s[j] = y
        PROVE  \E k, l \in 1..n : k < l /\ s[k] = x /\ s[l] = y
    BY <1>1, <2>3
  <2> QED BY <2>1, <2>2, <2>3
<1>5. CASE s[n] \in D
  BY <1>2, <1>3, <1>4, <1>5 DEF KeptOf
<1>6. CASE s[n] \notin D
  <2>1. /\ Append(t, s[n]) \in Seq(Res)
        /\ \A x : In(Append(t, s[n]), x) <=> In(t, x) \/ x = s[n]
        /\ \A x, y : Before(Append(t, s[n]), x, y) <=> Before(t, x, y) \/ (In(t, x) /\ y = s[n])
    BY <1>1, <1>2, AppendFacts
  <2> QED BY <1>2, <1>3, <1>4, <1>6, <2>1 DEF KeptOf
<1> QED BY <1>5, <1>6

\* The empty list, before the first child.
LEMMA KeptNone ==
  ASSUME NEW s, NEW D
  PROVE  KeptOf(s, D, 0, << >>)
<1>1. << >> \in Seq(Res) /\ Len(<< >>) = 0 /\ 1..0 = {}
  OBVIOUS
<1> QED BY <1>1 DEF KeptOf, In, Before

\* Kept keeps the order of what it keeps.
LEMMA KeptFacts ==
  ASSUME NEW s \in Seq(Res), NEW D
  PROVE  /\ Kept(s, D) \in Seq(Res)
         /\ \A x : In(Kept(s, D), x) <=> In(s, x) /\ x \notin D
         /\ \A x, y : Before(Kept(s, D), x, y) <=> Before(s, x, y) /\ x \notin D /\ y \notin D
<1> DEFINE m == Len(s)
           V == Seq(Res)
           Eq(f) == f = [n \in 0..m |-> IF n = 0 THEN << >>
                                        ELSE IF s[n] \in D THEN f[n - 1] ELSE Append(f[n - 1], s[n])]
           kept == CHOOSE f : Eq(f)
           step == [n \in 1..m |-> [v \in V |-> IF s[n] \in D THEN v ELSE Append(v, s[n])]]
<1>1. m \in Nat /\ << >> \in V /\ \A n \in 1..m : s[n] \in Res
  OBVIOUS
<1>2. step \in [1..m -> [V -> V]]
  BY <1>1
<1>3. PICK f : Steps(f, V, << >>, step, m)
  <2> HIDE DEF m, V, step
  <2> QED BY <1>1, <1>2, Iterated
<1>4. Eq(f)
  <2>1. f \in [0..m -> V] /\ f[0] = << >> /\ \A n \in 1..m : f[n] = step[n][f[n - 1]]
    BY <1>3 DEF Steps
  <2>2. ASSUME NEW n \in 0..m, n /= 0
        PROVE  f[n] = IF s[n] \in D THEN f[n - 1] ELSE Append(f[n - 1], s[n])
    <3>1. n \in 1..m /\ n - 1 \in 0..m
      BY <1>1, <2>2
    <3>2. f[n - 1] \in V
      BY <2>1, <3>1
    <3>3. f[n] = step[n][f[n - 1]]
      BY <2>1, <3>1
    <3> QED BY <3>1, <3>2, <3>3
  <2> HIDE DEF m, V, step
  <2> QED BY <2>1, <2>2
<1>5. Eq(kept)
  BY <1>4
<1>6. Kept(s, D) = kept[m]
  BY DEF Kept
<1> HIDE DEF kept, step, V
<1>7. \A n \in 0..m : KeptOf(s, D, n, kept[n])
  <2> DEFINE Bad == {n \in 0..m : ~KeptOf(s, D, n, kept[n])}
  <2> SUFFICES ASSUME Bad /= {} PROVE FALSE
    OBVIOUS
  <2>1. Bad \in SUBSET Nat
    OBVIOUS
  <2>2. PICK n \in Bad : \A k \in Bad : n <= k
    BY <2>1, NatMin
  <2>3. n \in 0..m
    OBVIOUS
  <2>4. n /= 0
    BY <1>1, <1>5, KeptNone
  <2>5. n \in 1..m /\ n - 1 \in 0..m /\ ~(n <= n - 1)
    BY <1>1, <2>3, <2>4
  <2>6. KeptOf(s, D, n - 1, kept[n - 1])
    BY <2>2, <2>5
  <2>7. KeptOf(s, D, n, IF s[n] \in D THEN kept[n - 1] ELSE Append(kept[n - 1], s[n]))
    BY <2>5, <2>6, KeptStep
  <2>8. kept[n] = IF s[n] \in D THEN kept[n - 1] ELSE Append(kept[n - 1], s[n])
    BY <1>5, <2>3, <2>4
  <2>9. KeptOf(s, D, n, kept[n])
    BY <2>7, <2>8, Zenon
  <2> QED BY <2>2, <2>9
<1>8. KeptOf(s, D, m, Kept(s, D))
  <2>1. m \in 0..m
    BY <1>1
  <2> QED BY <1>6, <1>7, <2>1
<1> QED BY <1>8 DEF KeptOf, In, Before

\* Siblings are ordered by priority.
Sorted(R, s) == \A x, y : Before(s, x, y) => x /= y /\ R[x].prio <= R[y].prio

\* Where a child with the priority of n goes.
At(R, s, n) ==
    LET later == {i \in DOMAIN s : R[n].prio < R[s[i]].prio}
    IN  IF later = {} THEN Len(s) + 1 ELSE Min(later)

\* The place of a child among its siblings.
LEMMA AtFacts ==
  ASSUME NEW R, NEW s \in Seq(Res), NEW n
  PROVE  /\ At(R, s, n) \in 1..(Len(s) + 1)
         /\ \A i \in 1..Len(s) : i < At(R, s, n) => ~(R[n].prio < R[s[i]].prio)
         /\ At(R, s, n) \in 1..Len(s) => R[n].prio < R[s[At(R, s, n)]].prio
<1> DEFINE later == {i \in DOMAIN s : R[n].prio < R[s[i]].prio}
<1>1. DOMAIN s = 1..Len(s) /\ Len(s) \in Nat
  OBVIOUS
<1>2. later \in SUBSET Nat /\ \A i \in 1..Len(s) : i \notin later => ~(R[n].prio < R[s[i]].prio)
  BY <1>1
<1>3. \A i \in later : i \in 1..Len(s) /\ R[n].prio < R[s[i]].prio
  BY <1>1
<1>4. At(R, s, n) = IF later = {} THEN Len(s) + 1 ELSE Min(later)
  BY DEF At
<1> HIDE DEF later
<1>5. CASE later = {}
  BY <1>1, <1>2, <1>4, <1>5
<1>6. CASE later /= {}
  <2>1. \E k \in later : \A m \in later : k <= m
    BY <1>2, <1>6, NatMin
  <2>2. PICK k \in later : k = Min(later) /\ \A m \in later : k <= m
    BY <2>1 DEF Min
  <2>3. At(R, s, n) = k
    BY <1>4, <1>6, <2>2
  <2>4. \A i \in 1..Len(s) : i < k => i \notin later
    BY <1>2, <2>2
  <2> QED BY <1>1, <1>2, <1>3, <2>2, <2>3, <2>4
<1> QED BY <1>5, <1>6

\* t is s with n inserted as its element at.
Inserted(t, s, at, n) ==
    /\ t \in Seq(Res) /\ Len(t) = Len(s) + 1
    /\ \A i \in 1..(Len(s) + 1) : t[i] = IF i < at THEN s[i] ELSE IF i = at THEN n ELSE s[i - 1]

\* The elements of a list with one inserted.
LEMMA InsertedAt ==
  ASSUME NEW s \in Seq(Res), NEW at \in 1..(Len(s) + 1), NEW n \in Res
  PROVE  Inserted(InsertAt(s, at, n), s, at, n)
<1> DEFINE a == SubSeq(s, 1, at - 1)
           c == SubSeq(s, at, Len(s))
           b == a \o <<n>>
<1>1. /\ a \in Seq(Res) /\ Len(a) = at - 1 /\ \A i \in 1..(at - 1) : a[i] = s[i]
  OBVIOUS
<1>2. /\ c \in Seq(Res) /\ Len(c) = Len(s) - at + 1 /\ \A i \in 1..Len(c) : c[i] = s[i + at - 1]
  OBVIOUS
<1>3. InsertAt(s, at, n) = b \o c
  BY DEF InsertAt
<1> HIDE DEF a, c
<1>4. /\ b \in Seq(Res) /\ Len(b) = at /\ b[at] = n /\ \A i \in 1..(at - 1) : b[i] = s[i]
  BY <1>1
<1> HIDE DEF b
<1>5. b \o c \in Seq(Res) /\ Len(b \o c) = Len(s) + 1
  <2>1. b \o c \in Seq(Res) /\ Len(b \o c) = Len(b) + Len(c)
    <3>1. b \in Seq(Res) /\ c \in Seq(Res)
      BY <1>2, <1>4
    <3> QED BY ONLY <3>1, ConcatProperties
  <2>2. Len(s) \in Nat /\ at \in Nat
    OBVIOUS
  <2> QED BY <1>2, <1>4, <2>1, <2>2
<1>6. ASSUME NEW i \in 1..(Len(s) + 1)
      PROVE  (b \o c)[i] = IF i < at THEN s[i] ELSE IF i = at THEN n ELSE s[i - 1]
  <2>1. CASE i < at
    BY <1>2, <1>4, <2>1
  <2>2. CASE i = at
    BY <1>2, <1>4, <2>2
  <2>3. CASE i > at
    <3>1. (b \o c)[i] = c[i - at]
      BY <1>2, <1>4, <2>3
    <3>2. i - at \in 1..Len(c) /\ (i - at) + at - 1 = i - 1
      BY <1>2, <2>3
    <3>3. c[i - at] = s[(i - at) + at - 1]
      BY <1>2, <3>2
    <3> QED BY <2>3, <3>1, <3>2, <3>3
  <2>4. i \in Int /\ at \in Int
    OBVIOUS
  <2>5. i < at \/ i = at \/ i > at
    BY <2>4
  <2> QED BY <2>1, <2>2, <2>3, <2>5
<1> QED BY <1>3, <1>5, <1>6 DEF Inserted

\* A child is inserted among its siblings, whose order stays.
LEMMA PlacedFacts ==
  ASSUME NEW R, NEW s \in Seq(Res), NEW n \in Res
  PROVE  /\ Placed(R, s, n) \in Seq(Res)
         /\ \A x : In(Placed(R, s, n), x) <=> In(s, x) \/ x = n
         /\ \A x, y : x /= n /\ y /= n => (Before(Placed(R, s, n), x, y) <=> Before(s, x, y))
         /\ ~In(s, n) => ~Before(Placed(R, s, n), n, n)
         /\ (\A x : In(s, x) => R[x].prio \in Int) /\ R[n].prio \in Int /\ Sorted(R, s) /\ ~In(s, n)
               => Sorted(R, Placed(R, s, n))
<1> DEFINE t == Placed(R, s, n)
           at == At(R, s, n)
           L == Len(s)
<1>1. t = InsertAt(s, at, n)
  BY DEF Placed, At
<1>2. /\ at \in 1..(L + 1)
      /\ \A i \in 1..L : i < at => ~(R[n].prio < R[s[i]].prio)
      /\ at \in 1..L => R[n].prio < R[s[at]].prio
  BY AtFacts
<1>3. L \in Nat /\ \A i \in 1..L : In(s, s[i])
  BY DEF In
<1> HIDE DEF at, t
<1>4. /\ t \in Seq(Res) /\ Len(t) = L + 1
      /\ \A i \in 1..(L + 1) : t[i] = IF i < at THEN s[i] ELSE IF i = at THEN n ELSE s[i - 1]
  <2>1. Inserted(InsertAt(s, at, n), s, at, n)
    BY <1>2, InsertedAt
  <2> QED BY <1>1, <2>1, Zenon DEF Inserted
<1> DEFINE old(i) == IF i < at THEN i ELSE i - 1
           new(i) == IF i < at THEN i ELSE i + 1
<1>5. \A i \in 1..(L + 1) : i /= at => old(i) \in 1..L /\ t[i] = s[old(i)]
  BY <1>2, <1>3, <1>4
<1>6. \A i, j \in 1..(L + 1) : i < j /\ i /= at /\ j /= at => old(i) < old(j)
  BY <1>2, <1>3
<1>7. \A i \in 1..L : new(i) \in 1..(L + 1) /\ new(i) /= at /\ t[new(i)] = s[i]
  <2> TAKE i \in 1..L
  <2>1. new(i) \in 1..(L + 1) /\ new(i) /= at
    BY <1>2, <1>3
  <2>2. CASE i < at
    BY <1>3, <1>4, <2>1, <2>2
  <2>3. CASE ~(i < at)
    <3>1. ~(new(i) < at) /\ new(i) - 1 = i
      BY <1>2, <1>3, <2>3
    <3> QED BY <1>4, <2>1, <3>1
  <2> QED BY <2>1, <2>2, <2>3
<1>8. \A i, j \in 1..L : i < j => new(i) < new(j)
  BY <1>2, <1>3
<1>9. t[at] = n /\ at \in 1..Len(t)
  BY <1>2, <1>4
<1> HIDE DEF old, new
<1>10. \A x : In(t, x) <=> In(s, x) \/ x = n
  BY <1>4, <1>5, <1>7, <1>9 DEF In
<1>11. ASSUME NEW x, NEW y, x /= n, y /= n, Before(t, x, y) PROVE Before(s, x, y)
  <2>1. PICK i, j \in 1..(L + 1) : i < j /\ t[i] = x /\ t[j] = y
    BY <1>4, <1>11 DEF Before
  <2>2. i /= at /\ j /= at
    BY <1>9, <1>11, <2>1
  <2> QED BY <1>5, <1>6, <2>1, <2>2 DEF Before
<1>12. ASSUME NEW x, NEW y, Before(s, x, y) PROVE Before(t, x, y)
  <2>1. PICK i, j \in 1..L : i < j /\ s[i] = x /\ s[j] = y
    BY <1>12 DEF Before
  <2> QED BY <1>4, <1>7, <1>8, <2>1 DEF Before
<1>13. ASSUME ~In(s, n), NEW i \in 1..(L + 1), t[i] = n PROVE i = at
  BY <1>5, <1>13 DEF In
<1>14. ASSUME ~In(s, n), Before(t, n, n) PROVE FALSE
  <2>1. PICK i, j \in 1..(L + 1) : i < j /\ t[i] = n /\ t[j] = n
    BY <1>4, <1>14 DEF Before
  <2>2. i = at /\ j = at
    BY <1>13, <1>14, <2>1
  <2> QED BY <1>2, <2>1, <2>2
<1>15. ASSUME \A x : In(s, x) => R[x].prio \in Int, R[n].prio \in Int, Sorted(R, s), ~In(s, n),
              NEW x, NEW y, Before(t, x, y)
       PROVE  x /= y /\ R[x].prio <= R[y].prio
  <2>1. PICK i, j \in 1..(L + 1) : i < j /\ t[i] = x /\ t[j] = y
    BY <1>4, <1>15 DEF Before
  <2>2. CASE x /= n /\ y /= n
    BY <1>11, <1>15, <2>2 DEF Sorted
  <2>3. CASE x = n /\ y = n
    BY <1>14, <1>15, <2>3
  <2>4. CASE x /= n /\ y = n
    <3>1. j = at
      BY <1>13, <1>15, <2>1, <2>4
    <3>2. i < at /\ i \in 1..L /\ t[i] = s[i]
      BY <1>2, <1>3, <1>4, <2>1, <3>1
    <3>3. ~(R[n].prio < R[x].prio) /\ R[x].prio \in Int
      BY <1>2, <1>3, <1>15, <2>1, <3>2
    <3> QED BY <1>15, <2>4, <3>3
  <2>5. CASE x = n /\ y /= n
    <3>1. i = at
      BY <1>13, <1>15, <2>1, <2>5
    <3>2. j - 1 \in 1..L /\ at \in 1..L /\ at <= j - 1 /\ t[j] = s[j - 1]
      BY <1>2, <1>3, <1>4, <2>1, <3>1
    <3>3. R[s[at]].prio \in Int /\ R[y].prio \in Int /\ R[n].prio < R[s[at]].prio
      BY <1>2, <1>3, <1>15, <2>1, <3>2
    <3>4. CASE at = j - 1
      BY <1>15, <2>1, <2>5, <3>2, <3>3, <3>4
    <3>5. CASE at < j - 1
      <4>1. Before(s, s[at], y)
        BY <2>1, <3>2, <3>5 DEF Before
      <4>2. R[s[at]].prio <= R[y].prio
        BY <1>15, <4>1 DEF Sorted
      <4> QED BY <1>15, <2>5, <3>3, <4>2
    <3> QED BY <1>2, <2>1, <3>2, <3>4, <3>5
  <2> QED BY <2>2, <2>3, <2>4, <2>5
<1>16. (\A x : In(s, x) => R[x].prio \in Int) /\ R[n].prio \in Int /\ Sorted(R, s) /\ ~In(s, n)
          => Sorted(R, t)
  BY <1>15 DEF Sorted
<1> QED BY <1>4, <1>10, <1>11, <1>12, <1>14, <1>16 DEF t

\* Parents and children agree, by what is in the lists and what is before what.
Related(R) ==
    \A r \in DOMAIN R :
        /\ \A x : In(R[r].kids, x) => x \in DOMAIN R /\ R[x].parent = r
        /\ Sorted(R, R[r].kids)
        /\ R[r].parent /= None => In(R[R[r].parent].kids, r)

\* Every parent is there.
Parented(R) == None \notin DOMAIN R /\ \A x \in DOMAIN R : R[x].parent \in DOMAIN R \cup {None}

\* Families in terms of what is in a list and what comes before what.
LEMMA FamiliesRelated ==
  ASSUME NEW R, KidTypes(R), Parented(R)
  PROVE  Families(R) <=> Related(R)
<1>1. \A r \in DOMAIN R : DOMAIN R[r].kids = 1..Len(R[r].kids)
  BY DEF KidTypes
<1>2. ASSUME NEW r \in DOMAIN R
      PROVE  (\A i \in DOMAIN R[r].kids : R[r].kids[i] \in DOMAIN R /\ R[R[r].kids[i]].parent = r)
                <=> (\A x : In(R[r].kids, x) => x \in DOMAIN R /\ R[x].parent = r)
  BY <1>1 DEF In
<1>3. ASSUME NEW r \in DOMAIN R
      PROVE  (\A i, j \in DOMAIN R[r].kids :
                 i < j => R[r].kids[i] # R[r].kids[j]
                          /\ R[R[r].kids[i]].prio <= R[R[r].kids[j]].prio)
                <=> Sorted(R, R[r].kids)
  BY <1>1 DEF Sorted, Before
<1>4. ASSUME NEW r \in DOMAIN R, R[r].parent /= None
      PROVE  (\E i \in DOMAIN R[R[r].parent].kids : R[R[r].parent].kids[i] = r)
                <=> In(R[R[r].parent].kids, r)
  <2>1. R[r].parent \in DOMAIN R
    BY <1>4 DEF Parented
  <2> QED BY <1>1, <2>1 DEF In
<1> QED BY <1>2, <1>3, <1>4 DEF Families, Related

\* The first n of the children ks, put among the children s in their places.
JoinedOf(R, s, ks, n, t) ==
    /\ t \in Seq(Res)
    /\ \A x : In(t, x) <=> In(s, x) \/ \E i \in 1..n : ks[i] = x
    /\ Sorted(R, t)

\* One more child joins.
LEMMA JoinedStep ==
  ASSUME NEW R, NEW s \in Seq(Res), NEW ks \in Seq(Res), NEW n \in 1..Len(ks), NEW t,
         JoinedOf(R, s, ks, n - 1, t),
         \A x : In(s, x) => R[x].prio \in Int, \A i \in 1..Len(ks) : R[ks[i]].prio \in Int,
         \A i \in 1..Len(ks) : ~In(s, ks[i]),
         \A i, j \in 1..Len(ks) : i < j => ks[i] /= ks[j]
  PROVE  JoinedOf(R, s, ks, n, Placed(R, t, ks[n]))
<1>1. /\ n \in 1..n /\ ks[n] \in Res /\ \A i : i \in 1..n <=> i \in 1..(n - 1) \/ i = n
      /\ \A i \in 1..(n - 1) : i < n /\ i \in 1..Len(ks)
  OBVIOUS
<1>2. /\ t \in Seq(Res) /\ Sorted(R, t)
      /\ \A x : In(t, x) <=> In(s, x) \/ \E i \in 1..(n - 1) : ks[i] = x
  BY DEF JoinedOf
<1>3. ~In(t, ks[n])
  BY <1>1, <1>2
<1>4. \A x : In(t, x) => R[x].prio \in Int
  BY <1>1, <1>2
<1>5. R[ks[n]].prio \in Int
  OBVIOUS
<1>6. /\ Placed(R, t, ks[n]) \in Seq(Res) /\ Sorted(R, Placed(R, t, ks[n]))
      /\ \A x : In(Placed(R, t, ks[n]), x) <=> In(t, x) \/ x = ks[n]
  BY ONLY <1>1, <1>2, <1>3, <1>4, <1>5, PlacedFacts
<1>7. \A x : (\E i \in 1..n : ks[i] = x) <=> (\E i \in 1..(n - 1) : ks[i] = x) \/ x = ks[n]
  BY <1>1
<1> QED BY <1>2, <1>6, <1>7 DEF JoinedOf

\* The children of r and those of its parent make one list, in the order of priorities.
LEMMA JoinedFacts ==
  ASSUME NEW r \in Live, res[r].parent \in Live, res[r].parent /= r, KidTypes(res), Related(res)
  PROVE  /\ Joined(r) \in Seq(Res) /\ Sorted(res, Joined(r))
         /\ \A x : In(Joined(r), x) <=> In(Kids(r), x) \/ In(Kids(res[r].parent), x)
<1> DEFINE s == Kids(res[r].parent)
           ks == Kids(r)
           m == Len(ks)
           V == Seq(Res)
           Eq(f) == f = [n \in 0..m |-> IF n = 0 THEN s ELSE Placed(res, f[n - 1], ks[n])]
           joined == CHOOSE f : Eq(f)
           step == [n \in 1..m |-> [v \in V |-> Placed(res, v, ks[n])]]
<1>1. s \in V /\ ks \in V /\ m \in Nat /\ \A n \in 1..m : ks[n] \in Res /\ In(ks, ks[n])
  BY DEF KidTypes, Kids, Live, In
<1>2. step \in [1..m -> [V -> V]]
  <2>1. \A n \in 1..m : \A v \in V : Placed(res, v, ks[n]) \in V
    BY <1>1, PlacedFacts
  <2> HIDE DEF V, m, ks
  <2> QED BY <2>1
<1>3. PICK f : Steps(f, V, s, step, m)
  <2> HIDE DEF m, V, step, s, ks
  <2> QED BY <1>1, <1>2, Iterated
<1>4. Eq(f)
  <2>1. f \in [0..m -> V] /\ f[0] = s /\ \A n \in 1..m : f[n] = step[n][f[n - 1]]
    BY <1>3 DEF Steps
  <2> HIDE DEF m, V, s, ks
  <2>2. ASSUME NEW n \in 0..m, n /= 0
        PROVE  f[n] = Placed(res, f[n - 1], ks[n])
    <3>1. n \in 1..m /\ n - 1 \in 0..m
      BY <1>1, <2>2
    <3>2. f[n - 1] \in V
      BY <2>1, <3>1
    <3>3. f[n] = step[n][f[n - 1]]
      BY <2>1, <3>1
    <3> QED BY <3>1, <3>2, <3>3
  <2> HIDE DEF step
  <2> QED BY <2>1, <2>2
<1>5. Eq(joined)
  BY <1>4
<1>6. Joined(r) = joined[m]
  BY DEF Joined
<1>7. /\ \A x : In(s, x) => res[x].prio \in Int /\ res[x].parent = res[r].parent
      /\ \A x : In(ks, x) => res[x].prio \in Int /\ res[x].parent = r
      /\ Sorted(res, s) /\ Sorted(res, ks)
  BY DEF KidTypes, Related, Kids, Live
<1>8. /\ \A i \in 1..m : res[ks[i]].prio \in Int
      /\ \A i, j \in 1..m : i < j => ks[i] /= ks[j]
  BY <1>1, <1>7 DEF Sorted, Before
<1> HIDE DEF joined, step, V, s, ks
<1>9. \A i \in 1..m : ~In(s, ks[i])
  BY <1>1, <1>7
<1>10. \A n \in 0..m : JoinedOf(res, s, ks, n, joined[n])
  <2> DEFINE Bad == {n \in 0..m : ~JoinedOf(res, s, ks, n, joined[n])}
  <2> SUFFICES ASSUME Bad /= {} PROVE FALSE
    OBVIOUS
  <2>1. Bad \in SUBSET Nat
    OBVIOUS
  <2>2. PICK n \in Bad : \A k \in Bad : n <= k
    BY <2>1, NatMin
  <2>3. n \in 0..m
    OBVIOUS
  <2>4. n /= 0
    <3>1. joined[0] = s
      BY <1>1, <1>5
    <3>2. JoinedOf(res, s, ks, 0, s)
      BY <1>1, <1>7 DEF JoinedOf, V
    <3> QED BY <3>1, <3>2
  <2>5. n \in 1..m /\ n - 1 \in 0..m /\ ~(n <= n - 1)
    BY <1>1, <2>3, <2>4
  <2>6. JoinedOf(res, s, ks, n - 1, joined[n - 1])
    BY <2>2, <2>5
  <2>7. JoinedOf(res, s, ks, n, Placed(res, joined[n - 1], ks[n]))
    BY <1>1, <1>7, <1>8, <1>9, <2>5, <2>6, JoinedStep DEF V
  <2>8. joined[n] = Placed(res, joined[n - 1], ks[n])
    BY <1>5, <2>3, <2>4
  <2>9. JoinedOf(res, s, ks, n, joined[n])
    BY <2>7, <2>8, Zenon
  <2> QED BY <2>2, <2>9
<1>11. JoinedOf(res, s, ks, m, Joined(r))
  <2>1. m \in 0..m
    BY <1>1
  <2> QED BY <1>6, <1>10, <2>1
<1> QED BY <1>11 DEF JoinedOf, In, s, ks
-----------------------------------------------------------------------------
(***************************************************************************)
(* What is above a resource.                                               *)
(***************************************************************************)

\* Above is upward closed, has the parent, and is the least such set.
LEMMA AboveFacts ==
  ASSUME NEW R, Parented(R), NEW r \in DOMAIN R
  PROVE  /\ Above(R, r) \in SUBSET DOMAIN R
         /\ R[r].parent \in Above(R, r) \cup {None}
         /\ Upward(R, Above(R, r))
         /\ \A S \in SUBSET DOMAIN R :
               Upward(R, S) /\ R[r].parent \in S \cup {None} => Above(R, r) \subseteq S
<1>1. Above(R, r) \in SUBSET DOMAIN R
  BY DEF Above
<1>2. R[r].parent \in Above(R, r) \cup {None}
  BY DEF Above, Parented
<1>3. ASSUME NEW x \in Above(R, r), R[x].parent /= None PROVE R[x].parent \in Above(R, r)
  <2>1. x \in DOMAIN R /\ R[x].parent \in DOMAIN R
    BY <1>1, <1>3 DEF Parented
  <2>2. ASSUME NEW S \in SUBSET DOMAIN R, Upward(R, S), R[r].parent \in S \cup {None}
        PROVE  R[x].parent \in S
    <3>1. x \in S
      BY <2>2 DEF Above
    <3> QED BY <1>3, <2>2, <3>1 DEF Upward
  <2> QED BY <2>1, <2>2 DEF Above
<1>4. Upward(R, Above(R, r))
  BY <1>3 DEF Upward
<1>5. \A S \in SUBSET DOMAIN R :
         Upward(R, S) /\ R[r].parent \in S \cup {None} => Above(R, r) \subseteq S
  BY DEF Above
<1> QED BY <1>1, <1>2, <1>4, <1>5

\* What is above one that is above.
LEMMA AboveAbove ==
  ASSUME NEW R, Parented(R), NEW r \in DOMAIN R, NEW x \in Above(R, r)
  PROVE  Above(R, x) \subseteq Above(R, r)
<1>1. Above(R, r) \in SUBSET DOMAIN R /\ Upward(R, Above(R, r))
  BY AboveFacts
<1>2. x \in DOMAIN R /\ R[x].parent \in Above(R, r) \cup {None}
  BY <1>1 DEF Upward
<1> QED BY <1>1, <1>2, AboveFacts

\* Above, one step at a time.
LEMMA AboveStep ==
  ASSUME NEW R, Parented(R), NEW r \in DOMAIN R
  PROVE  /\ R[r].parent = None => Above(R, r) = {}
         /\ R[r].parent /= None => /\ R[r].parent \in DOMAIN R
                                   /\ Above(R, r) = {R[r].parent} \cup Above(R, R[r].parent)
<1>1. CASE R[r].parent = None
  <2>1. Upward(R, {}) /\ {} \in SUBSET DOMAIN R
    BY DEF Upward
  <2>2. Above(R, r) \subseteq {}
    BY <1>1, <2>1, AboveFacts
  <2> QED BY <1>1, <2>2
<1>2. CASE R[r].parent /= None
  <2> DEFINE p == R[r].parent
             S == {p} \cup Above(R, p)
  <2>1. p \in DOMAIN R /\ p \in Above(R, r)
    BY <1>2, AboveFacts DEF Parented
  <2>2. Above(R, p) \subseteq Above(R, r)
    BY <2>1, AboveAbove
  <2>3. /\ Above(R, p) \in SUBSET DOMAIN R /\ R[p].parent \in Above(R, p) \cup {None}
        /\ Upward(R, Above(R, p))
    BY <2>1, AboveFacts
  <2>4. S \in SUBSET DOMAIN R /\ Upward(R, S) /\ R[r].parent \in S \cup {None}
    BY <2>1, <2>3 DEF Upward
  <2>5. Above(R, r) \subseteq S
    BY <2>4, AboveFacts
  <2> QED BY <1>2, <2>1, <2>2, <2>5
<1> QED BY <1>1, <1>2

\* What the recursive definition of Ancestors asks of a function.
Climbs(f) ==
    f = [x \in Live \cup {None} |->
            IF x = None THEN {} ELSE LET p == res[x].parent IN ({p} \ {None}) \cup f[p]]

\* The sets above the resources are a solution.
LEMMA AboveClimbs ==
  ASSUME Parented(res)
  PROVE  Climbs([x \in Live \cup {None} |-> IF x = None THEN {} ELSE Above(res, x)])
<1> DEFINE F == [x \in Live \cup {None} |-> IF x = None THEN {} ELSE Above(res, x)]
<1>1. None \notin Live /\ \A x \in Live : res[x].parent \in Live \cup {None}
  BY DEF Parented, Live
<1>2. F[None] = {} /\ \A x \in Live : F[x] = Above(res, x)
  BY <1>1
<1>3. ASSUME NEW x \in Live PROVE F[x] = ({res[x].parent} \ {None}) \cup F[res[x].parent]
  <2>1. /\ res[x].parent = None => Above(res, x) = {}
        /\ res[x].parent /= None => Above(res, x) = {res[x].parent} \cup Above(res, res[x].parent)
    BY AboveStep DEF Live
  <2> HIDE DEF F
  <2>2. CASE res[x].parent = None
    BY <1>2, <2>1, <2>2
  <2>3. CASE res[x].parent /= None
    BY <1>1, <1>2, <2>1, <2>3
  <2> QED BY <2>2, <2>3
<1>4. F = [x \in Live \cup {None} |->
             IF x = None THEN {} ELSE LET p == res[x].parent IN ({p} \ {None}) \cup F[p]]
  <2> DEFINE G == [x \in Live \cup {None} |->
             IF x = None THEN {} ELSE LET p == res[x].parent IN ({p} \ {None}) \cup F[p]]
  <2>1. DOMAIN G = Live \cup {None} /\ DOMAIN F = Live \cup {None}
    OBVIOUS
  <2>2. \A x \in Live \cup {None} : F[x] = G[x]
    BY <1>1, <1>2, <1>3
  <2>3. F = [x \in DOMAIN F |-> F[x]] /\ G = [x \in DOMAIN G |-> G[x]]
    OBVIOUS
  <2> HIDE DEF F, G
  <2>4. F = G
    BY <2>1, <2>2, <2>3
  <2> QED BY <2>4 DEF G
<1> HIDE DEF F
<1>5. Climbs(F)
  BY <1>4 DEF Climbs
<1> QED BY <1>5 DEF F

\* The only one, as nothing is above itself.
LEMMA ClimbsOnce ==
  ASSUME Parented(res), IsFiniteSet(Live), Acyclic(res), NEW f, Climbs(f)
  PROVE  \A x \in Live : f[x] = Above(res, x)
<1>1. None \notin Live /\ \A x \in Live : res[x].parent \in Live \cup {None}
  BY DEF Parented, Live
<1>2. f[None] = {} /\ \A x \in Live : f[x] = ({res[x].parent} \ {None}) \cup f[res[x].parent]
  BY <1>1 DEF Climbs
<1>3. \A x \in Live : /\ Above(res, x) \in SUBSET Live /\ IsFiniteSet(Above(res, x))
                      /\ Cardinality(Above(res, x)) \in Nat
  BY AboveFacts, FS_Subset, FS_CardinalityType DEF Live
<1> DEFINE Wrong == {x \in Live : f[x] /= Above(res, x)}
           Bad == {Cardinality(Above(res, x)) : x \in Wrong}
<1> SUFFICES ASSUME Wrong /= {} PROVE FALSE
  OBVIOUS
<1>4. Bad \in SUBSET Nat /\ Bad /= {}
  BY <1>3
<1>5. PICK n \in Bad : \A k \in Bad : n <= k
  BY <1>4, NatMin
<1>6. PICK x \in Wrong : n = Cardinality(Above(res, x))
  BY <1>5
<1>7. x \in Live /\ f[x] /= Above(res, x)
  OBVIOUS
<1> DEFINE p == res[x].parent
<1>8. p /= None
  <2>1. ASSUME p = None PROVE FALSE
    <3>1. f[x] = {}
      BY <1>2, <1>7, <2>1
    <3>2. Above(res, x) = {}
      BY <1>7, <2>1, AboveStep DEF Live
    <3> QED BY <1>7, <3>1, <3>2
  <2> QED BY <2>1
<1>9. p \in Live /\ Above(res, x) = {p} \cup Above(res, p) /\ p \notin Above(res, p)
  BY <1>7, <1>8, AboveStep DEF Live, Acyclic
<1>10. f[x] = {p} \cup f[p]
  BY <1>2, <1>7, <1>8
<1>11. p \in Wrong
  BY <1>7, <1>9, <1>10
<1>12. Cardinality(Above(res, p)) \in Bad
  BY <1>11
<1>13. Cardinality({p} \cup Above(res, p)) = Cardinality(Above(res, p)) + 1
  <2>1. IsFiniteSet(Above(res, p))
    BY <1>3, <1>9
  <2>2. {p} \cup Above(res, p) = Above(res, p) \cup {p}
    OBVIOUS
  <2> QED BY <1>9, <2>1, <2>2, FS_AddElement
<1> HIDE DEF Wrong, Bad
<1>14. n = Cardinality(Above(res, p)) + 1 /\ Cardinality(Above(res, p)) \in Nat
  BY <1>3, <1>6, <1>9, <1>13
<1>15. n <= Cardinality(Above(res, p))
  BY <1>5, <1>12
<1> QED BY ONLY <1>14, <1>15

\* Ancestors climbs to what is above.
LEMMA AncestorsAbove ==
  ASSUME Parented(res), IsFiniteSet(Live), Acyclic(res), NEW r \in Live
  PROVE  Ancestors(r) = Above(res, r)
<1> DEFINE up == CHOOSE f : Climbs(f)
<1>1. Climbs(up)
  BY AboveClimbs
<1>2. Ancestors(r) = up[r]
  BY DEF Ancestors, Climbs
<1> HIDE DEF up
<1> QED BY <1>1, <1>2, ClimbsOnce
-----------------------------------------------------------------------------
(***************************************************************************)
(* What an operation makes of a tree R: another tree Q.                    *)
(***************************************************************************)

\* Parents only become resources that were above, or none.
Lowered(R, Q) ==
    /\ DOMAIN Q \subseteq DOMAIN R
    /\ \A y \in DOMAIN Q : Q[y].parent \in Above(R, y) \cup {None}

\* Then nothing else comes above a resource.
LEMMA LoweredFacts ==
  ASSUME NEW R, NEW Q, Parented(R), Parented(Q), Acyclic(R), Lowered(R, Q)
  PROVE  /\ \A x \in DOMAIN Q : Above(Q, x) \subseteq Above(R, x)
         /\ Acyclic(Q)
<1>1. ASSUME NEW x \in DOMAIN Q PROVE Above(Q, x) \subseteq Above(R, x)
  <2> DEFINE S == Above(R, x) \cap DOMAIN Q
  <2>1. x \in DOMAIN R
    BY DEF Lowered
  <2>2. Upward(Q, S)
    <3> SUFFICES ASSUME NEW y \in Above(R, x), y \in DOMAIN Q, Q[y].parent /= None
                 PROVE  Q[y].parent \in S
      BY DEF Upward
    <3>1. Q[y].parent \in Above(R, y) /\ Q[y].parent \in DOMAIN Q
      BY DEF Lowered, Parented
    <3>2. Above(R, y) \subseteq Above(R, x)
      BY <2>1, AboveAbove
    <3> QED BY <3>1, <3>2
  <2>3. Q[x].parent \in S \cup {None}
    BY DEF Lowered, Parented
  <2>4. S \in SUBSET DOMAIN Q
    OBVIOUS
  <2>5. Above(Q, x) \subseteq S
    BY <2>2, <2>3, <2>4, AboveFacts
  <2> QED BY <2>5
<1>2. Acyclic(Q)
  BY <1>1 DEF Acyclic, Lowered
<1> QED BY <1>1, <1>2

\* Nothing changes but what is not of the tree.
SameTree(R, Q) ==
    /\ DOMAIN Q = DOMAIN R
    /\ \A x \in DOMAIN R : /\ Q[x].parent = R[x].parent /\ Q[x].kids = R[x].kids
                           /\ Q[x].prio = R[x].prio

\* Nothing of the tree changes.
LEMMA SameTreeFacts ==
  ASSUME NEW R, NEW Q, Parented(R), Tree(R), SameTree(R, Q)
  PROVE  /\ Parented(Q) /\ Tree(Q)
         /\ \A x \in DOMAIN Q : Above(Q, x) \subseteq Above(R, x)
<1>1. Parented(Q) /\ KidTypes(Q)
  BY DEF Parented, Tree, KidTypes, SameTree
<1>2. Lowered(R, Q)
  BY AboveFacts DEF Lowered, SameTree
<1>3. Related(R)
  BY FamiliesRelated DEF Tree
<1>4. Related(Q)
  <2> SUFFICES ASSUME NEW r \in DOMAIN R
               PROVE  /\ \A x : In(Q[r].kids, x) => x \in DOMAIN R /\ Q[x].parent = r
                      /\ Sorted(Q, Q[r].kids)
                      /\ Q[r].parent /= None => In(Q[Q[r].parent].kids, r)
    BY DEF Related, SameTree
  <2>1. /\ Q[r].kids = R[r].kids /\ Q[r].parent = R[r].parent
        /\ R[r].parent /= None => Q[R[r].parent].kids = R[R[r].parent].kids
    BY DEF SameTree, Parented
  <2>2. \A x : In(R[r].kids, x) => x \in DOMAIN R /\ Q[x].parent = r /\ Q[x].prio = R[x].prio
    BY <1>3 DEF Related, SameTree
  <2>3. \A x, y : Before(R[r].kids, x, y) => In(R[r].kids, x) /\ In(R[r].kids, y)
    BY DEF Before, In
  <2>4. Sorted(Q, R[r].kids)
    BY <1>3, <2>2, <2>3 DEF Related, Sorted
  <2> QED BY <1>3, <2>1, <2>2, <2>4 DEF Related
<1>5. Families(Q)
  BY <1>1, <1>4, FamiliesRelated
<1> QED BY <1>1, <1>2, <1>5, LoweredFacts DEF Tree

\* r leaves its parent.
Left(R, Q, r) ==
    /\ DOMAIN Q = DOMAIN R /\ r \in DOMAIN R /\ R[r].parent /= None
    /\ \A x \in DOMAIN R :
          /\ Q[x].parent = IF x = r THEN None ELSE R[x].parent
          /\ Q[x].kids = IF x = R[r].parent THEN Kept(R[x].kids, {r}) ELSE R[x].kids
          /\ Q[x].prio = R[x].prio

\* A tree is left when a child leaves it.
LEMMA LeftFacts ==
  ASSUME NEW R, NEW Q, NEW r, Parented(R), Tree(R), Left(R, Q, r)
  PROVE  /\ Parented(Q) /\ Tree(Q)
         /\ \A x \in DOMAIN Q : Above(Q, x) \subseteq Above(R, x)
<1> DEFINE p == R[r].parent
<1>1. r \in DOMAIN R /\ p \in DOMAIN R /\ DOMAIN Q = DOMAIN R
  BY DEF Left, Parented
<1>2. R[p].kids \in Seq(Res)
  BY <1>1 DEF Tree, KidTypes
<1>3. /\ Kept(R[p].kids, {r}) \in Seq(Res)
      /\ \A x : In(Kept(R[p].kids, {r}), x) <=> In(R[p].kids, x) /\ x /= r
      /\ \A x, y : Before(Kept(R[p].kids, {r}), x, y) => Before(R[p].kids, x, y)
  BY <1>2, KeptFacts
<1>4. Parented(Q) /\ KidTypes(Q)
  <2>1. Parented(Q)
    BY DEF Parented, Left
  <2>2. \A x \in DOMAIN Q : Q[x].kids \in Seq(Res) /\ Q[x].prio \in Int
    BY <1>1, <1>3 DEF Tree, KidTypes, Left
  <2> QED BY <1>1, <2>1, <2>2 DEF Tree, KidTypes
<1>5. Lowered(R, Q)
  BY AboveFacts DEF Lowered, Left
<1>6. Related(R)
  BY FamiliesRelated DEF Tree
<1>7. Related(Q)
  <2> SUFFICES ASSUME NEW y \in DOMAIN R
               PROVE  /\ \A x : In(Q[y].kids, x) => x \in DOMAIN R /\ Q[x].parent = y
                      /\ Sorted(Q, Q[y].kids)
                      /\ Q[y].parent /= None => In(Q[Q[y].parent].kids, y)
    BY <1>1 DEF Related
  <2>1. \A x : In(Q[y].kids, x) => In(R[y].kids, x) /\ x /= r
    <3>1. CASE y = p
      BY <1>3, <3>1 DEF Left
    <3>2. CASE y /= p
      BY <1>6, <3>2 DEF Left, Related
    <3> QED BY <3>1, <3>2
  <2>2. \A x, z : Before(Q[y].kids, x, z) => Before(R[y].kids, x, z)
    BY <1>3 DEF Left
  <2>3. \A x : In(R[y].kids, x) => x \in DOMAIN R /\ R[x].parent = y /\ Q[x].prio = R[x].prio
    BY <1>6 DEF Related, Left
  <2>4. \A x, z : Before(R[y].kids, x, z) => In(R[y].kids, x) /\ In(R[y].kids, z)
    BY DEF Before, In
  <2>5. Sorted(Q, Q[y].kids)
    BY <1>6, <2>2, <2>3, <2>4 DEF Related, Sorted
  <2>6. \A x : In(Q[y].kids, x) => x \in DOMAIN R /\ Q[x].parent = y
    BY <2>1, <2>3 DEF Left
  <2>7. ASSUME Q[y].parent /= None PROVE In(Q[Q[y].parent].kids, y)
    <3>1. y /= r /\ Q[y].parent = R[y].parent /\ R[y].parent \in DOMAIN R
      BY <2>7 DEF Left, Parented
    <3>2. In(R[R[y].parent].kids, y)
      BY <1>6, <2>7, <3>1 DEF Related
    <3> QED BY <1>3, <3>1, <3>2 DEF Left
  <2> QED BY <2>5, <2>6, <2>7
<1>8. Families(Q)
  BY <1>4, <1>7, FamiliesRelated
<1> QED BY <1>4, <1>5, <1>8, LoweredFacts DEF Tree

\* c comes below r.
Entered(R, Q, c, r) ==
    /\ DOMAIN Q = DOMAIN R /\ r \in DOMAIN R /\ c \in DOMAIN R /\ R[c].parent = None
    /\ \A x \in DOMAIN R :
          /\ Q[x].parent = IF x = c THEN r ELSE R[x].parent
          /\ Q[x].kids = IF x = r THEN Placed(R, R[x].kids, c) ELSE R[x].kids
          /\ Q[x].prio = R[x].prio

\* What is above r comes above c and what is below it.
LEMMA EnteredFacts ==
  ASSUME NEW R, NEW Q, NEW c, NEW r, Parented(R), Tree(R), DOMAIN R \subseteq Res,
         Entered(R, Q, c, r), c /= r, c \notin Above(R, r)
  PROVE  /\ Parented(Q) /\ Tree(Q)
         /\ \A x \in DOMAIN Q :
               Above(Q, x) \subseteq IF x = c \/ c \in Above(R, x)
                                     THEN Above(R, x) \cup {r} \cup Above(R, r) ELSE Above(R, x)
<1>1. r \in DOMAIN R /\ c \in DOMAIN R /\ DOMAIN Q = DOMAIN R /\ R[c].parent = None /\ c \in Res
  BY DEF Entered
<1>2. Related(R)
  BY FamiliesRelated DEF Tree
<1>3. ~In(R[r].kids, c)
  BY <1>1, <1>2 DEF Related, Parented
<1>4. /\ R[r].kids \in Seq(Res) /\ R[c].prio \in Int
      /\ \A x : In(R[r].kids, x) => R[x].prio \in Int
      /\ Sorted(R, R[r].kids)
  BY <1>1, <1>2 DEF Tree, KidTypes, Related
<1>5. /\ Placed(R, R[r].kids, c) \in Seq(Res) /\ Sorted(R, Placed(R, R[r].kids, c))
      /\ \A x : In(Placed(R, R[r].kids, c), x) <=> In(R[r].kids, x) \/ x = c
  BY ONLY <1>1, <1>3, <1>4, PlacedFacts
<1>6. Parented(Q) /\ KidTypes(Q)
  <2>1. Parented(Q)
    BY <1>1 DEF Parented, Entered
  <2>2. \A x \in DOMAIN Q : Q[x].kids \in Seq(Res) /\ Q[x].prio \in Int
    BY <1>1, <1>5 DEF Tree, KidTypes, Entered
  <2> QED BY <1>1, <2>1, <2>2 DEF Tree, KidTypes
<1>7. Related(Q)
  <2> SUFFICES ASSUME NEW y \in DOMAIN R
               PROVE  /\ \A x : In(Q[y].kids, x) => x \in DOMAIN R /\ Q[x].parent = y
                      /\ Sorted(Q, Q[y].kids)
                      /\ Q[y].parent /= None => In(Q[Q[y].parent].kids, y)
    BY <1>1 DEF Related
  <2>1. \A x : In(Q[y].kids, x) => x \in DOMAIN R /\ Q[x].parent = y
    <3>1. \A x : In(R[y].kids, x) => x \in DOMAIN R /\ R[x].parent = y /\ x /= c
      BY <1>1, <1>2 DEF Related, Parented
    <3>2. \A x : In(Q[y].kids, x) => In(R[y].kids, x) \/ (x = c /\ y = r)
      BY <1>5 DEF Entered
    <3> QED BY <1>1, <3>1, <3>2 DEF Entered
  <2>2. Sorted(R, Q[y].kids)
    BY <1>2, <1>5 DEF Entered, Related
  <2>3. \A x, z : Before(Q[y].kids, x, z) => In(Q[y].kids, x) /\ In(Q[y].kids, z)
    BY DEF Before, In
  <2>4. \A x \in DOMAIN R : Q[x].prio = R[x].prio
    BY DEF Entered
  <2>5. Sorted(Q, Q[y].kids)
    BY <2>1, <2>2, <2>3, <2>4 DEF Sorted
  <2>6. ASSUME Q[y].parent /= None PROVE In(Q[Q[y].parent].kids, y)
    <3>1. CASE y = c
      BY <1>1, <1>5, <3>1 DEF Entered
    <3>2. CASE y /= c
      <4>1. Q[y].parent = R[y].parent /\ R[y].parent \in DOMAIN R
        BY <2>6, <3>2 DEF Entered, Parented
      <4>2. In(R[R[y].parent].kids, y)
        BY <1>2, <2>6, <4>1 DEF Related
      <4> QED BY <1>5, <4>1, <4>2 DEF Entered
    <3> QED BY <3>1, <3>2
  <2> QED BY <2>1, <2>5, <2>6
<1>8. Families(Q)
  BY <1>6, <1>7, FamiliesRelated
<1>9. ASSUME NEW x \in DOMAIN R
      PROVE  /\ Above(Q, x) \subseteq IF x = c \/ c \in Above(R, x)
                                      THEN Above(R, x) \cup {r} \cup Above(R, r) ELSE Above(R, x)
             /\ x \notin Above(Q, x)
  <2>1. /\ Above(R, x) \in SUBSET DOMAIN R /\ R[x].parent \in Above(R, x) \cup {None}
        /\ Upward(R, Above(R, x)) /\ x \notin Above(R, x)
    BY AboveFacts DEF Tree, Acyclic
  <2>2. /\ Above(R, r) \in SUBSET DOMAIN R /\ R[r].parent \in Above(R, r) \cup {None}
        /\ Upward(R, Above(R, r)) /\ r \notin Above(R, r)
    BY <1>1, AboveFacts DEF Tree, Acyclic
  <2>3. CASE x = c \/ c \in Above(R, x)
    <3> DEFINE S == Above(R, x) \cup {r} \cup Above(R, r)
    <3>1. S \in SUBSET DOMAIN Q
      BY <1>1, <2>1, <2>2
    <3>2. Upward(Q, S)
      BY <1>1, <2>1, <2>2 DEF Upward, Entered
    <3>3. Q[x].parent \in S \cup {None}
      BY <2>1 DEF Entered
    <3>4. Above(Q, x) \subseteq S
      BY <1>1, <1>6, <3>1, <3>2, <3>3, AboveFacts
    <3>5. x \notin S
      <4>1. x /= r
        BY <2>3
      <4>2. x \notin Above(R, r)
        <5>1. ASSUME x \in Above(R, r) PROVE c \in Above(R, r)
          <6>1. Above(R, x) \subseteq Above(R, r)
            BY <1>1, <5>1, AboveAbove
          <6> QED BY <2>3, <5>1, <6>1
        <5> QED BY <5>1
      <4> QED BY <2>1, <4>1, <4>2
    <3> QED BY <2>3, <3>4, <3>5
  <2>4. CASE ~(x = c \/ c \in Above(R, x))
    <3>1. Upward(Q, Above(R, x)) /\ Q[x].parent \in Above(R, x) \cup {None}
      BY <2>1, <2>4 DEF Upward, Entered
    <3>2. Above(Q, x) \subseteq Above(R, x)
      BY <1>1, <1>6, <2>1, <3>1, AboveFacts
    <3> QED BY <2>1, <2>4, <3>2
  <2> QED BY <2>3, <2>4
<1> QED BY <1>1, <1>6, <1>8, <1>9 DEF Tree, Acyclic

\* A resource n without parent and children appears.
Appeared(R, Q, n) ==
    /\ n \notin DOMAIN R /\ n \in Res /\ DOMAIN Q = DOMAIN R \cup {n}
    /\ Q[n].parent = None /\ Q[n].kids = << >> /\ Q[n].prio \in Int
    /\ \A x \in DOMAIN R : Q[x] = R[x]

\* Nobody else notices.
LEMMA AppearedFacts ==
  ASSUME NEW R, NEW Q, NEW n, Parented(R), Tree(R), DOMAIN R \subseteq Res, Res \subseteq Nat \ {0},
         Appeared(R, Q, n)
  PROVE  /\ Parented(Q) /\ Tree(Q)
         /\ \A x \in DOMAIN R : Above(Q, x) \subseteq Above(R, x)
         /\ Above(Q, n) = {}
<1>1. n \notin DOMAIN R /\ DOMAIN Q = DOMAIN R \cup {n} /\ \A x \in DOMAIN R : Q[x] = R[x]
  BY DEF Appeared
<1>2. Q[n].parent = None /\ Q[n].kids = << >> /\ Q[n].prio \in Int
  BY DEF Appeared
<1>3. Parented(Q)
  BY <1>1, <1>2 DEF Parented, Appeared, None
<1>4. KidTypes(Q)
  <2>1. IsFiniteSet(DOMAIN Q)
    BY <1>1, FS_AddElement DEF Tree, KidTypes
  <2>2. << >> \in Seq(Res)
    OBVIOUS
  <2> QED BY <1>1, <1>2, <2>1, <2>2 DEF Tree, KidTypes
<1>5. Related(R)
  BY FamiliesRelated DEF Tree
<1>6. Related(Q)
  <2> SUFFICES ASSUME NEW y \in DOMAIN Q
               PROVE  /\ \A x : In(Q[y].kids, x) => x \in DOMAIN Q /\ Q[x].parent = y
                      /\ Sorted(Q, Q[y].kids)
                      /\ Q[y].parent /= None => In(Q[Q[y].parent].kids, y)
    BY DEF Related
  <2>1. CASE y = n
    <3>1. Len(Q[y].kids) = 0
      BY <1>2, <2>1
    <3>2. \A x, z : ~In(Q[y].kids, x) /\ ~Before(Q[y].kids, x, z)
      BY <3>1 DEF In, Before
    <3> QED BY <1>2, <2>1, <3>2 DEF Sorted
  <2>2. CASE y \in DOMAIN R
    <3>1. \A x : In(R[y].kids, x) => x \in DOMAIN R /\ R[x].parent = y /\ Q[x] = R[x]
      BY <1>1, <1>5, <2>2 DEF Related
    <3>2. \A x, z : Before(R[y].kids, x, z) => In(R[y].kids, x) /\ In(R[y].kids, z)
      BY DEF Before, In
    <3>3. Sorted(R, R[y].kids)
      BY <1>5, <2>2 DEF Related
    <3>4. Sorted(Q, R[y].kids)
      BY <3>1, <3>2, <3>3 DEF Sorted
    <3>5. R[y].parent /= None => R[y].parent \in DOMAIN R /\ In(R[R[y].parent].kids, y)
      BY <1>5, <2>2 DEF Related, Parented
    <3> QED BY <1>1, <2>2, <3>1, <3>4, <3>5
  <2> QED BY <1>1, <2>1, <2>2
<1>7. Families(Q)
  BY <1>3, <1>4, <1>6, FamiliesRelated
<1>8. ASSUME NEW x \in DOMAIN R PROVE Above(Q, x) \subseteq Above(R, x)
  <2>1. /\ Above(R, x) \in SUBSET DOMAIN R /\ R[x].parent \in Above(R, x) \cup {None}
        /\ Upward(R, Above(R, x))
    BY AboveFacts
  <2>2. Above(R, x) \in SUBSET DOMAIN Q /\ Upward(Q, Above(R, x))
        /\ Q[x].parent \in Above(R, x) \cup {None}
    BY <1>1, <2>1 DEF Upward
  <2> QED BY <1>1, <1>3, <2>2, AboveFacts
<1>9. Above(Q, n) = {}
  BY <1>1, <1>2, <1>3, AboveStep
<1>10. Acyclic(Q)
  BY <1>1, <1>8, <1>9 DEF Tree, Acyclic
<1> QED BY <1>3, <1>4, <1>7, <1>8, <1>9, <1>10 DEF Tree

\* The priority of a resource without siblings changes.
Reprioritised(R, Q, r) ==
    /\ DOMAIN Q = DOMAIN R /\ r \in DOMAIN R /\ R[r].parent = None /\ Q[r].prio \in Int
    /\ \A x \in DOMAIN R : /\ Q[x].parent = R[x].parent /\ Q[x].kids = R[x].kids
                           /\ x /= r => Q[x].prio = R[x].prio

\* No list of children is out of order by it.
LEMMA ReprioritisedFacts ==
  ASSUME NEW R, NEW Q, NEW r, Parented(R), Tree(R), Reprioritised(R, Q, r)
  PROVE  /\ Parented(Q) /\ Tree(Q)
         /\ \A x \in DOMAIN Q : Above(Q, x) \subseteq Above(R, x)
<1>1. Parented(Q) /\ KidTypes(Q)
  BY DEF Parented, Tree, KidTypes, Reprioritised
<1>2. Lowered(R, Q)
  BY AboveFacts DEF Lowered, Reprioritised
<1>3. Related(R)
  BY FamiliesRelated DEF Tree
<1>4. Related(Q)
  <2> SUFFICES ASSUME NEW y \in DOMAIN R
               PROVE  /\ \A x : In(Q[y].kids, x) => x \in DOMAIN R /\ Q[x].parent = y
                      /\ Sorted(Q, Q[y].kids)
                      /\ Q[y].parent /= None => In(Q[Q[y].parent].kids, y)
    BY DEF Related, Reprioritised
  <2>1. /\ Q[y].kids = R[y].kids /\ Q[y].parent = R[y].parent
        /\ R[y].parent /= None => Q[R[y].parent].kids = R[R[y].parent].kids
    BY DEF Reprioritised, Parented
  <2>2. \A x : In(R[y].kids, x) => x \in DOMAIN R /\ Q[x].parent = y /\ Q[x].prio = R[x].prio
    BY <1>3 DEF Related, Reprioritised, Parented
  <2>3. \A x, z : Before(R[y].kids, x, z) => In(R[y].kids, x) /\ In(R[y].kids, z)
    BY DEF Before, In
  <2>4. Sorted(Q, R[y].kids)
    BY <1>3, <2>2, <2>3 DEF Related, Sorted
  <2> QED BY <1>3, <2>1, <2>2, <2>4 DEF Related
<1>5. Families(Q)
  BY <1>1, <1>4, FamiliesRelated
<1> QED BY <1>1, <1>2, <1>5, LoweredFacts DEF Tree

\* The resources of D are gone.
Destroyed(R, Q, D) ==
    /\ DOMAIN Q = DOMAIN R \ D
    /\ \A x \in DOMAIN Q :
          /\ Q[x].parent = IF R[x].parent \in D THEN None ELSE R[x].parent
          /\ Q[x].kids = Kept(R[x].kids, D)
          /\ Q[x].prio = R[x].prio

\* The rest is a tree.
LEMMA DestroyedFacts ==
  ASSUME NEW R, NEW Q, NEW D, Parented(R), Tree(R), Destroyed(R, Q, D), None \notin D
  PROVE  /\ Parented(Q) /\ Tree(Q)
         /\ \A x \in DOMAIN Q : Above(Q, x) \subseteq Above(R, x)
<1>1. DOMAIN Q = DOMAIN R \ D
  BY DEF Destroyed
<1>2. \A x \in DOMAIN R :
         /\ Kept(R[x].kids, D) \in Seq(Res)
         /\ \A y : In(Kept(R[x].kids, D), y) <=> In(R[x].kids, y) /\ y \notin D
         /\ \A y, z : Before(Kept(R[x].kids, D), y, z) => Before(R[x].kids, y, z)
  BY KeptFacts DEF Tree, KidTypes
<1>3. Parented(Q) /\ KidTypes(Q)
  <2>1. Parented(Q)
    BY <1>1 DEF Parented, Destroyed
  <2>2. \A x \in DOMAIN Q : Q[x].kids \in Seq(Res) /\ Q[x].prio \in Int
    BY <1>1, <1>2 DEF Tree, KidTypes, Destroyed
  <2>3. IsFiniteSet(DOMAIN Q)
    BY <1>1, FS_Subset DEF Tree, KidTypes
  <2> QED BY <2>1, <2>2, <2>3 DEF KidTypes
<1>4. Lowered(R, Q)
  BY <1>1, AboveFacts DEF Lowered, Destroyed
<1>5. Related(R)
  BY FamiliesRelated DEF Tree
<1>6. Related(Q)
  <2> SUFFICES ASSUME NEW y \in DOMAIN Q
               PROVE  /\ \A x : In(Q[y].kids, x) => x \in DOMAIN Q /\ Q[x].parent = y
                      /\ Sorted(Q, Q[y].kids)
                      /\ Q[y].parent /= None => In(Q[Q[y].parent].kids, y)
    BY DEF Related
  <2>1. y \in DOMAIN R /\ y \notin D /\ Q[y].kids = Kept(R[y].kids, D)
    BY <1>1 DEF Destroyed
  <2>2. \A x : In(Q[y].kids, x) => In(R[y].kids, x) /\ x \notin D
    BY <1>2, <2>1
  <2>3. \A x, z : Before(Q[y].kids, x, z) => Before(R[y].kids, x, z)
    BY <1>2, <2>1
  <2>4. \A x : In(Q[y].kids, x) => x \in DOMAIN Q /\ R[x].parent = y
    BY <1>1, <1>5, <2>1, <2>2 DEF Related
  <2>5. \A x : In(Q[y].kids, x) => Q[x].parent = y /\ Q[x].prio = R[x].prio
    BY <2>1, <2>4 DEF Destroyed
  <2>6. \A x, z : Before(Q[y].kids, x, z) => In(Q[y].kids, x) /\ In(Q[y].kids, z)
    BY DEF Before, In
  <2>7. Sorted(Q, Q[y].kids)
    BY <1>5, <2>1, <2>3, <2>5, <2>6 DEF Related, Sorted
  <2>8. ASSUME Q[y].parent /= None PROVE In(Q[Q[y].parent].kids, y)
    <3>1. Q[y].parent = R[y].parent /\ R[y].parent \notin D
      BY <2>8 DEF Destroyed
    <3>2. R[y].parent \in DOMAIN Q
      BY <1>1, <2>1, <2>8, <3>1 DEF Parented
    <3>3. In(R[R[y].parent].kids, y)
      BY <1>5, <2>1, <2>8, <3>1 DEF Related
    <3> QED BY <1>1, <1>2, <2>1, <3>1, <3>2, <3>3 DEF Destroyed
  <2> QED BY <2>4, <2>5, <2>7, <2>8
<1>7. Families(Q)
  BY <1>3, <1>6, FamiliesRelated
<1> QED BY <1>3, <1>4, <1>7, LoweredFacts DEF Tree

\* The children of r are handed to its parent p, in the list t.
HandedOver(R, Q, r, t) ==
    /\ DOMAIN Q = DOMAIN R /\ r \in DOMAIN R /\ R[r].parent /= None
    /\ \A x \in DOMAIN R :
          /\ Q[x].parent = IF R[x].parent = r THEN R[r].parent ELSE R[x].parent
          /\ Q[x].kids = IF x = r THEN << >> ELSE IF x = R[r].parent THEN t ELSE R[x].kids
          /\ Q[x].prio = R[x].prio

\* p has its own children and those of r.
LEMMA HandedOverFacts ==
  ASSUME NEW R, NEW Q, NEW r, NEW t, Parented(R), Tree(R), HandedOver(R, Q, r, t),
         t \in Seq(Res), Sorted(R, t),
         \A x : In(t, x) <=> In(R[r].kids, x) \/ In(R[R[r].parent].kids, x)
  PROVE  /\ Parented(Q) /\ Tree(Q)
         /\ \A x \in DOMAIN Q : Above(Q, x) \subseteq Above(R, x)
<1> DEFINE p == R[r].parent
<1>1. DOMAIN Q = DOMAIN R /\ r \in DOMAIN R /\ p \in DOMAIN R /\ p /= None /\ r /= None
  BY DEF HandedOver, Parented
<1>2. p /= r
  BY <1>1, AboveFacts DEF Tree, Acyclic
<1>3. Parented(Q) /\ KidTypes(Q)
  <2>1. Parented(Q)
    BY <1>1 DEF Parented, HandedOver
  <2>2. << >> \in Seq(Res)
    OBVIOUS
  <2>3. \A x \in DOMAIN Q : Q[x].kids \in Seq(Res) /\ Q[x].prio \in Int
    BY <1>1, <2>2 DEF Tree, KidTypes, HandedOver
  <2> QED BY <1>1, <2>1, <2>3 DEF Tree, KidTypes
<1>4. Lowered(R, Q)
  <2>1. ASSUME NEW y \in DOMAIN R PROVE Q[y].parent \in Above(R, y) \cup {None}
    <3>1. CASE R[y].parent = r
      <4>1. r \in Above(R, y)
        BY <1>1, <3>1, AboveFacts
      <4>2. p \in Above(R, r)
        BY <1>1, AboveFacts
      <4>3. Above(R, r) \subseteq Above(R, y)
        BY <4>1, AboveAbove
      <4> QED BY <3>1, <4>2, <4>3 DEF HandedOver
    <3>2. CASE R[y].parent /= r
      BY <3>2, AboveFacts DEF HandedOver
    <3> QED BY <3>1, <3>2
  <2> QED BY <1>1, <2>1 DEF Lowered
<1>5. Related(R)
  BY FamiliesRelated DEF Tree
<1>6. Related(Q)
  <2> SUFFICES ASSUME NEW y \in DOMAIN R
               PROVE  /\ \A x : In(Q[y].kids, x) => x \in DOMAIN R /\ Q[x].parent = y
                      /\ Sorted(Q, Q[y].kids)
                      /\ Q[y].parent /= None => In(Q[Q[y].parent].kids, y)
    BY <1>1 DEF Related
  <2>0. \A z \in DOMAIN R : \A x : In(R[z].kids, x) => x \in DOMAIN R /\ R[x].parent = z
    BY <1>5 DEF Related
  <2>1. \A x : In(Q[y].kids, x) => x \in DOMAIN R /\ Q[x].parent = y
    <3>1. CASE y = r
      <4>1. Len(Q[y].kids) = 0
        BY <1>1, <3>1 DEF HandedOver
      <4> QED BY <4>1 DEF In
    <3>2. CASE y = p
      <4>1. Q[y].kids = t
        BY <1>1, <1>2, <3>2 DEF HandedOver
      <4>2. \A x : In(t, x) => x \in DOMAIN R /\ (R[x].parent = r \/ R[x].parent = p)
        BY <1>1, <2>0
      <4> QED BY <1>2, <3>2, <4>1, <4>2 DEF HandedOver
    <3>3. CASE y /= r /\ y /= p
      <4>1. Q[y].kids = R[y].kids
        BY <3>3 DEF HandedOver
      <4> QED BY <2>0, <3>3, <4>1 DEF HandedOver
    <3> QED BY <3>1, <3>2, <3>3
  <2>2. Sorted(R, Q[y].kids)
    <3>1. CASE y = r
      <4>1. Len(Q[y].kids) = 0
        BY <1>1, <3>1 DEF HandedOver
      <4> QED BY <4>1 DEF Sorted, Before
    <3>2. CASE y /= r
      BY <1>5, <3>2 DEF HandedOver, Related
    <3> QED BY <3>1, <3>2
  <2>3. \A x, z : Before(Q[y].kids, x, z) => In(Q[y].kids, x) /\ In(Q[y].kids, z)
    BY DEF Before, In
  <2>4. \A x \in DOMAIN R : Q[x].prio = R[x].prio
    BY DEF HandedOver
  <2>5. Sorted(Q, Q[y].kids)
    BY <2>1, <2>2, <2>3, <2>4 DEF Sorted
  <2>6. ASSUME Q[y].parent /= None PROVE In(Q[Q[y].parent].kids, y)
    <3>1. R[y].parent /= None /\ R[y].parent \in DOMAIN R
      BY <1>1, <2>6 DEF HandedOver, Parented
    <3>2. In(R[R[y].parent].kids, y)
      BY <1>5, <3>1 DEF Related
    <3>3. Q[p].kids = t
      BY <1>1, <1>2 DEF HandedOver
    <3>4. CASE R[y].parent = r \/ R[y].parent = p
      <4>1. Q[y].parent = p
        BY <3>4 DEF HandedOver
      <4> QED BY <3>2, <3>3, <3>4, <4>1
    <3>5. CASE R[y].parent /= r /\ R[y].parent /= p
      BY <3>1, <3>2, <3>5 DEF HandedOver
    <3> QED BY <3>4, <3>5
  <2> QED BY <2>1, <2>5, <2>6
<1>7. Families(Q)
  BY <1>3, <1>6, FamiliesRelated
<1> QED BY <1>3, <1>4, <1>7, LoweredFacts DEF Tree
-----------------------------------------------------------------------------
(***************************************************************************)
(* What the operations make of the tree.                                   *)
(***************************************************************************)

\* What the invariant of the counts says about parents.
LEMMA IndParented ==
  ASSUME IndInv
  PROVE  Parented(res) /\ Live \subseteq Res /\ None \notin Live /\ Outside \notin Live
BY ResAssumption DEF IndInv, Types, NothingDangles, Parented, Live, None, Outside

SameFlags == \A x \in Live \cap Live' : res'[x].flags = res[x].flags

\* Neither the tree nor what is hidden changes.
Calm == SameTree(res, res') /\ SameFlags

\* The iterators that are left are as they were.
SameIters == DOMAIN iter' \subseteq DOMAIN iter /\ \A i \in DOMAIN iter' : iter'[i] = iter[i]

\* r and what goes with it are destroyed; a walk over its siblings stands on r, is over, or
\* does not know r yet.
Destruction ==
    \E r \in Live : \E gone :
        /\ Released(r, gone) /\ DestroyAll(Doomed(r), gone)
        /\ res[r].parent = None \/ Steppable(r) \/ r \in InMaking

\* The counts of a resource are not part of the tree.
LEMMA CountCalm ==
  ASSUME IndInv, NEW r, NEW refs, NEW held, NEW ready,
         \/ res' = [res EXCEPT ![r].refs = refs]
         \/ res' = [res EXCEPT ![r].refs = refs, ![r].held = held]
         \/ res' = [res EXCEPT ![r].refs = refs, ![r].ready = ready]
         \/ res' = [res EXCEPT ![r].sigfd = ready]
         \/ UNCHANGED res
  PROVE  Calm
<1>1. DOMAIN res' = DOMAIN res
  OBVIOUS
<1>2. ASSUME NEW x \in DOMAIN res
      PROVE  /\ res'[x].parent = res[x].parent /\ res'[x].kids = res[x].kids
             /\ res'[x].prio = res[x].prio /\ res'[x].flags = res[x].flags
  <2>1. DOMAIN res[x] = Fields
    BY LiveFacts DEF Live
  <2> QED BY <2>1 DEF Fields
<1> QED BY <1>1, <1>2 DEF Calm, SameTree, SameFlags, Live

\* Destruction, as a change of the tree.
LEMMA DestructionTree ==
  ASSUME IndInv, NEW r \in Live, NEW gone, Released(r, gone), DestroyAll(Doomed(r), gone)
  PROVE  /\ Destroyed(res, res', Doomed(r)) /\ SameFlags /\ SameIters
         /\ r \in Doomed(r) /\ Doomed(r) \in SUBSET Live
<1> DEFINE D == Doomed(r)
<1>1. r \in D /\ D \in SUBSET Live
  BY IndCovered, DoomedFacts DEF IndInv
<1>2. SameIters
  BY DestroyedState DEF SameIters
<1> HIDE DEF D
<1>3. res' = [x \in Live \ D |-> [res[x] EXCEPT !.refs = @ - Lost(D, x),
                                                !.parent = IF @ \in D THEN None ELSE @,
                                                !.kids = Kept(@, D)]]
  BY DEF DestroyAll, D
<1>4. DOMAIN res' = Live \ D
  BY <1>3
<1>5. ASSUME NEW x \in Live \ D
      PROVE  /\ res'[x].parent = IF res[x].parent \in D THEN None ELSE res[x].parent
             /\ res'[x].kids = Kept(res[x].kids, D)
             /\ res'[x].prio = res[x].prio /\ res'[x].flags = res[x].flags
  <2>1. DOMAIN res[x] = Fields
    BY LiveFacts
  <2>2. res'[x] = [res[x] EXCEPT !.refs = @ - Lost(D, x),
                                 !.parent = IF @ \in D THEN None ELSE @,
                                 !.kids = Kept(@, D)]
    BY <1>3
  <2> QED BY <2>1, <2>2 DEF Fields
<1>6. Destroyed(res, res', D)
  BY <1>4, <1>5 DEF Destroyed, Live
<1>7. SameFlags
  BY <1>4, <1>5 DEF SameFlags, Live
<1> QED BY <1>1, <1>2, <1>6, <1>7 DEF D

\* What an operation leaves of the iterators and the creations, for the tree.
Settled ==
    /\ \A i \in DOMAIN iter' :
          /\ i \in DOMAIN iter /\ iter'[i].owner = iter[i].owner /\ iter'[i].res = iter[i].res
          /\ iter'[i].refd = iter[i].refd
    /\ creating' = creating \/ (~Idle /\ creating' = Front(creating))
    /\ \A x \in InMaking' : res'[x].parent \in {res[x].parent, None}

\* A list without its last element.
LEMMA FrontOf ==
  ASSUME NEW s \in Seq(Res), s /= << >>
  PROVE  Len(Front(s)) <= Len(s) /\ \A k \in 1..Len(Front(s)) : Front(s)[k] = s[k]
<1>1. PICK n \in Nat : n = Len(s) /\ n > 0
  OBVIOUS
<1>2. PICK f : f = Front(s)
  OBVIOUS
<1>3. f = SubSeq(s, 1, n - 1)
  BY <1>1, <1>2 DEF Front
<1>4. f \in Seq(Res) /\ Len(f) = n - 1 /\ \A k \in 1..(n - 1) : f[k] = s[k]
  BY <1>1, <1>3
<1>5. n - 1 <= n
  BY <1>1
<1> QED BY <1>1, <1>2, <1>4, <1>5

\* Creations end in the order opposite to that of their beginnings.
LEMMA StackedKept ==
  ASSUME IndInv, Stacked, Settled, IndInv'
  PROVE  Stacked'
<1>1. creating \in Seq(Res) /\ creating' \in Seq(Res) /\ InMaking' \subseteq Live'
  BY DEF IndInv, Nested, Making
<1>2. Len(creating') <= Len(creating) /\ \A k \in 1..Len(creating') : creating'[k] = creating[k]
  <2>1. CASE creating' = creating
    BY <1>1, <2>1
  <2>2. CASE ~Idle /\ creating' = Front(creating)
    BY <1>1, <2>2, FrontOf DEF Idle
  <2> QED BY <2>1, <2>2 DEF Settled
<1>3. \A k \in 1..Len(creating') : creating'[k] \in InMaking' /\ k \in 1..Len(creating)
  <2>1. DOMAIN creating' = 1..Len(creating') /\ Len(creating) \in Nat /\ Len(creating') \in Nat
    BY <1>1
  <2> QED BY <1>2, <2>1 DEF InMaking, Range
<1>4. None \notin Live'
  BY ResAssumption DEF IndInv, Types, None
<1> SUFFICES ASSUME NEW k \in 1..Len(creating'), NEW j \in 1..k
             PROVE  res'[creating'[j]].parent /= creating'[k]
  BY DEF Stacked
<1>5. j \in 1..Len(creating') /\ k \in 1..Len(creating)
  BY <1>1, <1>3
<1>6. res'[creating'[j]].parent \in {res[creating'[j]].parent, None}
  BY <1>3, <1>5 DEF Settled
<1>7. creating'[j] = creating[j] /\ creating'[k] = creating[k] /\ creating'[k] \in Live'
  BY <1>1, <1>2, <1>3, <1>5
<1>8. res[creating[j]].parent /= creating[k]
  BY <1>5 DEF Stacked
<1> QED BY <1>4, <1>6, <1>7, <1>8

\* Iterators stay apart from what is above their owners as long as nothing comes above them.
LEMMA ApartKept ==
  ASSUME IndInv, Apart, Settled, IndInv',
         \A x \in Live \cap Live' : Above(res', x) \subseteq Above(res, x)
  PROVE  Apart'
<1>1. Outside \notin Live'
  BY ResAssumption DEF IndInv, Types, Outside
<1> SUFFICES ASSUME NEW i \in DOMAIN iter', iter'[i].refd
             PROVE  /\ iter'[i].owner /= iter'[i].res
                    /\ iter'[i].owner \in Live' => iter'[i].res \notin Above(res', iter'[i].owner)
  BY DEF Apart
<1>2. /\ i \in DOMAIN iter /\ iter[i].refd
      /\ iter'[i].owner = iter[i].owner /\ iter'[i].res = iter[i].res
  BY DEF Settled
<1>3. iter[i].owner \in Live \cup {Outside}
  BY <1>2 DEF IndInv, NothingDangles
<1> QED BY <1>1, <1>2, <1>3 DEF Apart

\* The tree after a step that changes no parent but to none.
LEMMA TreeKept ==
  ASSUME TreeInd, Settled, IndInv', Tree(res'),
         \A x \in Live \cap Live' : Above(res', x) \subseteq Above(res, x)
  PROVE  TreeInd'
<1>1. Stacked'
  BY StackedKept DEF TreeInd
<1>2. Apart'
  BY ApartKept DEF TreeInd
<1> QED BY <1>1, <1>2 DEF TreeInd

\* A calm step.
LEMMA CalmTree ==
  ASSUME TreeInd, Calm
  PROVE  /\ Tree(res') /\ Live' = Live
         /\ \A x \in Live : Above(res', x) \subseteq Above(res, x)
         /\ \A x \in Live : res'[x].parent = res[x].parent /\ res'[x].kids = res[x].kids
<1>1. Parented(res) /\ Tree(res) /\ SameTree(res, res')
  BY IndParented DEF TreeInd, Calm
<1>2. DOMAIN res' = DOMAIN res
  BY <1>1 DEF SameTree
<1> QED BY <1>1, <1>2, SameTreeFacts DEF Live, SameTree

\* A destruction.
LEMMA DestructionInd ==
  ASSUME TreeInd, IndInv', Destruction, creating' = creating \/ (~Idle /\ creating' = Front(creating))
  PROVE  TreeInd'
<1>1. PICK r \in Live : \E gone : Released(r, gone) /\ DestroyAll(Doomed(r), gone)
  BY DEF Destruction
<1>2. PICK gone : Released(r, gone) /\ DestroyAll(Doomed(r), gone)
  BY <1>1
<1>3. Destroyed(res, res', Doomed(r)) /\ SameIters /\ Doomed(r) \in SUBSET Live
  BY <1>2, DestructionTree DEF TreeInd
<1>4. Parented(res) /\ Tree(res) /\ None \notin Live
  BY IndParented DEF TreeInd
<1>5. Tree(res') /\ \A x \in DOMAIN res' : Above(res', x) \subseteq Above(res, x)
  BY <1>3, <1>4, DestroyedFacts
<1>6. \A x \in Live' : res'[x].parent \in {res[x].parent, None}
  BY <1>3 DEF Destroyed, Live
<1>7. InMaking' \subseteq Live'
  BY DEF IndInv, Making
<1>8. Settled
  BY <1>3, <1>6, <1>7 DEF Settled, SameIters
<1>9. \A x \in Live \cap Live' : Above(res', x) \subseteq Above(res, x)
  BY <1>5 DEF Live
<1> QED BY <1>5, <1>8, <1>9, TreeKept

\* RemoveFromParent, as a change of the tree.
LEMMA RemovedTree ==
  ASSUME NEW Q, NEW r \in DOMAIN Q, Q[r].parent /= None, Q[r].parent \in DOMAIN Q,
         \A x \in DOMAIN Q : DOMAIN Q[x] = Fields
  PROVE  /\ Left(Q, RemoveFromParent(Q, r), r)
         /\ \A x \in DOMAIN Q : /\ DOMAIN RemoveFromParent(Q, r)[x] = Fields
                                /\ RemoveFromParent(Q, r)[x].flags = Q[x].flags
<1> DEFINE p == Q[r].parent
           S == RemoveFromParent(Q, r)
<1>1. S = [Q EXCEPT ![p].kids = Kept(@, {r}), ![r].parent = None, ![r].refs = @ - 1]
  BY DEF RemoveFromParent
<1>2. p \in DOMAIN Q
  OBVIOUS
<1> HIDE DEF S
<1>3. DOMAIN S = DOMAIN Q
  BY <1>1
<1>4. ASSUME NEW x \in DOMAIN Q
      PROVE  /\ DOMAIN S[x] = Fields /\ S[x].flags = Q[x].flags /\ S[x].prio = Q[x].prio
             /\ S[x].parent = IF x = r THEN None ELSE Q[x].parent
             /\ S[x].kids = IF x = p THEN Kept(Q[x].kids, {r}) ELSE Q[x].kids
  <2> HIDE DEF p
  <2> QED BY <1>1, <1>2 DEF Fields
<1> QED BY <1>3, <1>4 DEF Left, S

\* AddToParent, as a change of the tree.
LEMMA AddedTree ==
  ASSUME NEW Q, NEW r \in DOMAIN Q, NEW p \in DOMAIN Q, p /= None, Q[r].parent = None,
         \A x \in DOMAIN Q : DOMAIN Q[x] = Fields
  PROVE  /\ Entered(Q, AddToParent(Q, r, p), r, p)
         /\ \A x \in DOMAIN Q : /\ DOMAIN AddToParent(Q, r, p)[x] = Fields
                                /\ AddToParent(Q, r, p)[x].flags = Q[x].flags
<1> DEFINE S == AddToParent(Q, r, p)
<1>1. S = [Q EXCEPT ![p].kids = Placed(Q, @, r), ![r].parent = p, ![r].refs = @ + 1]
  BY DEF AddToParent
<1> HIDE DEF S
<1>2. DOMAIN S = DOMAIN Q
  BY <1>1
<1>3. ASSUME NEW x \in DOMAIN Q
      PROVE  /\ DOMAIN S[x] = Fields /\ S[x].flags = Q[x].flags /\ S[x].prio = Q[x].prio
             /\ S[x].parent = IF x = r THEN p ELSE Q[x].parent
             /\ S[x].kids = IF x = p THEN Placed(Q, Q[x].kids, r) ELSE Q[x].kids
  BY <1>1 DEF Fields
<1> QED BY <1>2, <1>3 DEF Entered, S

\* A creation: the new resource n appears and comes below p.
Creation(n, p) ==
    \E R : /\ Appeared(res, R, n)
           /\ IF p = None THEN res' = R ELSE Entered(R, res', n, p)
           /\ SameFlags /\ creating' = Append(creating, n)

\* sid_res_create is a creation.
LEMMA CreateTree ==
  ASSUME IndInv, NEW p \in Live \cup {None}, NEW flags, sid_res_create(p, Normal, flags, FALSE)
  PROVE  Creation(Fresh, p) /\ UNCHANGED iter
<1> DEFINE r == Fresh
           new == [parent |-> None, kids |-> << >>, refs |-> 1, held |-> 0,
                   prio |-> Normal, flags |-> flags, loop |-> FALSE, sigfd |-> FALSE,
                   ready |-> FALSE]
           R == [x \in Live \cup {r} |-> IF x = r THEN new ELSE res[x]]
<1>1. /\ res' = AddToParent(R, r, p) /\ creating' = Append(creating, r)
      /\ UNCHANGED iter
  BY DEF sid_res_create
<1>2. r \in Res /\ r \notin Live
  <2>1. \E q \in Res : \A x \in Live : x < q
    BY DEF sid_res_create
  <2>2. r \in Res /\ \A x \in Live : x < r
    BY <2>1 DEF Fresh
  <2> QED BY <2>2, ResAssumption
<1>3. DOMAIN new = Fields /\ new.parent = None /\ new.kids = << >> /\ new.prio \in Int
  BY DEF Fields, Normal
<1> HIDE DEF r, new
<1>4. DOMAIN R = Live \cup {r} /\ R[r] = new /\ \A x \in Live : R[x] = res[x]
  BY <1>2
<1> HIDE DEF R
<1>5. Appeared(res, R, r)
  BY <1>2, <1>3, <1>4 DEF Appeared, Live
<1>6. \A x \in DOMAIN R : DOMAIN R[x] = Fields
  BY <1>3, <1>4, LiveFacts
<1>7. CASE p = None
  <2>1. res' = R
    BY <1>1, <1>7 DEF AddToParent
  <2>2. SameFlags
    BY <1>4, <2>1 DEF SameFlags
  <2> QED BY <1>1, <1>5, <1>7, <2>1, <2>2 DEF Creation, r
<1>8. CASE p /= None
  <2>1. p \in DOMAIN R /\ r \in DOMAIN R /\ R[r].parent = None
    BY <1>3, <1>4, <1>8
  <2>2. Entered(R, res', r, p) /\ \A x \in DOMAIN R : res'[x].flags = R[x].flags
    BY <1>1, <1>6, <1>8, <2>1, AddedTree
  <2>3. SameFlags
    BY <1>4, <2>2 DEF SameFlags
  <2> QED BY <1>1, <1>5, <1>8, <2>2, <2>3 DEF Creation, r
<1> QED BY <1>7, <1>8

\* A new resource comes below nothing it is above of.
LEMMA CreationTree ==
  ASSUME TreeInd, NEW n, NEW p \in Live \cup {None}, Creation(n, p)
  PROVE  /\ Tree(res') /\ Live' = Live \cup {n} /\ n \notin Live /\ n \in Res /\ res'[n].parent = p
         /\ \A x \in Live : /\ Above(res', x) \subseteq Above(res, x)
                            /\ res'[x].parent = res[x].parent
                            /\ x /= p => res'[x].kids = res[x].kids
         /\ p /= None => \E R : Appeared(res, R, n) /\ res'[p].kids = Placed(R, res[p].kids, n)
<1>1. PICK R : /\ Appeared(res, R, n)
               /\ IF p = None THEN res' = R ELSE Entered(R, res', n, p)
  BY DEF Creation
<1>2. Parented(res) /\ Tree(res) /\ Live \subseteq Res /\ None \notin Live
  BY IndParented DEF TreeInd
<1>3. /\ Parented(R) /\ Tree(R) /\ Above(R, n) = {}
      /\ \A x \in Live : Above(R, x) \subseteq Above(res, x)
  BY <1>1, <1>2, AppearedFacts, ResAssumption DEF Live
<1>4. /\ n \notin Live /\ n \in Res /\ DOMAIN R = Live \cup {n} /\ R[n].parent = None
      /\ \A x \in Live : R[x] = res[x]
  BY <1>1 DEF Appeared, Live
<1>5. CASE p = None
  BY <1>1, <1>3, <1>4, <1>5 DEF Live
<1>6. CASE p /= None
  <2>1. p \in Live /\ Entered(R, res', n, p)
    BY <1>1, <1>6
  <2>2. n \notin Above(R, p) /\ \A x \in Live : n \notin Above(R, x)
    <3>1. \A x \in Live : Above(res, x) \subseteq Live
      BY <1>2, AboveFacts DEF Live
    <3> QED BY <1>3, <1>4, <2>1, <3>1
  <2>3. DOMAIN R \subseteq Res
    BY <1>2, <1>4
  <2>4. n /= p
    BY <1>4, <2>1
  <2>5. /\ Tree(res')
        /\ \A x \in DOMAIN res' :
               Above(res', x) \subseteq IF x = n \/ n \in Above(R, x)
                                     THEN Above(R, x) \cup {p} \cup Above(R, p) ELSE Above(R, x)
    BY <1>3, <2>1, <2>2, <2>3, <2>4, EnteredFacts
  <2>6. /\ DOMAIN res' = DOMAIN R /\ res'[n].parent = p
        /\ \A x \in Live : res'[x].parent = res[x].parent /\ (x /= p => res'[x].kids = res[x].kids)
        /\ res'[p].kids = Placed(R, res[p].kids, n)
    BY <1>4, <2>1, <2>4 DEF Entered
  <2>7. \A x \in Live : Above(res', x) \subseteq Above(res, x)
    BY <1>3, <1>4, <2>2, <2>5, <2>6
  <2> QED BY <1>1, <1>4, <2>5, <2>6, <2>7 DEF Live
<1> QED BY <1>5, <1>6

\* Creation and the invariant.
LEMMA CreationInd ==
  ASSUME TreeInd, IndInv', NEW n, NEW p \in Live \cup {None}, Creation(n, p), UNCHANGED iter
  PROVE  TreeInd'
<1>1. /\ Tree(res') /\ Live' = Live \cup {n} /\ n \notin Live /\ n \in Res /\ res'[n].parent = p
      /\ \A x \in Live : Above(res', x) \subseteq Above(res, x) /\ res'[x].parent = res[x].parent
  BY CreationTree
<1>2. creating' = Append(creating, n)
  BY DEF Creation
<1>3. None \notin Live /\ Outside \notin Live /\ Outside \notin Live'
  BY IndParented, ResAssumption DEF TreeInd, IndInv, Types, Outside
<1>4. Apart'
  <2> SUFFICES ASSUME NEW i \in DOMAIN iter, iter[i].refd
               PROVE  /\ iter[i].owner /= iter[i].res
                      /\ iter[i].owner \in Live' => iter[i].res \notin Above(res', iter[i].owner)
    BY DEF Apart
  <2>1. iter[i].owner \in Live \cup {Outside}
    BY DEF TreeInd, IndInv, NothingDangles
  <2> QED BY <1>1, <1>3, <2>1 DEF TreeInd, Apart
<1>5. Stacked'
  <2> DEFINE L == Len(creating)
  <2>1. creating \in Seq(Res) /\ L \in Nat /\ InMaking \subseteq Live /\ DOMAIN creating = 1..L
    BY DEF TreeInd, IndInv, Nested, Making
  <2>2. /\ Len(creating') = L + 1 /\ creating'[L + 1] = n
        /\ \A k \in 1..L : creating'[k] = creating[k]
    BY <1>1, <1>2, <2>1
  <2>3. \A k \in 1..L : creating[k] \in Live
    BY <2>1 DEF InMaking, Range
  <2> HIDE DEF L
  <2> SUFFICES ASSUME NEW k \in 1..(L + 1), NEW j \in 1..k
               PROVE  res'[creating'[j]].parent /= creating'[k]
    BY <2>2 DEF Stacked
  <2>4. CASE k \in 1..L
    <3>1. j \in 1..L
      BY <2>1, <2>4
    <3>2. res[creating[j]].parent /= creating[k]
      BY <2>4 DEF TreeInd, Stacked, L
    <3> QED BY <1>1, <2>2, <2>3, <2>4, <3>1, <3>2
  <2>5. CASE k = L + 1
    <3>1. CASE j = L + 1
      <4>1. n /= None
        BY <1>1, ResAssumption DEF None
      <4> QED BY <1>1, <2>2, <2>5, <3>1, <4>1
    <3>2. CASE j \in 1..L
      <4>1. res'[creating'[j]].parent \in Live \cup {None}
        BY <1>1, <2>2, <2>3, <3>2, LiveFacts DEF TreeInd
      <4>2. n /= None
        BY <1>1, ResAssumption DEF None
      <4> QED BY <1>1, <2>2, <2>5, <4>1, <4>2
    <3>3. j \in 1..L \/ j = L + 1
      BY <2>1, <2>5
    <3> QED BY <3>1, <3>2, <3>3
  <2>6. k \in 1..L \/ k = L + 1
    BY <2>1
  <2> QED BY <2>4, <2>5, <2>6
<1> QED BY <1>1, <1>4, <1>5 DEF TreeInd

\* A changed priority: r leaves p and comes back.
Reordering(r, p) ==
    \E Q, R : /\ r \in Live /\ p = res[r].parent
              /\ Left(res, Q, r) /\ Reprioritised(Q, R, r) /\ Entered(R, res', r, p)
              /\ SameFlags

\* sid_res_set_prio takes the child in the making out and puts it back.
LEMMA SetPrioTree ==
  ASSUME IndInv, NEW prio \in Prios, sid_res_set_prio(prio)
  PROVE  /\ Reordering(Last(creating), res[Last(creating)].parent)
         /\ Last(creating) \in InMaking /\ UNCHANGED <<iter, creating>>
<1> DEFINE r == Last(creating)
           p == res[r].parent
           Q == RemoveFromParent(res, r)
           R == [Q EXCEPT ![r].prio = prio]
<1>1. /\ ~Idle /\ p /= None /\ res' = AddToParent(R, r, p)
      /\ UNCHANGED <<iter, creating>>
  BY DEF sid_res_set_prio
<1>2. r \in InMaking /\ r \in Live
  <2>1. creating \in Seq(Res) /\ Len(creating) > 0
    BY <1>1 DEF IndInv, Nested, Idle
  <2>2. r \in InMaking
    BY <2>1 DEF InMaking, Range, Last
  <2> QED BY <2>2 DEF IndInv, Making
<1> HIDE DEF r
<1>3. p \in Live /\ \A x \in Live : DOMAIN res[x] = Fields
  BY <1>1, <1>2, LiveFacts
<1>4. /\ Left(res, Q, r)
      /\ \A x \in Live : DOMAIN Q[x] = Fields /\ Q[x].flags = res[x].flags
  BY <1>1, <1>2, <1>3, RemovedTree DEF Live
<1> HIDE DEF Q
<1>5. DOMAIN Q = Live /\ Q[r].parent = None
  BY <1>2, <1>4 DEF Left, Live
<1>6. /\ DOMAIN R = Live /\ R[r].prio = prio
      /\ \A x \in Live : /\ DOMAIN R[x] = Fields /\ R[x].parent = Q[x].parent
                         /\ R[x].kids = Q[x].kids /\ (x /= r => R[x].prio = Q[x].prio)
                         /\ R[x].flags = Q[x].flags
  BY <1>2, <1>4, <1>5 DEF Fields
<1> HIDE DEF R, p
<1>7. prio \in Int
  BY PriosAssumption
<1>8. Reprioritised(Q, R, r)
  BY <1>2, <1>5, <1>6, <1>7 DEF Reprioritised
<1>9. Entered(R, res', r, p) /\ \A x \in Live : res'[x].flags = R[x].flags
  <2>1. p \in DOMAIN R /\ r \in DOMAIN R /\ R[r].parent = None
    BY <1>2, <1>3, <1>5, <1>6
  <2> QED BY <1>1, <1>6, <2>1, AddedTree
<1>10. SameFlags
  BY <1>4, <1>6, <1>9 DEF SameFlags
<1>11. Reordering(r, p)
  BY <1>2, <1>4, <1>8, <1>9, <1>10 DEF Reordering, p
<1> QED BY <1>1, <1>2, <1>11 DEF r, p

\* It comes back to where nothing is above it that was not.
LEMMA ReorderingTree ==
  ASSUME TreeInd, NEW r, NEW p, Reordering(r, p)
  PROVE  /\ Tree(res') /\ Live' = Live /\ r \in Live /\ p \in Live
         /\ \A x \in Live : /\ Above(res', x) \subseteq Above(res, x)
                            /\ res'[x].parent = res[x].parent
                            /\ x /= p => res'[x].kids = res[x].kids
         /\ \E R : res'[p].kids = Placed(R, Kept(res[p].kids, {r}), r)
<1>1. PICK Q, R : /\ r \in Live /\ p = res[r].parent
                  /\ Left(res, Q, r) /\ Reprioritised(Q, R, r) /\ Entered(R, res', r, p)
  BY DEF Reordering
<1>2. Parented(res) /\ Tree(res) /\ Live \subseteq Res
  BY IndParented DEF TreeInd
<1>3. /\ Parented(Q) /\ Tree(Q)
      /\ \A x \in DOMAIN Q : Above(Q, x) \subseteq Above(res, x)
  BY <1>1, <1>2, LeftFacts
<1>4. /\ Parented(R) /\ Tree(R)
      /\ \A x \in DOMAIN R : Above(R, x) \subseteq Above(Q, x)
  BY <1>1, <1>3, ReprioritisedFacts
<1>5. DOMAIN Q = Live /\ DOMAIN R = Live /\ DOMAIN res' = Live /\ p \in Live /\ p /= None
  BY <1>1, <1>2 DEF Left, Reprioritised, Entered, Live, Parented
<1>6. p \in Above(res, r) /\ r \notin Above(res, r) /\ Above(res, p) \subseteq Above(res, r)
  <2>1. p \in Above(res, r)
    BY <1>1, <1>2, <1>5, AboveFacts DEF Live
  <2>2. Above(res, p) \subseteq Above(res, r)
    BY <1>1, <1>2, <2>1, AboveAbove DEF Live
  <2>3. r \notin Above(res, r)
    BY <1>1, <1>2 DEF Tree, Acyclic, Live
  <2> QED BY <2>1, <2>2, <2>3
<1>7. r /= p /\ r \notin Above(R, p) /\ DOMAIN R \subseteq Res
  BY <1>2, <1>3, <1>4, <1>5, <1>6
<1>8. /\ Tree(res')
      /\ \A x \in DOMAIN res' :
            Above(res', x) \subseteq IF x = r \/ r \in Above(R, x)
                                     THEN Above(R, x) \cup {p} \cup Above(R, p) ELSE Above(R, x)
  BY <1>1, <1>4, <1>7, EnteredFacts
<1>9. ASSUME NEW x \in Live PROVE Above(res', x) \subseteq Above(res, x)
  <2>1. Above(R, x) \subseteq Above(res, x) /\ Above(R, p) \subseteq Above(res, r)
    BY <1>3, <1>4, <1>5, <1>6
  <2>2. CASE x = r
    BY <1>5, <1>6, <1>8, <2>1, <2>2
  <2>3. CASE x /= r /\ r \in Above(R, x)
    <3>1. Above(res, r) \subseteq Above(res, x)
      BY <1>2, <2>1, <2>3, AboveAbove DEF Live
    <3> QED BY <1>5, <1>6, <1>8, <2>1, <2>3, <3>1
  <2>4. CASE x /= r /\ r \notin Above(R, x)
    BY <1>5, <1>8, <2>1, <2>4
  <2> QED BY <2>2, <2>3, <2>4
<1>10. ASSUME NEW x \in Live
       PROVE  /\ res'[x].parent = res[x].parent
              /\ x /= p => res'[x].kids = res[x].kids
  BY <1>1, <1>5 DEF Left, Reprioritised, Entered, Live
<1>11. res'[p].kids = Placed(R, Kept(res[p].kids, {r}), r)
  <2>1. Q[p].kids = Kept(res[p].kids, {r})
    BY <1>1, <1>5 DEF Left, Live
  <2>2. R[p].kids = Q[p].kids
    BY <1>1, <1>5 DEF Reprioritised
  <2>3. res'[p].kids = Placed(R, R[p].kids, r)
    BY <1>1, <1>5 DEF Entered
  <2> QED BY <2>1, <2>2, <2>3
<1> QED BY <1>1, <1>5, <1>8, <1>9, <1>10, <1>11 DEF Live

\* sid_res_add_child, as a change of the tree: c comes below r.
Adoption(r, c) ==
    \E R : /\ SameTree(res, R) /\ Entered(R, res', c, r)
           /\ \A x \in Live : x /= c => res'[x].flags = res[x].flags

\* sid_res_add_child puts a child in.
LEMMA AddChildTree ==
  ASSUME IndInv, NEW r \in Live, NEW c \in Live, NEW flags, sid_res_add_child(r, c, flags)
  PROVE  Adoption(r, c) /\ UNCHANGED <<iter, creating>>
<1> DEFINE R == [res EXCEPT ![c].flags = flags]
<1>1. /\ res[c].parent = None /\ res' = AddToParent(R, c, r)
      /\ UNCHANGED <<iter, creating>>
  BY DEF sid_res_add_child
<1>2. /\ DOMAIN R = Live
      /\ \A x \in Live : /\ DOMAIN R[x] = Fields /\ R[x].parent = res[x].parent
                         /\ R[x].kids = res[x].kids /\ R[x].prio = res[x].prio
                         /\ x /= c => R[x].flags = res[x].flags
  BY LiveFacts DEF Fields, Live
<1> HIDE DEF R
<1>3. Entered(R, res', c, r) /\ \A x \in Live : res'[x].flags = R[x].flags
  BY <1>1, <1>2, LiveFacts, AddedTree
<1>4. SameTree(res, R)
  BY <1>2 DEF SameTree, Live
<1> QED BY <1>1, <1>2, <1>3, <1>4 DEF Adoption

\* A child that r is not below of.
LEMMA AdoptionTree ==
  ASSUME TreeInd, NEW r \in Live, NEW c \in Live, Adoption(r, c), r /= c, c \notin Above(res, r)
  PROVE  /\ Tree(res') /\ Live' = Live /\ res[c].parent = None
         /\ \A x \in Live : /\ Above(res', x) \subseteq
                                  IF x = c \/ c \in Above(res, x)
                                  THEN Above(res, x) \cup {r} \cup Above(res, r) ELSE Above(res, x)
                            /\ x /= c => res'[x].parent = res[x].parent
                            /\ x /= r => res'[x].kids = res[x].kids
<1>1. PICK R : SameTree(res, R) /\ Entered(R, res', c, r)
  BY DEF Adoption
<1>2. Parented(res) /\ Tree(res) /\ Live \subseteq Res
  BY IndParented DEF TreeInd
<1>3. /\ Parented(R) /\ Tree(R)
      /\ \A x \in DOMAIN R : Above(R, x) \subseteq Above(res, x)
  BY <1>1, <1>2, SameTreeFacts
<1>4. DOMAIN R = Live /\ DOMAIN res' = Live
  BY <1>1 DEF SameTree, Entered, Live
<1>5. c \notin Above(R, r) /\ DOMAIN R \subseteq Res
  BY <1>2, <1>3, <1>4
<1>6. /\ Tree(res')
      /\ \A x \in DOMAIN res' :
            Above(res', x) \subseteq IF x = c \/ c \in Above(R, x)
                                     THEN Above(R, x) \cup {r} \cup Above(R, r) ELSE Above(R, x)
  BY <1>1, <1>3, <1>5, EnteredFacts
<1>7. res[c].parent = None
  BY <1>1 DEF SameTree, Entered, Live
<1>8. ASSUME NEW x \in Live
      PROVE  /\ x /= c => res'[x].parent = res[x].parent
             /\ x /= r => res'[x].kids = res[x].kids
  BY <1>1 DEF SameTree, Entered, Live
<1>9. ASSUME NEW x \in Live
      PROVE  Above(res', x) \subseteq IF x = c \/ c \in Above(res, x)
                                  THEN Above(res, x) \cup {r} \cup Above(res, r) ELSE Above(res, x)
  <2>1. /\ Above(R, x) \subseteq Above(res, x) /\ Above(R, r) \subseteq Above(res, r)
        /\ Above(res', x) \subseteq IF x = c \/ c \in Above(R, x)
                                     THEN Above(R, x) \cup {r} \cup Above(R, r) ELSE Above(R, x)
    BY <1>3, <1>4, <1>6
  <2> QED BY <2>1
<1> QED BY <1>4, <1>6, <1>7, <1>8, <1>9 DEF Live

\* sid_res_isolate, as a change of the tree: r leaves its parent, its children with it or not.
Isolation(r, subtree) ==
    /\ r \in Live /\ res[r].parent \in Live /\ SameFlags
    /\ \/ subtree /\ Left(res, res', r)
       \/ ~subtree /\ \E Q : HandedOver(res, Q, r, Joined(r)) /\ Left(Q, res', r)

\* What Reparented does to one resource.
LEMMA ReparentedOne ==
  ASSUME NEW r \in Live, NEW x \in Live, DOMAIN res[x] = Fields, res[r].parent /= r,
         res[x].parent = r => x /= r /\ x /= res[r].parent
  PROVE  /\ DOMAIN Reparented(r)[x] = Fields
         /\ Reparented(r)[x].parent = IF res[x].parent = r THEN res[r].parent ELSE res[x].parent
         /\ Reparented(r)[x].kids = IF x = r THEN << >> ELSE
                                    IF x = res[r].parent THEN Joined(r) ELSE res[x].kids
         /\ Reparented(r)[x].prio = res[x].prio /\ Reparented(r)[x].flags = res[x].flags
<1> DEFINE p == res[r].parent
<1>0. p /= r
  OBVIOUS
<1>1. PICK j : j = Joined(r)
  OBVIOUS
<1>2. Reparented(r)[x] = CASE x = r -> [res[x] EXCEPT !.kids = << >>]
                           [] x = p -> [res[x] EXCEPT !.kids = j]
                           [] OTHER -> IF res[x].parent = r THEN [res[x] EXCEPT !.parent = p]
                                       ELSE res[x]
  BY <1>1 DEF Reparented
<1> HIDE DEF p
<1>3. CASE x = r
  <2>1. Reparented(r)[x] = [res[x] EXCEPT !.kids = << >>]
    BY <1>0, <1>2, <1>3
  <2> QED BY <1>3, <2>1 DEF Fields, p
<1>4. CASE x /= r /\ x = p
  <2>1. Reparented(r)[x] = [res[x] EXCEPT !.kids = j]
    BY <1>2, <1>4
  <2> QED BY <1>1, <1>4, <2>1 DEF Fields, p
<1>5. CASE x /= r /\ x /= p
  <2>1. Reparented(r)[x] = IF res[x].parent = r THEN [res[x] EXCEPT !.parent = p] ELSE res[x]
    BY <1>2, <1>5
  <2> QED BY <1>5, <2>1 DEF Fields, p
<1> QED BY <1>3, <1>4, <1>5

\* sid_res_isolate takes a child out, once its children are handed over.
LEMMA IsolateTree ==
  ASSUME TreeInd, NEW r \in Live, NEW subtree \in BOOLEAN, sid_res_isolate(r, subtree)
  PROVE  Isolation(r, subtree) /\ UNCHANGED <<iter, creating>>
<1> DEFINE p == res[r].parent
           Q == IF subtree THEN res ELSE Reparented(r)
           R == RemoveFromParent(Q, r)
<1>1. p /= None /\ res' = R /\ UNCHANGED <<iter, creating>>
  BY DEF sid_res_isolate
<1>2. p \in Live /\ \A x \in Live : DOMAIN res[x] = Fields
  BY <1>1, LiveFacts DEF TreeInd
<1>3. CASE subtree
  <2>1. Left(res, res', r) /\ \A x \in Live : res'[x].flags = res[x].flags
    BY <1>1, <1>2, <1>3, RemovedTree DEF Live
  <2> QED BY <1>1, <1>2, <1>3, <2>1 DEF Isolation, SameFlags
<1>4. CASE ~subtree
  <2>1. Parented(res) /\ Tree(res)
    BY IndParented DEF TreeInd
  <2>2. p \in Above(res, r) /\ r \notin Above(res, r) /\ p /= r
    BY <1>1, <2>1, AboveFacts DEF Live, Tree, Acyclic
  <2>3. ASSUME NEW x \in Live, res[x].parent = r PROVE x /= r /\ x /= p
    <3>1. r \in Above(res, x) /\ x \notin Above(res, x)
      BY <2>1, <2>3, AboveFacts, IndParented DEF Live, Tree, Acyclic, TreeInd
    <3>2. Above(res, r) \subseteq Above(res, x)
      BY <2>1, <3>1, AboveAbove DEF Live
    <3> QED BY <2>2, <3>1, <3>2
  <2>4. PICK S : S = Reparented(r)
    OBVIOUS
  <2>5. DOMAIN S = Live
    BY <2>4 DEF Reparented
  <2>6. ASSUME NEW x \in Live
        PROVE  /\ DOMAIN S[x] = Fields
               /\ S[x].parent = IF res[x].parent = r THEN res[r].parent ELSE res[x].parent
               /\ S[x].kids = IF x = r THEN << >> ELSE
                                    IF x = res[r].parent THEN Joined(r) ELSE res[x].kids
               /\ S[x].prio = res[x].prio /\ S[x].flags = res[x].flags
    BY <1>2, <2>2, <2>3, <2>4, ReparentedOne
  <2>7. HandedOver(res, S, r, Joined(r))
    BY <1>1, <2>5, <2>6 DEF HandedOver, Live
  <2>8. res' = RemoveFromParent(S, r)
    BY <1>1, <1>4, <2>4
  <2>9. S[r].parent = p
    BY <2>2, <2>6
  <2>10. Left(S, res', r) /\ \A x \in Live : res'[x].flags = S[x].flags
    BY <1>1, <1>2, <2>5, <2>6, <2>8, <2>9, RemovedTree
  <2>11. SameFlags
    BY <2>6, <2>10 DEF SameFlags
  <2> QED BY <1>1, <1>2, <1>4, <2>7, <2>10, <2>11 DEF Isolation
<1> QED BY <1>3, <1>4

\* What is left without r, and with its children where they went, is a tree.
LEMMA IsolationTree ==
  ASSUME TreeInd, NEW r, NEW subtree, Isolation(r, subtree)
  PROVE  /\ Tree(res') /\ Live' = Live
         /\ \A x \in Live : Above(res', x) \subseteq Above(res, x)
         /\ \A x \in Live : x /= r /\ x /= res[r].parent => res'[x].kids = res[x].kids
         /\ subtree => /\ res'[r].kids = Kids(r)
                       /\ res'[res[r].parent].kids = Kept(Kids(res[r].parent), {r})
                       /\ \A x \in Live : res'[x].parent \in {res[x].parent, None}
<1> DEFINE p == res[r].parent
<1>1. Parented(res) /\ Tree(res) /\ r \in Live /\ p \in Live
  BY IndParented DEF TreeInd, Isolation
<1>2. p /= None /\ r /= p
  <2>1. p /= None
    BY <1>1, IndParented DEF TreeInd
  <2>2. p \in Above(res, r) /\ r \notin Above(res, r)
    BY <1>1, <2>1, AboveFacts DEF Tree, Acyclic, Live
  <2> QED BY <2>1, <2>2
<1>3. CASE subtree
  <2>1. Left(res, res', r)
    BY <1>3 DEF Isolation
  <2>2. Tree(res') /\ \A x \in DOMAIN res' : Above(res', x) \subseteq Above(res, x)
    BY <1>1, <2>1, LeftFacts
  <2>3. DOMAIN res' = Live
    BY <2>1 DEF Left, Live
  <2>4. \A x \in Live : /\ x /= p => res'[x].kids = res[x].kids
                        /\ x = p => res'[x].kids = Kept(res[x].kids, {r})
                        /\ res'[x].parent \in {res[x].parent, None}
    BY <2>1 DEF Left, Live
  <2> QED BY <1>1, <1>2, <2>2, <2>3, <2>4 DEF Live, Kids
<1>4. CASE ~subtree
  <2>1. PICK Q : HandedOver(res, Q, r, Joined(r)) /\ Left(Q, res', r)
    BY <1>4 DEF Isolation
  <2>2. /\ Joined(r) \in Seq(Res) /\ Sorted(res, Joined(r))
        /\ \A x : In(Joined(r), x) <=> In(res[r].kids, x) \/ In(res[p].kids, x)
    <3>1. KidTypes(res) /\ Related(res)
      BY <1>1, FamiliesRelated DEF Tree
    <3> QED BY <1>1, <1>2, <3>1, JoinedFacts DEF Kids
  <2>3. Parented(Q) /\ Tree(Q) /\ \A x \in DOMAIN Q : Above(Q, x) \subseteq Above(res, x)
    BY <1>1, <2>1, <2>2, HandedOverFacts
  <2>4. Tree(res') /\ \A x \in DOMAIN res' : Above(res', x) \subseteq Above(Q, x)
    BY <2>1, <2>3, LeftFacts
  <2>5. DOMAIN Q = Live /\ DOMAIN res' = Live /\ Q[r].parent = p
    BY <1>1, <1>2, <2>1 DEF HandedOver, Left, Live
  <2>6. \A x \in Live : x /= r /\ x /= p => res'[x].kids = res[x].kids
    BY <2>1, <2>5 DEF HandedOver, Left, Live
  <2> QED BY <1>4, <2>3, <2>4, <2>5, <2>6 DEF Live
<1> QED BY <1>3, <1>4
-----------------------------------------------------------------------------
(***************************************************************************)
(* The operations and the tree.                                            *)
(***************************************************************************)

\* Before the first step.
LEMMA InitTree == Init => TreeInd
<1> SUFFICES ASSUME Init PROVE TreeInd
  OBVIOUS
<1>1. IndInv /\ Parented(res) /\ Live \subseteq Nat
  BY InitInd, IndParented, ResAssumption
<1>2. /\ IsFiniteSet(Live) /\ Families(res)
      /\ \A r \in Live : /\ res[r].parent < r
                         /\ res[r].kids \in Seq(Res) /\ res[r].prio \in Int
  BY StartsAssumption DEF Init, Live
<1>3. Acyclic(res)
  <2> SUFFICES ASSUME NEW x \in Live PROVE x \notin Above(res, x)
    BY DEF Acyclic, Live
  <2> DEFINE S == {y \in Live : y < x}
  <2>1. S \in SUBSET DOMAIN res /\ x \notin S
    BY <1>1 DEF Live
  <2>2. \A y \in Live : res[y].parent /= None => res[y].parent \in Live /\ res[y].parent < y
    BY <1>1, <1>2 DEF Parented, Live
  <2>3. Upward(res, S)
    <3> SUFFICES ASSUME NEW y \in Live, y < x, res[y].parent /= None
                 PROVE  res[y].parent \in Live /\ res[y].parent < x
      BY DEF Upward
    <3>1. res[y].parent \in Live /\ res[y].parent < y
      BY <2>2
    <3> QED BY <1>1, <3>1
  <2>4. res[x].parent \in S \cup {None}
    BY <2>2
  <2> HIDE DEF S
  <2>5. Above(res, x) \subseteq S
    BY <1>1, <2>1, <2>3, <2>4, AboveFacts DEF Live
  <2> QED BY <2>1, <2>5
<1>4. DOMAIN iter = {} /\ Len(creating) = 0
  <2>1. << >> \in Seq({}) /\ Len(<< >>) = 0
    OBVIOUS
  <2>2. DOMAIN << >> = {}
    BY <2>1, LenProperties
  <2> QED BY <2>1, <2>2 DEF Init
<1>5. Apart /\ Stacked
  BY <1>4 DEF Apart, Stacked
<1> QED BY <1>1, <1>2, <1>3, <1>5 DEF TreeInd, Tree, KidTypes, Live

\* Ancestors and Below, where the operations ask for them.
LEMMA AncestorsTree ==
  ASSUME TreeInd
  PROVE  /\ \A r \in Live : Ancestors(r) = Above(res, r)
         /\ \A r : Below(r) = {x \in Live : r \in Above(res, x)}
<1>1. Parented(res) /\ IsFiniteSet(Live) /\ Acyclic(res)
  BY IndParented DEF TreeInd, Tree, KidTypes, Live
<1>2. \A r \in Live : Ancestors(r) = Above(res, r)
  BY <1>1, AncestorsAbove
<1> QED BY <1>2 DEF Below

\* A calm step that leaves iterators with their owners.
LEMMA CalmInd ==
  ASSUME TreeInd, IndInv', Calm,
         \A i \in DOMAIN iter' :
            /\ i \in DOMAIN iter /\ iter'[i].owner = iter[i].owner /\ iter'[i].res = iter[i].res
            /\ iter'[i].refd = iter[i].refd,
         creating' = creating \/ (~Idle /\ creating' = Front(creating))
  PROVE  TreeInd'
<1>1. /\ Tree(res') /\ Live' = Live
      /\ \A x \in Live : Above(res', x) \subseteq Above(res, x) /\ res'[x].parent = res[x].parent
  BY CalmTree
<1>2. InMaking' \subseteq Live'
  BY DEF IndInv, Making
<1>3. Settled
  BY <1>1, <1>2 DEF Settled
<1> QED BY <1>1, <1>3, TreeKept

\* Another priority leaves a tree.
LEMMA ReorderingInd ==
  ASSUME TreeInd, IndInv', NEW r, NEW p, Reordering(r, p), UNCHANGED <<iter, creating>>
  PROVE  TreeInd'
<1>1. /\ Tree(res') /\ Live' = Live
      /\ \A x \in Live : Above(res', x) \subseteq Above(res, x) /\ res'[x].parent = res[x].parent
  BY ReorderingTree
<1>2. InMaking' \subseteq Live'
  BY DEF IndInv, Making
<1>3. Settled
  BY <1>1, <1>2 DEF Settled
<1> QED BY <1>1, <1>3, TreeKept

\* What sid_res_isolate asks for.
LEMMA IsolationInd ==
  ASSUME TreeInd, IndInv', NEW r, NEW subtree \in BOOLEAN, Isolation(r, subtree), subtree \/ Idle,
         UNCHANGED <<iter, creating>>
  PROVE  TreeInd'
<1>1. /\ Tree(res') /\ Live' = Live
      /\ \A x \in Live : Above(res', x) \subseteq Above(res, x)
      /\ subtree => \A x \in Live : res'[x].parent \in {res[x].parent, None}
  BY IsolationTree
<1>2. InMaking' \subseteq Live'
  BY DEF IndInv, Making
<1>3. Idle => InMaking' = {}
  BY DEF Idle, InMaking, Range
<1>4. Settled
  BY <1>1, <1>2, <1>3 DEF Settled
<1> QED BY <1>1, <1>4, TreeKept

\* What sid_res_add_child asks for: r is not below c, and no iterator over r or above is kept
\* by c or below.
LEMMA AddChildTreeInd ==
  ASSUME TreeInd, IndInv', NEW r \in Live, NEW c \in Live, NEW flags, sid_res_add_child(r, c, flags)
  PROVE  TreeInd'
<1>1. Adoption(r, c) /\ UNCHANGED <<iter, creating>>
  BY AddChildTree DEF TreeInd
<1>2. /\ r /= c /\ c \notin Above(res, r) /\ c \notin InMaking
      /\ \A i \in DOMAIN iter : iter[i].refd /\ iter[i].res \in Above(res, r) \cup {r}
                                => iter[i].owner \notin Below(c) \cup {c}
  BY AncestorsTree, LiveFacts DEF sid_res_add_child, TreeInd
<1>3. /\ Tree(res') /\ Live' = Live
      /\ \A x \in Live : /\ Above(res', x) \subseteq
                                  IF x = c \/ c \in Above(res, x)
                                  THEN Above(res, x) \cup {r} \cup Above(res, r) ELSE Above(res, x)
                         /\ x /= c => res'[x].parent = res[x].parent
  BY <1>1, <1>2, AdoptionTree
<1>4. InMaking' = InMaking /\ InMaking \subseteq Live
  BY <1>1 DEF InMaking, TreeInd, IndInv, Making
<1>5. Settled
  BY <1>1, <1>2, <1>3, <1>4 DEF Settled
<1>6. Apart'
  <2> SUFFICES ASSUME NEW i \in DOMAIN iter, iter[i].refd
               PROVE  /\ iter[i].owner /= iter[i].res
                      /\ iter[i].owner \in Live => iter[i].res \notin Above(res', iter[i].owner)
    BY <1>1, <1>3 DEF Apart
  <2>1. /\ iter[i].owner /= iter[i].res
        /\ iter[i].owner \in Live => iter[i].res \notin Above(res, iter[i].owner)
    BY DEF TreeInd, Apart
  <2>2. ASSUME iter[i].owner \in Live, iter[i].res \in Above(res', iter[i].owner) PROVE FALSE
    <3>1. /\ iter[i].owner = c \/ c \in Above(res, iter[i].owner)
          /\ iter[i].res \in Above(res, r) \cup {r}
      BY <1>3, <2>1, <2>2
    <3>2. iter[i].owner \in Below(c) \cup {c}
      BY <2>2, <3>1, AncestorsTree
    <3> QED BY <1>2, <3>1, <3>2
  <2> QED BY <2>1, <2>2
<1>7. Stacked'
  BY <1>5, StackedKept DEF TreeInd
<1> QED BY <1>3, <1>6, <1>7 DEF TreeInd

\* What sid_res_iter_create asks for: its owner is not what it walks over, nor below.
LEMMA IterCreateTree ==
  ASSUME TreeInd, IndInv', NEW i \in Iters, NEW r \in Live, NEW owner \in Live \cup {Outside},
         sid_res_iter_create(i, r, owner)
  PROVE  Calm /\ TreeInd'
<1> DEFINE it == NewIter(r, owner, Refs(r))
<1>1. /\ UNCHANGED creating
      /\ iter' = [j \in DOMAIN iter \cup {i} |-> IF j = i THEN it ELSE iter[j]]
      /\ res' = [res EXCEPT ![r].refs = @ + 1] \/ UNCHANGED res
      /\ res[r].ready => owner \notin Below(r) \cup {r}
  BY DEF sid_res_iter_create
<1>2. it.res = r /\ it.owner = owner /\ it.refd = res[r].ready
  BY DEF NewIter, Refs
<1> HIDE DEF it
<1>3. Calm
  BY <1>1, CountCalm DEF TreeInd
<1>4. /\ Tree(res') /\ Live' = Live
      /\ \A x \in Live : Above(res', x) \subseteq Above(res, x) /\ res'[x].parent = res[x].parent
  BY <1>3, CalmTree
<1>5. Apart'
  <2> SUFFICES ASSUME NEW j \in DOMAIN iter', iter'[j].refd
               PROVE  /\ iter'[j].owner /= iter'[j].res
                      /\ iter'[j].owner \in Live => iter'[j].res \notin Above(res', iter'[j].owner)
    BY <1>4 DEF Apart
  <2>1. CASE j = i
    <3>1. iter'[j].res = r /\ iter'[j].owner = owner /\ res[r].ready
      BY <1>1, <1>2, <2>1
    <3>2. owner \in Live => r \notin Above(res, owner)
      BY <1>1, <3>1, AncestorsTree
    <3> QED BY <1>1, <1>4, <3>1, <3>2
  <2>2. CASE j /= i
    BY <1>1, <1>4, <2>2 DEF TreeInd, Apart
  <2> QED BY <2>1, <2>2
<1>6. Stacked'
  <2>1. \A k \in 1..Len(creating) : creating[k] \in Live
    <3>1. DOMAIN creating = 1..Len(creating) /\ InMaking \subseteq Live
      BY DEF TreeInd, IndInv, Nested, Making
    <3> QED BY <3>1 DEF InMaking, Range
  <2>2. \A k \in 1..Len(creating) : \A j \in 1..k : j \in 1..Len(creating)
    <3>1. Len(creating) \in Nat
      BY DEF TreeInd, IndInv, Nested
    <3> QED BY <3>1
  <2> QED BY <1>1, <1>4, <2>1, <2>2 DEF TreeInd, Stacked
<1> QED BY <1>3, <1>4, <1>5, <1>6 DEF TreeInd

\* The init functions that run go on, or the innermost one ends.
Ends == creating' = creating \/ (~Idle /\ creating' = Front(creating))

\* A step that changes neither the tree nor a walk.
QuietStep == Calm /\ SameIters /\ Ends

\* An event changes nothing of the tree unless it is the last of its resource.
LEMMA DispatchKind ==
  ASSUME IndInv, NEW e \in DOMAIN src, NEW outcome, Dispatch(e, outcome)
  PROVE  QuietStep \/ (Destruction /\ Ends)
<1> DEFINE r == src[e].res
<1>1. r \in Live /\ UNCHANGED creating /\ Idle
  BY DEF Dispatch, IndInv, NothingDangles
<1>2. CASE UNCHANGED <<res, iter, loose>>
  <2>1. Calm
    BY <1>2, CountCalm
  <2> QED BY <1>1, <1>2, <2>1 DEF QuietStep, SameIters, Ends
<1>3. CASE Holders(r) = 0 /\ Steppable(r) /\ Unref(r)
  <2>1. res[r].ready
    <3>1. InMaking = {}
      BY <1>1 DEF Idle, InMaking, Range
    <3> QED BY <1>1, <3>1, LiveFacts
  <2>2. Released(r, {}) /\ DestroyAll(Doomed(r), {})
    BY <1>1, <1>3, <2>1, UnrefReleases
  <2> QED BY <1>1, <1>3, <2>2 DEF Destruction, Ends
<1> QED BY <1>2, <1>3 DEF Dispatch

\* A reference that is dropped is the last one or is counted.
LEMMA DropKind ==
  ASSUME IndInv, NEW r \in Live, DropRef(r) \/ sid_res_unref(r)
  PROVE  QuietStep \/ (Destruction /\ Ends)
<1>1. UNCHANGED creating
  BY DEF DropRef, sid_res_unref
<1>2. CASE sid_res_unref(r)
  <2>1. res[r].ready /\ Holders(r) = 0 /\ Steppable(r) /\ Unref(r)
    BY <1>2 DEF sid_res_unref
  <2>2. Released(r, {}) /\ DestroyAll(Doomed(r), {})
    BY <1>1, <2>1, UnrefReleases
  <2> QED BY <1>1, <2>1, <2>2 DEF Destruction, Ends
<1>3. CASE DropRef(r) /\ LastRef(r)
  <2>1. Released(r, {}) /\ DestroyAll(Doomed(r), {}) /\ res[r].parent = None
    BY <1>3, DropRefReleases
  <2> QED BY <1>1, <2>1 DEF Destruction, Ends
<1>4. CASE DropRef(r) /\ ~LastRef(r)
  <2>1. res' = [res EXCEPT ![r].refs = @ - 1, ![r].held = @ - 1] /\ UNCHANGED iter
    BY <1>4 DEF DropRef
  <2>2. Calm
    BY <2>1, CountCalm
  <2> QED BY <1>1, <2>1, <2>2 DEF QuietStep, SameIters, Ends
<1> QED BY <1>2, <1>3, <1>4

\* The same for the reference of an iterator.
LEMMA IterDropKind ==
  ASSUME IndInv, NEW i \in DOMAIN iter, sid_res_iter_destroy(i)
  PROVE  QuietStep \/ (Destruction /\ Ends)
<1> DEFINE r == iter[i].res
<1>1. UNCHANGED creating
  BY DEF sid_res_iter_destroy
<1>2. CASE LastRef(r)
  <2>1. r \in Live /\ Released(r, {i}) /\ DestroyAll(Doomed(r), {i}) /\ res[r].parent = None
    BY <1>2, IterDestroyReleases
  <2> QED BY <1>1, <2>1 DEF Destruction, Ends
<1>3. CASE ~LastRef(r)
  <2>1. /\ res' = [res EXCEPT ![r].refs = @ - 1]
        /\ iter' = [j \in DOMAIN iter \ {i} |-> iter[j]]
    BY <1>3 DEF sid_res_iter_destroy
  <2> HIDE DEF r
  <2>2. Calm
    BY <2>1, CountCalm
  <2> QED BY <1>1, <2>1, <2>2 DEF QuietStep, SameIters, Ends
<1> QED BY <1>2, <1>3

\* A creation that ends, well or not.
LEMMA EndKind ==
  ASSUME IndInv, InitDone \/ InitFailed
  PROVE  QuietStep \/ (Destruction /\ Ends)
<1>1. Ends
  BY DEF InitDone, InitFailed, Ends
<1>2. CASE InitDone
  <2> DEFINE r == Last(creating)
  <2>1. res' = [res EXCEPT ![r].refs = @ - 1, ![r].ready = TRUE] /\ UNCHANGED iter
    BY <1>2 DEF InitDone
  <2> HIDE DEF r
  <2>2. Calm
    BY <2>1, CountCalm
  <2> QED BY <1>1, <2>1, <2>2 DEF QuietStep, SameIters
<1>3. CASE InitFailed
  BY <1>1, <1>3, InitFailedReleases DEF Destruction
<1> QED BY <1>2, <1>3

\* References and event sources.
LEMMA OtherKind ==
  ASSUME IndInv,
         \/ \E r \in Live : sid_res_ref(r) \/ sid_res_ev_loop_run(r)
         \/ \E r \in Live, e \in Sources, kind \in Kinds : sid_res_ev_create(e, r, kind)
         \/ \E e \in DOMAIN src, rel \in BOOLEAN, max \in {1, Unlimited - 1} :
               sid_res_ev_set_counter(e, rel, max)
         \/ \E e \in DOMAIN src : sid_res_ev_destroy(e)
         \/ UNCHANGED vars
  PROVE  QuietStep
<1>1. UNCHANGED <<iter, creating>>
  BY DEF sid_res_ref, sid_res_ev_loop_run, sid_res_ev_create, sid_res_ev_set_counter,
         sid_res_ev_destroy, vars
<1>2. Calm
  <2>1. ASSUME NEW r \in Live, sid_res_ref(r) PROVE Calm
    BY <2>1, CountCalm DEF sid_res_ref
  <2>2. ASSUME NEW r \in Live, NEW e \in Sources, NEW kind \in Kinds, sid_res_ev_create(e, r, kind)
        PROVE  Calm
    <3> DEFINE l == ResWithEvLoop[r]
    <3>1. res' = [res EXCEPT ![l].sigfd = TRUE] \/ UNCHANGED res
      BY <2>2 DEF sid_res_ev_create
    <3> HIDE DEF l
    <3> QED BY <3>1, CountCalm
  <2>3. CASE UNCHANGED res
    BY <2>3, CountCalm
  <2> QED BY <2>1, <2>2, <2>3 DEF sid_res_ev_loop_run, sid_res_ev_set_counter,
                                  sid_res_ev_destroy, vars
<1> QED BY <1>1, <1>2 DEF QuietStep, SameIters, Ends

\* The steps that change the tree otherwise, or a walk.
Create(p) == \E flags \in FlagSets : sid_res_create(p, Normal, flags, FALSE)
Adopt(r, c) == \E flags \in FlagSets : sid_res_add_child(r, c, flags)
Walk(i) == sid_res_iter_next(i) \/ sid_res_iter_previous(i) \/ sid_res_iter_reset(i)

\* What a step may be.
LEMMA StepKinds ==
  ASSUME IndInv, [Next]_vars
  PROVE  \/ QuietStep
         \/ Destruction /\ Ends
         \/ \E p \in Live \cup {None} : Create(p)
         \/ \E prio \in Prios : sid_res_set_prio(prio)
         \/ \E r \in Live, subtree \in BOOLEAN : sid_res_isolate(r, subtree)
         \/ \E r, c \in Live : Adopt(r, c)
         \/ \E i \in Iters, r \in Live, owner \in Live \cup {Outside} : sid_res_iter_create(i, r, owner)
         \/ \E i \in DOMAIN iter : Walk(i)
<1>1. ASSUME InitDone \/ InitFailed PROVE QuietStep \/ (Destruction /\ Ends)
  BY <1>1, EndKind
<1>2. ASSUME NEW r \in Live, DropRef(r) \/ sid_res_unref(r) PROVE QuietStep \/ (Destruction /\ Ends)
  BY <1>2, DropKind
<1>3. ASSUME NEW i \in DOMAIN iter, sid_res_iter_destroy(i) PROVE QuietStep \/ (Destruction /\ Ends)
  BY <1>3, IterDropKind
<1>4. ASSUME NEW e \in DOMAIN src, NEW outcome \in {"done", "rearm", "failed", "gone"},
             Dispatch(e, outcome)
      PROVE  QuietStep \/ (Destruction /\ Ends)
  BY <1>4, DispatchKind
<1>5. ASSUME \/ \E r \in Live : sid_res_ref(r) \/ sid_res_ev_loop_run(r)
             \/ \E r \in Live, e \in Sources, kind \in Kinds : sid_res_ev_create(e, r, kind)
             \/ \E e \in DOMAIN src, rel \in BOOLEAN, max \in {1, Unlimited - 1} :
                   sid_res_ev_set_counter(e, rel, max)
             \/ \E e \in DOMAIN src : sid_res_ev_destroy(e)
             \/ UNCHANGED vars
      PROVE  QuietStep
  BY <1>5, OtherKind
<1> HIDE DEF QuietStep, Destruction, Ends
<1> QED BY <1>1, <1>2, <1>3, <1>4, <1>5, Zenon DEF Next, Create, Adopt, Walk

\* Every step preserves the invariant of the tree.
LEMMA TreeNext ==
  ASSUME TreeInd, [Next]_vars
  PROVE  TreeInd'
<1>1. IndInv /\ IndInv'
  BY NextInd DEF TreeInd
<1>2. CASE QuietStep
  BY <1>1, <1>2, CalmInd DEF QuietStep, SameIters, Ends
<1>3. CASE Destruction /\ Ends
  BY <1>1, <1>3, DestructionInd DEF Ends
<1>4. ASSUME NEW p \in Live \cup {None}, Create(p) PROVE TreeInd'
  <2>1. Creation(Fresh, p) /\ UNCHANGED iter
    BY <1>1, <1>4, CreateTree DEF Create
  <2> QED BY <1>1, <2>1, CreationInd
<1>5. ASSUME NEW prio \in Prios, sid_res_set_prio(prio) PROVE TreeInd'
  <2>1. /\ Reordering(Last(creating), res[Last(creating)].parent)
        /\ UNCHANGED <<iter, creating>>
    BY <1>1, <1>5, SetPrioTree
  <2> QED BY <1>1, <2>1, ReorderingInd
<1>6. ASSUME NEW r \in Live, NEW subtree \in BOOLEAN, sid_res_isolate(r, subtree) PROVE TreeInd'
  <2>1. Isolation(r, subtree) /\ UNCHANGED <<iter, creating>>
    BY <1>6, IsolateTree
  <2>2. subtree \/ Idle
    BY <1>6 DEF sid_res_isolate
  <2> QED BY <1>1, <2>1, <2>2, IsolationInd
<1>7. ASSUME NEW r \in Live, NEW c \in Live, Adopt(r, c) PROVE TreeInd'
  BY <1>1, <1>7, AddChildTreeInd DEF Adopt
<1>8. ASSUME NEW i \in Iters, NEW r \in Live, NEW owner \in Live \cup {Outside},
             sid_res_iter_create(i, r, owner)
      PROVE  TreeInd'
  BY <1>1, <1>8, IterCreateTree
<1>9. ASSUME NEW i \in DOMAIN iter, Walk(i) PROVE TreeInd'
  <2>1. /\ UNCHANGED <<res, creating>> /\ DOMAIN iter' = DOMAIN iter
        /\ \A j \in DOMAIN iter : /\ iter'[j].res = iter[j].res /\ iter'[j].owner = iter[j].owner
                                  /\ iter'[j].refd = iter[j].refd
    BY <1>1, <1>9, IterMoved DEF Walk
  <2>2. Calm
    BY <1>1, <2>1, CountCalm
  <2> QED BY <1>1, <2>1, <2>2, CalmInd
<1> QED BY <1>1, <1>2, <1>3, <1>4, <1>5, <1>6, <1>7, <1>8, <1>9, StepKinds

\* The tree stays a tree, whatever is created, moved, isolated, reordered or destroyed.
THEOREM TreeInvariance == Spec => []TreeInd
<1>1. TreeInd /\ [Next]_vars => TreeInd'
  BY TreeNext
<1> QED BY <1>1, InitTree, PTL DEF Spec

\* Parents and children agree, each child is there once and in the order of its priority, and
\* no resource is above itself (_add_res_to_parent_res, _remove_res_from_parent_res).
THEOREM TreeIsSound == Spec => []TreeSound
<1>1. TreeInd => TreeSound
  BY AncestorsTree DEF TreeSound, TreeInd, Tree, Acyclic, Live
<1> QED BY <1>1, TreeInvariance, PTL

\* A resource that is kept, out of the tree, by references only is kept by somebody that is not
\* below it: the FIXME above sid_res_ref never bites.
THEOREM NoSelfKeeping == Spec => []NothingKeepsItself
<1>1. ASSUME TreeInd PROVE NothingKeepsItself
  <2> SUFFICES ASSUME NEW r \in Live, r \notin loose, r \notin InMaking, res[r].parent = None,
                      ~(res[r].held > 0)
               PROVE  \E i \in DOMAIN iter : iter[i].res = r /\ iter[i].refd
                                             /\ iter[i].owner \notin Below(r) \cup {r}
    BY DEF NothingKeepsItself, InMaking
  <2>1. IndInv
    BY <1>1 DEF TreeInd
  <2>2. ByParent(r) = 0
    BY DEF ByParent
  <2>3. Cardinality(Walks(r)) /= 0
    BY <2>1, <2>2, LiveFacts DEF Balanced
  <2>4. Walks(r) /= {}
    BY <2>3, FS_EmptySet
  <2>5. PICK i \in DOMAIN iter : iter[i].refd /\ iter[i].res = r
    BY <2>4 DEF Walks
  <2>6. iter[i].owner \notin Below(r) \cup {r}
    BY <1>1, <2>5, AncestorsTree DEF TreeInd, Apart
  <2> QED BY <2>5, <2>6
<1> QED BY <1>1, TreeInvariance, PTL
-----------------------------------------------------------------------------
(***************************************************************************)
(* Walks.                                                                  *)
(***************************************************************************)

\* A list backwards.
LEMMA ReverseFacts ==
  ASSUME NEW s \in Seq(Res)
  PROVE  /\ Reverse(s) \in Seq(Res) /\ Len(Reverse(s)) = Len(s)
         /\ \A x : In(Reverse(s), x) <=> In(s, x)
         /\ \A x, y : Before(Reverse(s), x, y) <=> Before(s, y, x)
<1>1. PICK n \in Nat : n = Len(s)
  OBVIOUS
<1>2. PICK t : t = Reverse(s)
  OBVIOUS
<1>3. t = [i \in 1..n |-> s[(n - i) + 1]]
  BY <1>1, <1>2 DEF Reverse
<1>4. \A i \in 1..n : (n - i) + 1 \in 1..n /\ (n - ((n - i) + 1)) + 1 = i
  BY <1>1
<1>5. \A i \in 1..n : s[i] \in Res
  BY <1>1
<1>6. t \in Seq(Res) /\ Len(t) = n
  BY <1>1, <1>3, <1>4, <1>5
<1>7. \A i \in 1..n : t[i] = s[(n - i) + 1] /\ s[i] = t[(n - i) + 1]
  BY <1>3, <1>4
<1>8. \A i, j \in 1..n : i < j => (n - j) + 1 < (n - i) + 1
  BY <1>1
<1>9. \A x : In(t, x) <=> In(s, x)
  BY <1>1, <1>4, <1>6, <1>7 DEF In
<1>10. ASSUME NEW x, NEW y, Before(t, x, y) PROVE Before(s, y, x)
  <2>1. PICK i, j \in 1..n : i < j /\ t[i] = x /\ t[j] = y
    BY <1>6, <1>10 DEF Before
  <2>2. PICK k \in 1..n : k = (n - i) + 1 /\ s[k] = x
    BY <1>4, <1>7, <2>1
  <2>3. PICK l \in 1..n : l = (n - j) + 1 /\ s[l] = y
    BY <1>4, <1>7, <2>1
  <2>4. l < k
    BY <1>8, <2>1, <2>2, <2>3
  <2> QED BY <1>1, <2>2, <2>3, <2>4 DEF Before
<1>11. ASSUME NEW x, NEW y, Before(s, y, x) PROVE Before(t, x, y)
  <2>1. PICK i, j \in 1..n : i < j /\ s[i] = y /\ s[j] = x
    BY <1>1, <1>11 DEF Before
  <2>2. PICK k \in 1..n : k = (n - i) + 1 /\ t[k] = y
    BY <1>4, <1>7, <2>1
  <2>3. PICK l \in 1..n : l = (n - j) + 1 /\ t[l] = x
    BY <1>4, <1>7, <2>1
  <2>4. l < k
    BY <1>8, <2>1, <2>2, <2>3
  <2> QED BY <1>6, <2>2, <2>3, <2>4 DEF Before
<1> QED BY <1>1, <1>2, <1>6, <1>9, <1>10, <1>11

\* The elements of a list.
LEMMA RangeIn ==
  ASSUME NEW s \in Seq(Res), NEW x
  PROVE  x \in Range(s) <=> In(s, x)
<1>1. DOMAIN s = 1..Len(s)
  OBVIOUS
<1> QED BY <1>1 DEF Range, In

\* A walk starts at the first child.
LEMMA AheadFirst ==
  ASSUME NEW kids \in Seq(Res), kids /= << >>, NEW yet, \A x \in yet : In(kids, x)
  PROVE  Ahead(kids, kids[1], yet, {})
<1>1. 1 \in 1..Len(kids) /\ Len(kids) \in Nat
  OBVIOUS
<1>2. kids[1] /= ListHead /\ In(kids, kids[1])
  <2>1. kids[1] \in Res
    BY <1>1
  <2> QED BY <1>1, <2>1, ResAssumption DEF ListHead, In
<1>3. ASSUME NEW x \in yet, x /= kids[1] PROVE Before(kids, kids[1], x)
  <2>1. PICK i \in 1..Len(kids) : kids[i] = x
    BY DEF In
  <2>2. i /= 1
    BY <1>3, <2>1
  <2>3. 1 < i
    BY <1>1, <2>2
  <2> QED BY <1>1, <2>1, <2>3 DEF Before
<1> QED BY <1>2, <1>3 DEF Ahead

\* What Onward does, where at is the place of the saved neighbour.
LEMMA OnwardStep ==
  ASSUME NEW kids \in Seq(Res), \A x : ~Before(kids, x, x), NEW it, NEW from, from /= ListHead,
         NEW yet, NEW seen, Ahead(kids, from, yet, seen), \A x \in yet : ~Hidden(x)
  PROVE  \/ Onward(it, kids, from).shows = << >> /\ yet = {}
         \/ \E v : /\ Onward(it, kids, from).cur = v /\ Onward(it, kids, from).shows = <<v>>
                   /\ v \in Res /\ v \notin seen
                   /\ Ahead(kids, Onward(it, kids, from).on, yet \ {v}, seen \cup {v})
<1>1. PICK n \in Nat : n = Len(kids) /\ DOMAIN kids = 1..n
  OBVIOUS
<1>2. /\ In(kids, from) /\ from \notin seen
      /\ \A x \in yet : x = from \/ Before(kids, from, x)
      /\ \A x \in seen : ~Before(kids, from, x)
  BY DEF Ahead
<1>3. \A i, j \in 1..n : i < j => kids[i] /= kids[j] /\ Before(kids, kids[i], kids[j])
  BY <1>1 DEF Before
<1>4. \A i, j \in 1..n : kids[i] = kids[j] => i = j
  BY <1>1, <1>3
<1>5. \A i \in 1..n : kids[i] \in Res /\ kids[i] /= ListHead
  BY <1>1, ResAssumption DEF ListHead
<1> DEFINE at == CHOOSE i \in DOMAIN kids : kids[i] = from
           shown == {i \in at..Len(kids) : ~Hidden(kids[i])}
           m == Min(shown)
<1>6. at \in 1..n /\ kids[at] = from
  BY <1>1, <1>2 DEF In
<1>7. Onward(it, kids, from) =
         IF shown = {} THEN [cur |-> Last(kids), on |-> ListHead, shows |-> << >>]
         ELSE [cur |-> kids[m], on |-> After(kids, m), shows |-> <<kids[m]>>]
  BY DEF Onward
<1>8. shown \in SUBSET (1..n) /\ shown \in SUBSET Nat /\ \A i \in shown : at <= i
  BY <1>1, <1>6
<1>9. ASSUME NEW x \in yet PROVE \E j \in shown : kids[j] = x
  <2>1. CASE x = from
    <3>1. at \in at..Len(kids)
      BY <1>1, <1>6
    <3>2. ~Hidden(kids[at])
      BY <1>6, <2>1
    <3>3. at \in shown
      BY <3>1, <3>2
    <3> QED BY <1>6, <2>1, <3>3
  <2>2. CASE Before(kids, from, x)
    <3>1. PICK i, j \in 1..n : i < j /\ kids[i] = from /\ kids[j] = x
      BY <1>1, <2>2 DEF Before
    <3>2. i = at
      BY <1>4, <1>6, <3>1
    <3>3. j \in at..n
      BY <1>1, <1>6, <3>1, <3>2
    <3> QED BY <1>1, <3>1, <3>3
  <2> QED BY <1>2, <2>1, <2>2
<1> HIDE DEF at, shown
<1>10. CASE shown = {}
  <2>1. yet = {}
    BY <1>9, <1>10
  <2>2. Onward(it, kids, from).shows = << >>
    BY <1>7, <1>10
  <2> QED BY <2>1, <2>2
<1>11. CASE shown /= {}
  <2>1. \E k \in shown : \A i \in shown : k <= i
    BY <1>8, <1>11, NatMin
  <2>2. PICK k \in shown : k = m /\ \A i \in shown : k <= i
    BY <2>1 DEF Min
  <2>3. PICK v : v = kids[k]
    OBVIOUS
  <2>4. PICK on : on = After(kids, k)
    OBVIOUS
  <2>5. /\ Onward(it, kids, from).cur = v /\ Onward(it, kids, from).shows = <<v>>
        /\ Onward(it, kids, from).on = on
    BY <1>7, <1>11, <2>2, <2>3, <2>4
  <2>6. k \in 1..n /\ at <= k /\ v \in Res
    BY <1>5, <1>8, <2>3
  <2>7. v \notin seen
    <3>1. CASE k = at
      BY <1>2, <1>6, <2>3, <3>1
    <3>2. CASE at < k
      BY <1>2, <1>3, <1>6, <2>3, <2>6, <3>2
    <3> QED BY <1>6, <2>6, <3>1, <3>2
  <2>8. Ahead(kids, on, yet \ {v}, seen \cup {v})
    <3>1. ASSUME NEW x \in yet \ {v} PROVE \E j \in 1..n : kids[j] = x /\ k < j
      <4>1. PICK j \in shown : kids[j] = x
        BY <1>9
      <4>2. j /= k /\ k <= j /\ j \in 1..n
        BY <1>8, <2>2, <2>3, <4>1
      <4> QED BY <2>6, <4>1, <4>2
    <3>2. CASE k = n
      <4>1. on = ListHead
        BY <1>1, <2>4, <3>2 DEF After
      <4>2. yet \ {v} = {}
        BY <3>1, <3>2
      <4> QED BY <4>1, <4>2 DEF Ahead
    <3>3. CASE k /= n
      <4>1. on = kids[k + 1] /\ k + 1 \in 1..n /\ k < k + 1 /\ at < k + 1
        BY <1>1, <1>6, <2>4, <2>6, <3>3 DEF After
      <4>2. PICK l \in 1..n : l = k + 1 /\ on = kids[l]
        BY <4>1
      <4>3. on /= ListHead /\ In(kids, on)
        BY <1>1, <1>5, <4>2 DEF In
      <4>4. on \notin seen /\ on /= v
        BY <1>2, <1>3, <1>6, <2>3, <2>6, <4>1, <4>2
      <4>5. ASSUME NEW x \in yet \ {v} PROVE x = on \/ Before(kids, on, x)
        <5>1. PICK j \in 1..n : kids[j] = x /\ k < j
          BY <3>1
        <5>2. j = l \/ l < j
          BY <2>6, <4>2, <5>1
        <5> QED BY <1>3, <4>2, <5>1, <5>2
      <4>6. ASSUME NEW x \in seen \cup {v}, Before(kids, on, x) PROVE FALSE
        <5>1. PICK i, j \in 1..n : i < j /\ kids[i] = on /\ kids[j] = x
          BY <1>1, <4>6 DEF Before
        <5>2. i = l
          BY <1>4, <4>2, <5>1
        <5>3. at < j /\ k < j
          BY <1>6, <2>6, <4>1, <4>2, <5>1, <5>2
        <5>4. Before(kids, from, x) /\ x /= v
          BY <1>3, <1>6, <2>3, <2>6, <5>1, <5>3
        <5> QED BY <1>2, <5>4
      <4> QED BY <4>3, <4>4, <4>5, <4>6 DEF Ahead
    <3> QED BY <3>2, <3>3
  <2> QED BY <2>5, <2>6, <2>7, <2>8
<1> QED BY <1>10, <1>11

\* A list changes without a change to the walk S along it.
Undisturbed(k, l, S, seen) ==
    /\ \A x \in S : In(k, x) => In(l, x)
    /\ \A x, y \in S : Before(k, x, y) => Before(l, x, y)
    /\ \A x \in S, y \in seen : /\ Before(l, x, y) => Before(k, x, y)
                                /\ Before(l, y, x) => Before(k, y, x)

\* Backwards, too.
LEMMA UndisturbedReverse ==
  ASSUME NEW k \in Seq(Res), NEW l \in Seq(Res), NEW S, NEW seen, Undisturbed(k, l, S, seen)
  PROVE  Undisturbed(Reverse(k), Reverse(l), S, seen)
BY ReverseFacts DEF Undisturbed

\* The walk goes on.
LEMMA UndisturbedAhead ==
  ASSUME NEW k, NEW l, NEW S, NEW seen, Undisturbed(k, l, S, seen), NEW next \in S,
         NEW yet \in SUBSET S, Ahead(k, next, yet, seen)
  PROVE  Ahead(l, next, yet, seen)
BY DEF Undisturbed, Ahead

\* What a walk goes on with is a child, and not one that it has shown.
LEMMA CourseIn ==
  ASSUME NEW R, NEW making, NEW it, OnCourse(R, making, it), it.dir \in {"start", "fwd", "back"},
         R[it.res].kids \in Seq(Res), NEW x \in Course(it), x /= ListHead
  PROVE  In(R[it.res].kids, x) /\ x \notin Range(it.seen)
<1> DEFINE k == R[it.res].kids
<1>1. \A y : In(Reverse(k), y) <=> In(k, y)
  BY ReverseFacts
<1>2. \A l, next, yet, seen : Ahead(l, next, yet, seen) =>
         /\ next /= ListHead => In(l, next) /\ next \notin seen
         /\ \A y \in yet : In(l, y)
  BY DEF Ahead, Before, In
<1>3. Yet(it) \cap Range(it.seen) = {}
  BY DEF Yet
<1>4. CASE it.dir \in {"start", "fwd"} /\ x = it.next
  <2>1. Ahead(k, it.next, Yet(it), Range(it.seen))
    BY <1>4 DEF OnCourse
  <2> QED BY <1>2, <1>4, <2>1
<1>5. CASE it.dir \in {"start", "back"} /\ x = it.prev
  <2>1. Ahead(Reverse(k), it.prev, Yet(it), Range(it.seen))
    BY <1>5 DEF OnCourse
  <2> QED BY <1>1, <1>2, <1>5, <2>1
<1>6. CASE x \in Yet(it)
  <2>1. CASE it.dir \in {"start", "fwd"}
    <3>1. Ahead(k, it.next, Yet(it), Range(it.seen))
      BY <2>1 DEF OnCourse
    <3> QED BY <1>2, <1>3, <1>6, <3>1
  <2>2. CASE it.dir = "back"
    <3>1. Ahead(Reverse(k), it.prev, Yet(it), Range(it.seen))
      BY <2>2 DEF OnCourse
    <3> QED BY <1>1, <1>2, <1>3, <1>6, <3>1
  <2> QED BY <2>1, <2>2
<1> QED BY <1>4, <1>5, <1>6 DEF Course

\* What a step that changes the tree into Q leaves a walk over R: its course.
Clears(R, Q, made, it) ==
    /\ Q[it.res].kids \in Seq(Res)
    /\ \A x \in Yet(it) : x \in DOMAIN Q /\ "down" \notin Q[x].flags
    /\ Undisturbed(R[it.res].kids, Q[it.res].kids, Course(it), Range(it.seen))
    /\ \A x \in made : Q[x].parent = it.res => it.dir = "start" /\ x \notin Course(it)

\* A walk goes on over a tree that did not change in its way.
LEMMA WalkKept ==
  ASSUME NEW R, NEW Q, NEW making, NEW made, NEW it, WalkOf(R, making, it),
         it.dir /= "over" => R[it.res].kids \in Seq(Res) /\ Clears(R, Q, made, it)
  PROVE  WalkOf(Q, made, it)
<1> DEFINE k == R[it.res].kids
           l == Q[it.res].kids
<1>1. ASSUME it.dir /= "over" PROVE OnCourse(Q, made, it)
  <2>1. k \in Seq(Res) /\ l \in Seq(Res) /\ OnCourse(R, making, it)
    BY <1>1 DEF WalkOf, Clears
  <2>2. /\ Undisturbed(k, l, Course(it), Range(it.seen))
        /\ Undisturbed(Reverse(k), Reverse(l), Course(it), Range(it.seen))
    BY <1>1, <2>1, UndisturbedReverse DEF Clears
  <2>3. /\ Yet(it) \in SUBSET Course(it)
        /\ it.dir \in {"start", "fwd"} => it.next \in Course(it)
        /\ it.dir \in {"start", "back"} => it.prev \in Course(it)
    BY DEF Course
  <2>4. ASSUME it.dir \in {"start", "fwd"} PROVE Ahead(l, it.next, Yet(it), Range(it.seen))
    <3>1. Ahead(k, it.next, Yet(it), Range(it.seen))
      BY <2>1, <2>4 DEF OnCourse
    <3> QED BY ONLY <2>2, <2>3, <2>4, <3>1, UndisturbedAhead
  <2>5. ASSUME it.dir \in {"start", "back"}
        PROVE  Ahead(Reverse(l), it.prev, Yet(it), Range(it.seen))
    <3>1. Ahead(Reverse(k), it.prev, Yet(it), Range(it.seen))
      BY <2>1, <2>5 DEF OnCourse
    <3> QED BY ONLY <2>2, <2>3, <2>5, <3>1, UndisturbedAhead
  <2> QED BY <1>1, <2>1, <2>4, <2>5 DEF OnCourse, Clears
<1> QED BY <1>1 DEF WalkOf

\* Children off the course of a walk may go.
LEMMA KeptUndisturbed ==
  ASSUME NEW k \in Seq(Res), NEW D, NEW S, NEW seen, \A x \in S : In(k, x) => x \notin D
  PROVE  Undisturbed(k, Kept(k, D), S, seen)
<1>1. \A x, y : Before(k, x, y) => In(k, x) /\ In(k, y)
  BY DEF Before, In
<1> QED BY <1>1, KeptFacts DEF Undisturbed

\* Children off the course of a walk may come.
LEMMA PlacedUndisturbed ==
  ASSUME NEW R, NEW k \in Seq(Res), NEW n \in Res, NEW S, NEW seen, n \notin S, n \notin seen
  PROVE  Undisturbed(k, Placed(R, k, n), S, seen)
BY PlacedFacts DEF Undisturbed

\* One change after another.
LEMMA UndisturbedTwice ==
  ASSUME NEW k, NEW l, NEW m, NEW S, NEW seen, Undisturbed(k, l, S, seen), Undisturbed(l, m, S, seen)
  PROVE  Undisturbed(k, m, S, seen)
BY DEF Undisturbed

\* Where a walk that is not over stands.
LEMMA CourseFacts ==
  ASSUME WalkInd, NEW i \in DOMAIN iter, iter[i].dir /= "over"
  PROVE  /\ iter[i].res \in Live /\ Kids(iter[i].res) \in Seq(Res)
         /\ \A x \in Course(iter[i]) :
               \/ x = ListHead
               \/ /\ In(Kids(iter[i].res), x) /\ x \in Live /\ res[x].parent = iter[i].res
                  /\ x \notin Range(iter[i].seen) /\ x /= iter[i].cur
         /\ Yet(iter[i]) \subseteq Course(iter[i])
         /\ \A x \in Yet(iter[i]) : x \in Live /\ x /= ListHead /\ "down" \notin res[x].flags
         /\ iter[i].dir = "start" => Range(iter[i].seen) = {}
         /\ \A x \in InMaking : res[x].parent = iter[i].res =>
               iter[i].dir = "start" /\ x \notin Course(iter[i])
<1> DEFINE it == iter[i]
<1>1. IndInv /\ Tree(res) /\ WalkOf(res, InMaking, it)
  BY DEF WalkInd, TreeInd
<1>2. Parented(res) /\ Live \subseteq Res /\ None \notin Live
  BY <1>1, IndParented
<1>3. it.res \in Live /\ Kids(it.res) \in Seq(Res)
  BY <1>1 DEF IndInv, NothingDangles, Tree, KidTypes, Live, Kids
<1>4. Related(res)
  BY <1>1, <1>2, FamiliesRelated DEF Tree
<1>5. OnCourse(res, InMaking, it) /\ it.dir \in {"start", "fwd", "back"}
  BY <1>1 DEF WalkOf
<1>6. ASSUME NEW x \in Course(it), x /= ListHead
      PROVE  /\ In(Kids(it.res), x) /\ x \in Live /\ res[x].parent = it.res
             /\ x \notin Range(it.seen) /\ x /= it.cur
  <2>1. In(Kids(it.res), x) /\ x \notin Range(it.seen)
    BY <1>3, <1>5, <1>6, CourseIn DEF Kids
  <2>2. x \in Live /\ res[x].parent = it.res
    BY <1>3, <1>4, <2>1 DEF Related, Live, Kids
  <2>3. x /= it.cur
    BY <1>5, <1>6, <2>1 DEF OnCourse
  <2> QED BY <2>1, <2>2, <2>3
<1>7. \A x \in Yet(it) : x \in Live /\ x /= ListHead /\ "down" \notin res[x].flags
  BY <1>2, <1>5 DEF OnCourse, Live, ListHead, None
<1>8. Yet(it) \subseteq Course(it)
  BY DEF Course
<1>9. /\ it.dir = "start" => Range(it.seen) = {}
      /\ \A x \in InMaking : res[x].parent = it.res => it.dir = "start" /\ x \notin Course(it)
  BY <1>5 DEF OnCourse
<1> HIDE DEF it
<1> QED BY <1>3, <1>6, <1>7, <1>8, <1>9 DEF it

\* A step that leaves the iterators alone, and the course of each walk that is not over.
LEMMA WalksKept ==
  ASSUME WalkInd, TreeInd', SameIters,
         \A i \in DOMAIN iter' : iter[i].dir /= "over" => Clears(res, res', InMaking', iter[i])
  PROVE  WalkInd'
<1>1. ASSUME NEW i \in DOMAIN iter' PROVE WalkOf(res', InMaking', iter'[i])
  <2>1. i \in DOMAIN iter /\ iter'[i] = iter[i]
    BY DEF SameIters
  <2>2. WalkOf(res, InMaking, iter[i])
    BY <2>1 DEF WalkInd
  <2>3. iter[i].dir /= "over" => res[iter[i].res].kids \in Seq(Res)
    BY <2>1, CourseFacts DEF Kids
  <2>4. WalkOf(res', InMaking', iter[i])
    BY <2>2, <2>3, WalkKept
  <2> QED BY <2>1, <2>4
<1> QED BY <1>1 DEF WalkInd

\* No new resource is in the making.
LEMMA EndsMaking ==
  ASSUME IndInv, Ends
  PROVE  InMaking' \subseteq InMaking
<1>1. CASE creating' = creating
  BY <1>1 DEF InMaking
<1>2. CASE ~Idle /\ creating' = Front(creating)
  BY <1>2, FrontFacts
<1> QED BY <1>1, <1>2 DEF Ends

\* A walk goes on over a tree that is the same.
LEMMA CalmWalk ==
  ASSUME Calm, NEW made, made \subseteq InMaking, InMaking \subseteq Live, KidTypes(res),
         NEW it, it.res \in Live, WalkOf(res, InMaking, it)
  PROVE  WalkOf(res', made, it)
<1>1. /\ Live' = Live
      /\ \A x \in Live : /\ res'[x].parent = res[x].parent /\ res'[x].kids = res[x].kids
                         /\ res'[x].flags = res[x].flags
  BY DEF Calm, SameTree, SameFlags, Live
<1>2. res[it.res].kids \in Seq(Res) /\ res'[it.res].kids = res[it.res].kids
  BY <1>1 DEF KidTypes, Live
<1>3. Undisturbed(res[it.res].kids, res'[it.res].kids, Course(it), Range(it.seen))
  BY ONLY <1>2 DEF Undisturbed
<1>4. ASSUME it.dir /= "over" PROVE Clears(res, res', made, it)
  <2>1. OnCourse(res, InMaking, it)
    BY <1>4 DEF WalkOf
  <2>2. /\ \A x \in Yet(it) : x \in Live /\ "down" \notin res[x].flags
        /\ \A x \in InMaking : res[x].parent = it.res => it.dir = "start" /\ x \notin Course(it)
    BY <2>1 DEF OnCourse, Live
  <2> QED BY <1>1, <1>2, <1>3, <2>2 DEF Clears, Live
<1> QED BY <1>2, <1>4, WalkKept

\* Counts and event sources do not matter to walks.
LEMMA QuietWalks ==
  ASSUME WalkInd, TreeInd', QuietStep
  PROVE  WalkInd'
<1>1. IndInv /\ Calm /\ SameIters /\ Ends /\ KidTypes(res)
  BY DEF WalkInd, TreeInd, Tree, QuietStep
<1>2. InMaking' \subseteq InMaking /\ InMaking \subseteq Live
  BY <1>1, EndsMaking DEF IndInv, Making
<1>3. ASSUME NEW i \in DOMAIN iter' PROVE WalkOf(res', InMaking', iter'[i])
  <2>1. i \in DOMAIN iter /\ iter'[i] = iter[i]
    BY <1>1 DEF SameIters
  <2>2. WalkOf(res, InMaking, iter[i]) /\ iter[i].res \in Live
    BY <1>1, <2>1 DEF WalkInd, IndInv, NothingDangles
  <2>3. WalkOf(res', InMaking', iter[i])
    BY ONLY <1>1, <1>2, <2>2, CalmWalk
  <2> QED BY <2>1, <2>3
<1> QED BY <1>3 DEF WalkInd

\* What goes with a resource is on the course of no walk that is left.
LEMMA DestructionWalks ==
  ASSUME WalkInd, TreeInd', Destruction, Ends
  PROVE  WalkInd'
<1>1. IndInv /\ IndInv' /\ InMaking' \subseteq InMaking
  BY EndsMaking DEF WalkInd, TreeInd
<1>2. PICK r \in Live : \E gone :
         /\ Released(r, gone) /\ DestroyAll(Doomed(r), gone)
         /\ res[r].parent = None \/ Steppable(r) \/ r \in InMaking
  BY DEF Destruction
<1>3. PICK D : D = Doomed(r)
  OBVIOUS
<1>4. Destroyed(res, res', D) /\ SameFlags /\ SameIters /\ r \in D /\ D \in SUBSET Live
  BY <1>1, <1>2, <1>3, DestructionTree
<1>5. \A x \in D \ {r} : res[x].parent \in D \cup {None}
  BY <1>1, <1>3, DoomedInside
<1>6. InMaking' \subseteq Live' /\ None \notin Live
  BY <1>1, IndParented DEF IndInv, Making
<1>7. Live' = Live \ D
  BY <1>4 DEF Destroyed, Live
<1>8. ASSUME NEW i \in DOMAIN iter', iter[i].dir /= "over"
      PROVE  Clears(res, res', InMaking', iter[i])
  <2>1. i \in DOMAIN iter /\ iter'[i] = iter[i]
    BY <1>4 DEF SameIters
  <2>2. PICK it : it = iter[i]
    OBVIOUS
  <2>3. /\ it.res \in Live /\ Kids(it.res) \in Seq(Res)
        /\ \A x \in Course(it) :
              x = ListHead \/ (x \in Live /\ res[x].parent = it.res /\ x /= it.cur)
        /\ Yet(it) \subseteq Course(it)
        /\ \A x \in Yet(it) : x \in Live /\ x /= ListHead /\ "down" \notin res[x].flags
        /\ \A x \in InMaking : res[x].parent = it.res => it.dir = "start" /\ x \notin Course(it)
    BY <1>8, <2>1, <2>2, CourseFacts
  <2>4. it.res \in Live'
    BY <1>1, <2>1, <2>2 DEF IndInv, NothingDangles
  <2>5. it.res \notin D /\ it.res /= None
    BY <1>6, <1>7, <2>3, <2>4
  <2>6. ASSUME NEW x \in Course(it), x /= ListHead, x \in D PROVE FALSE
    <3>1. res[x].parent = it.res /\ x /= it.cur
      BY <2>3, <2>6
    <3>2. x = r
      BY <1>5, <2>5, <2>6, <3>1
    <3>3. CASE Steppable(r)
      BY <1>8, <2>1, <2>2, <2>5, <3>1, <3>2, <3>3 DEF Steppable
    <3>4. CASE r \in InMaking
      BY <2>3, <2>6, <3>1, <3>2, <3>4
    <3> QED BY <1>2, <2>5, <3>1, <3>2, <3>3, <3>4
  <2>7. PICK k \in Seq(Res) : k = res[it.res].kids
    BY <2>3 DEF Kids
  <2>8. res'[it.res].kids = Kept(k, D) /\ Kept(k, D) \in Seq(Res)
    BY <1>4, <1>7, <2>4, <2>7, KeptFacts DEF Destroyed, Live
  <2>9. Undisturbed(k, Kept(k, D), Course(it), Range(it.seen))
    <3>1. ~In(k, ListHead)
      BY ResAssumption DEF In, ListHead
    <3> QED BY <2>6, <3>1, KeptUndisturbed
  <2>10. \A x \in Yet(it) : x \in Live' /\ "down" \notin res'[x].flags
    BY <1>4, <1>7, <2>3, <2>6 DEF SameFlags
  <2>11. ASSUME NEW x \in InMaking', res'[x].parent = it.res
         PROVE  it.dir = "start" /\ x \notin Course(it)
    <3>1. x \in Live' /\ x \in InMaking
      BY <1>1, <1>6
    <3>2. res[x].parent = it.res
      BY <1>4, <2>5, <2>11, <3>1 DEF Destroyed, Live
    <3> QED BY <2>3, <3>1, <3>2
  <2> QED BY <2>2, <2>7, <2>8, <2>9, <2>10, <2>11 DEF Clears, Live
<1> QED BY <1>4, <1>8, WalksKept

\* Nothing is created below a resource in the middle of a walk over it.
LEMMA CreationWalks ==
  ASSUME WalkInd, TreeInd', NEW n, NEW p \in Live \cup {None}, Creation(n, p), UNCHANGED iter,
         Unwalked(p)
  PROVE  WalkInd'
<1>1. IndInv /\ IndInv' /\ TreeInd
  BY DEF WalkInd, TreeInd
<1>2. /\ Live' = Live \cup {n} /\ n \notin Live /\ n \in Res /\ res'[n].parent = p
      /\ \A x \in Live : res'[x].parent = res[x].parent /\ (x /= p => res'[x].kids = res[x].kids)
      /\ p /= None => \E R : res'[p].kids = Placed(R, res[p].kids, n)
  BY <1>1, CreationTree
<1>3. SameFlags /\ creating' = Append(creating, n) /\ SameIters
  BY DEF Creation, SameIters
<1>4. None \notin Live /\ InMaking \subseteq Live /\ creating \in Seq(Res)
  BY <1>1, IndParented DEF IndInv, Making, Nested
<1>5. InMaking' = InMaking \cup {n}
  <2>1. \A x : In(creating', x) <=> In(creating, x) \/ x = n
    BY <1>2, <1>3, <1>4, AppendFacts
  <2>2. creating' \in Seq(Res)
    BY <1>2, <1>3, <1>4
  <2>3. \A x : (x \in InMaking <=> In(creating, x)) /\ (x \in InMaking' <=> In(creating', x))
    BY <1>4, <2>2, RangeIn DEF InMaking
  <2> QED BY <2>1, <2>3
<1>6. ASSUME NEW i \in DOMAIN iter', iter[i].dir /= "over"
      PROVE  Clears(res, res', InMaking', iter[i])
  <2>1. PICK it : it = iter[i] /\ i \in DOMAIN iter
    BY <1>3 DEF SameIters
  <2>2. /\ it.res \in Live /\ Kids(it.res) \in Seq(Res)
        /\ \A x \in Course(it) : x = ListHead \/ x \in Live
        /\ \A x \in Yet(it) : x \in Live /\ "down" \notin res[x].flags
        /\ it.dir = "start" => Range(it.seen) = {}
        /\ \A x \in InMaking : res[x].parent = it.res => it.dir = "start" /\ x \notin Course(it)
    BY <1>6, <2>1, CourseFacts
  <2>3. n \notin Course(it)
    BY <1>2, <2>2, ResAssumption DEF ListHead
  <2>4. it.res = p => it.dir = "start"
    BY <1>6, <2>1 DEF Unwalked
  <2>5. PICK k \in Seq(Res) : k = res[it.res].kids
    BY <2>2 DEF Kids
  <2>6. /\ res'[it.res].kids \in Seq(Res)
        /\ Undisturbed(k, res'[it.res].kids, Course(it), Range(it.seen))
    <3>1. CASE it.res /= p
      <4>1. res'[it.res].kids = k
        BY <1>2, <2>2, <2>5, <3>1
      <4> QED BY ONLY <2>5, <4>1 DEF Undisturbed
    <3>2. CASE it.res = p
      <4>1. PICK R : res'[it.res].kids = Placed(R, k, n)
        BY <1>2, <1>4, <2>2, <2>5, <3>2
      <4>2. Placed(R, k, n) \in Seq(Res)
        BY <1>2, PlacedFacts
      <4>3. n \notin Range(it.seen)
        BY <2>2, <2>4, <3>2
      <4> QED BY <1>2, <2>3, <4>1, <4>2, <4>3, PlacedUndisturbed
    <3> QED BY <3>1, <3>2
  <2>7. \A x \in Yet(it) : x \in Live' /\ "down" \notin res'[x].flags
    BY <1>2, <1>3, <2>2 DEF SameFlags
  <2>8. ASSUME NEW x \in InMaking', res'[x].parent = it.res
        PROVE  it.dir = "start" /\ x \notin Course(it)
    <3>1. CASE x = n
      BY <1>2, <2>3, <2>4, <2>8, <3>1
    <3>2. CASE x \in InMaking
      BY <1>2, <1>4, <2>2, <2>8, <3>2
    <3> QED BY <1>5, <3>1, <3>2
  <2> QED BY <2>1, <2>5, <2>6, <2>7, <2>8 DEF Clears, Live
<1> QED BY <1>3, <1>6, WalksKept

\* The child in the making that gets another priority is on the course of no walk.
LEMMA ReorderingWalks ==
  ASSUME WalkInd, TreeInd', NEW r \in InMaking, NEW p, Reordering(r, p), UNCHANGED <<iter, creating>>
  PROVE  WalkInd'
<1>1. IndInv /\ TreeInd /\ InMaking' = InMaking
  BY DEF WalkInd, TreeInd, InMaking
<1>2. /\ Live' = Live /\ r \in Live
      /\ \A x \in Live : res'[x].parent = res[x].parent /\ (x /= p => res'[x].kids = res[x].kids)
      /\ \E R : res'[p].kids = Placed(R, Kept(res[p].kids, {r}), r)
  BY <1>1, ReorderingTree
<1>3. SameFlags /\ SameIters /\ p = res[r].parent
  BY DEF Reordering, SameIters
<1>4. r \in Res /\ InMaking \subseteq Live
  BY <1>1, <1>2, IndParented DEF IndInv, Making
<1>5. ASSUME NEW i \in DOMAIN iter', iter[i].dir /= "over"
      PROVE  Clears(res, res', InMaking', iter[i])
  <2>1. PICK it : it = iter[i] /\ i \in DOMAIN iter
    BY <1>3 DEF SameIters
  <2>2. /\ it.res \in Live /\ Kids(it.res) \in Seq(Res)
        /\ \A x \in Yet(it) : x \in Live /\ "down" \notin res[x].flags
        /\ it.dir = "start" => Range(it.seen) = {}
        /\ \A x \in InMaking : res[x].parent = it.res => it.dir = "start" /\ x \notin Course(it)
    BY <1>5, <2>1, CourseFacts
  <2>3. PICK k \in Seq(Res) : k = res[it.res].kids
    BY <2>2 DEF Kids
  <2>4. /\ res'[it.res].kids \in Seq(Res)
        /\ Undisturbed(k, res'[it.res].kids, Course(it), Range(it.seen))
    <3>1. CASE it.res /= p
      <4>1. res'[it.res].kids = k
        BY <1>2, <2>2, <2>3, <3>1
      <4> QED BY ONLY <2>3, <4>1 DEF Undisturbed
    <3>2. CASE it.res = p
      <4>1. PICK R : res'[it.res].kids = Placed(R, Kept(k, {r}), r)
        BY <1>2, <2>3, <3>2
      <4>2. r \notin Course(it) /\ r \notin Range(it.seen)
        BY <1>3, <2>2, <3>2
      <4>3. Kept(k, {r}) \in Seq(Res) /\ Undisturbed(k, Kept(k, {r}), Course(it), Range(it.seen))
        BY <4>2, KeptFacts, KeptUndisturbed
      <4>4. PICK l \in Seq(Res) : l = Kept(k, {r})
        BY <4>3
      <4>5. Placed(R, l, r) \in Seq(Res) /\ Undisturbed(l, Placed(R, l, r), Course(it), Range(it.seen))
        BY <1>4, <4>2, PlacedFacts, PlacedUndisturbed
      <4> QED BY <4>1, <4>3, <4>4, <4>5, UndisturbedTwice
    <3> QED BY <3>1, <3>2
  <2>5. \A x \in Yet(it) : x \in Live' /\ "down" \notin res'[x].flags
    BY <1>2, <1>3, <2>2 DEF SameFlags
  <2>6. \A x \in InMaking' : res'[x].parent = it.res => it.dir = "start" /\ x \notin Course(it)
    BY <1>1, <1>2, <1>4, <2>2
  <2> QED BY <2>1, <2>3, <2>4, <2>5, <2>6 DEF Clears, Live
<1> QED BY <1>3, <1>5, WalksKept

\* A child leaves only the walks that stand on it, or all walks over its siblings are over.
LEMMA IsolationWalks ==
  ASSUME WalkInd, TreeInd', NEW r \in Live, NEW subtree \in BOOLEAN, sid_res_isolate(r, subtree)
  PROVE  WalkInd'
<1>1. IndInv /\ TreeInd /\ None \notin Live
  BY IndParented DEF WalkInd, TreeInd
<1>2. Isolation(r, subtree) /\ UNCHANGED <<iter, creating>>
  BY <1>1, IsolateTree
<1>3. /\ InMaking' = InMaking /\ SameIters /\ SameFlags /\ InMaking \subseteq Live
      /\ res[r].parent \in Live
  BY <1>1, <1>2 DEF InMaking, SameIters, Isolation, IndInv, Making
<1>4. /\ Live' = Live
      /\ \A x \in Live : x /= r /\ x /= res[r].parent => res'[x].kids = res[x].kids
      /\ subtree => /\ res'[r].kids = Kids(r)
                    /\ res'[res[r].parent].kids = Kept(Kids(res[r].parent), {r})
                    /\ \A x \in Live : res'[x].parent \in {res[x].parent, None}
  BY <1>1, <1>2, IsolationTree
<1>5. Steppable(r) /\ (subtree \/ (Idle /\ \A i \in DOMAIN iter : iter[i].res # r
                        /\ (iter[i].res = res[r].parent => iter[i].dir = "over")))
  BY DEF sid_res_isolate
<1>6. ASSUME NEW i \in DOMAIN iter', iter[i].dir /= "over"
      PROVE  Clears(res, res', InMaking', iter[i])
  <2>1. PICK it : it = iter[i] /\ i \in DOMAIN iter
    BY <1>3 DEF SameIters
  <2>2. /\ it.res \in Live /\ Kids(it.res) \in Seq(Res)
        /\ \A x \in Course(it) : x = ListHead \/ x /= it.cur
        /\ \A x \in Yet(it) : x \in Live /\ "down" \notin res[x].flags
        /\ \A x \in InMaking : res[x].parent = it.res => it.dir = "start" /\ x \notin Course(it)
    BY <1>6, <2>1, CourseFacts
  <2>3. PICK k \in Seq(Res) : k = res[it.res].kids
    BY <2>2 DEF Kids
  <2>4. \A x \in Yet(it) : x \in Live' /\ "down" \notin res'[x].flags
    BY <1>3, <1>4, <2>2 DEF SameFlags
  <2>5. /\ res'[it.res].kids \in Seq(Res)
        /\ Undisturbed(k, res'[it.res].kids, Course(it), Range(it.seen))
    <3>1. CASE subtree /\ it.res = res[r].parent
      <4>1. it.cur = r
        BY <1>1, <1>3, <1>5, <1>6, <2>1, <3>1 DEF Steppable
      <4>2. ~In(k, ListHead)
        BY ResAssumption DEF In, ListHead
      <4>3. res'[it.res].kids = Kept(k, {r})
        BY <1>4, <2>3, <3>1 DEF Kids
      <4>4. Kept(k, {r}) \in Seq(Res)
        BY KeptFacts
      <4>5. Undisturbed(k, Kept(k, {r}), Course(it), Range(it.seen))
        BY <2>2, <4>1, <4>2, KeptUndisturbed
      <4> QED BY <4>3, <4>4, <4>5
    <3>2. CASE ~subtree \/ it.res /= res[r].parent
      <4>1. res'[it.res].kids = k
        BY <1>4, <1>5, <1>6, <2>1, <2>2, <2>3, <3>2 DEF Kids
      <4> QED BY ONLY <2>3, <4>1 DEF Undisturbed
    <3> QED BY <3>1, <3>2
  <2>6. ASSUME NEW x \in InMaking', res'[x].parent = it.res
        PROVE  it.dir = "start" /\ x \notin Course(it)
    <3>1. x \in InMaking /\ x \in Live
      BY <1>3
    <3>2. ~Idle
      BY <3>1 DEF Idle, InMaking, Range
    <3>3. res[x].parent = it.res
      BY <1>1, <1>4, <1>5, <2>2, <2>6, <3>1, <3>2
    <3> QED BY <2>2, <3>1, <3>3
  <2> QED BY <2>1, <2>3, <2>4, <2>5, <2>6 DEF Clears, Live
<1> QED BY <1>3, <1>6, WalksKept

\* A child comes when all walks over its siblings are over.
LEMMA AdoptionWalks ==
  ASSUME WalkInd, TreeInd', NEW r \in Live, NEW c \in Live, Adopt(r, c)
  PROVE  WalkInd'
<1>1. IndInv /\ TreeInd /\ None \notin Live
  BY IndParented DEF WalkInd, TreeInd
<1>2. PICK flags \in FlagSets : sid_res_add_child(r, c, flags)
  BY DEF Adopt
<1>3. /\ Adoption(r, c) /\ UNCHANGED <<iter, creating>> /\ r /= c /\ res[c].ready
      /\ r \notin Below(c) /\ \A i \in DOMAIN iter : iter[i].res = r => iter[i].dir = "over"
  BY <1>1, <1>2, AddChildTree DEF sid_res_add_child
<1>4. c \notin Above(res, r)
  BY <1>1, <1>3, AncestorsTree
<1>5. /\ Live' = Live /\ res[c].parent = None
      /\ \A x \in Live : /\ x /= c => res'[x].parent = res[x].parent
                         /\ x /= r => res'[x].kids = res[x].kids
  BY <1>1, <1>3, <1>4, AdoptionTree
<1>6. \A x \in Live : x /= c => res'[x].flags = res[x].flags
  BY <1>3 DEF Adoption
<1>7. InMaking' = InMaking /\ SameIters /\ InMaking \subseteq Live /\ c \notin InMaking
  BY <1>1, <1>3 DEF InMaking, SameIters, IndInv, Making
<1>8. ASSUME NEW i \in DOMAIN iter', iter[i].dir /= "over"
      PROVE  Clears(res, res', InMaking', iter[i])
  <2>1. PICK it : it = iter[i] /\ i \in DOMAIN iter
    BY <1>7 DEF SameIters
  <2>2. /\ it.res \in Live /\ Kids(it.res) \in Seq(Res)
        /\ \A x \in Course(it) : x = ListHead \/ res[x].parent = it.res
        /\ Yet(it) \subseteq Course(it)
        /\ \A x \in Yet(it) : x \in Live /\ x /= ListHead /\ "down" \notin res[x].flags
        /\ \A x \in InMaking : res[x].parent = it.res => it.dir = "start" /\ x \notin Course(it)
    BY <1>8, <2>1, CourseFacts
  <2>3. it.res /= r /\ it.res /= None
    BY <1>1, <1>3, <1>8, <2>1, <2>2
  <2>4. PICK k \in Seq(Res) : k = res[it.res].kids
    BY <2>2 DEF Kids
  <2>5. res'[it.res].kids = k
    BY <1>5, <2>2, <2>3, <2>4
  <2>6. Undisturbed(k, res'[it.res].kids, Course(it), Range(it.seen))
    BY ONLY <2>5 DEF Undisturbed
  <2>7. \A x \in Yet(it) : x \in Live' /\ "down" \notin res'[x].flags
    BY <1>5, <1>6, <2>2, <2>3
  <2>8. \A x \in InMaking' : res'[x].parent = it.res => it.dir = "start" /\ x \notin Course(it)
    BY <1>5, <1>7, <2>2
  <2> QED BY <2>1, <2>4, <2>5, <2>6, <2>7, <2>8 DEF Clears, Live
<1> QED BY <1>7, <1>8, WalksKept

\* A walk that starts has all the children that are shown before it, in both directions.
LEMMA NewIterWalk ==
  ASSUME TreeInd, NEW r \in Live, NEW owner, NEW refd, \A x \in InMaking : res[x].parent /= r
  PROVE  WalkOf(res, InMaking, NewIter(r, owner, refd))
<1>1. PICK it : it = NewIter(r, owner, refd)
  OBVIOUS
<1>2. PICK k \in Seq(Res) : k = Kids(r) /\ k = res[r].kids
  BY DEF TreeInd, Tree, KidTypes, Kids, Live
<1>3. /\ it.res = r /\ it.cur = ListHead /\ it.dir = "start" /\ it.seen = << >>
      /\ it.next = StartOf(k) /\ it.prev = EndOf(k)
      /\ it.toSee = {x \in Range(k) : ~Hidden(x)}
  BY <1>1, <1>2 DEF NewIter
<1>4. Range(it.seen) = {} /\ it.seen \in Seq(Res) /\ Len(it.seen) = 0
  BY <1>3 DEF Range
<1>5. Yet(it) = {x \in Range(k) : ~Hidden(x)}
  BY <1>3, <1>4 DEF Yet
<1>6. \A x \in Yet(it) : In(k, x)
  BY <1>5, RangeIn
<1>7. IndInv /\ Tree(res) /\ Parented(res)
  BY IndParented DEF TreeInd
<1>8. Related(res)
  BY <1>7, FamiliesRelated DEF Tree
<1>9. \A x \in Yet(it) : x \in DOMAIN res /\ "down" \notin res[x].flags
  BY <1>2, <1>5, <1>6, <1>8 DEF Related, Live, Hidden
<1>10. Ahead(k, it.next, Yet(it), {}) /\ Ahead(Reverse(k), it.prev, Yet(it), {})
  <2>1. CASE k = << >>
    <3>1. Yet(it) = {}
      BY <1>6, <2>1 DEF In
    <3> QED BY <1>3, <2>1, <3>1 DEF StartOf, EndOf, Ahead
  <2>2. CASE k /= << >>
    <3>1. PICK l \in Seq(Res) : l = Reverse(k) /\ Len(l) = Len(k) /\ \A x : In(l, x) <=> In(k, x)
      BY ReverseFacts
    <3>2. Len(k) \in Nat /\ Len(k) /= 0
      BY <2>2
    <3>3. l[1] = k[Len(k)]
      BY <3>1, <3>2 DEF Reverse
    <3>4. it.next = k[1] /\ it.prev = l[1]
      BY <1>3, <2>2, <3>3 DEF StartOf, EndOf, Last
    <3>5. l /= << >>
      BY <3>1, <3>2
    <3>6. Ahead(k, k[1], Yet(it), {})
      BY <1>6, <2>2, AheadFirst
    <3>7. Ahead(l, l[1], Yet(it), {})
      BY <1>6, <3>1, <3>5, AheadFirst
    <3> QED BY <3>1, <3>4, <3>6, <3>7
  <2> QED BY <2>1, <2>2
<1>11. OnCourse(res, InMaking, it)
  BY <1>2, <1>3, <1>4, <1>9, <1>10 DEF OnCourse
<1>12. WalkOf(res, InMaking, it)
  BY <1>3, <1>4, <1>11 DEF WalkOf
<1> QED BY <1>1, <1>12

\* A walk is created, over a resource none of whose children is in the making.
LEMMA IterCreateWalks ==
  ASSUME WalkInd, TreeInd', NEW i \in Iters, NEW r \in Live, NEW owner \in Live \cup {Outside},
         sid_res_iter_create(i, r, owner)
  PROVE  WalkInd'
<1>1. TreeInd /\ IndInv /\ IndInv' /\ KidTypes(res) /\ Stacked
  BY DEF WalkInd, TreeInd, Tree
<1>2. Calm
  BY <1>1, IterCreateTree
<1>3. /\ UNCHANGED creating
      /\ iter' = [j \in DOMAIN iter \cup {i} |->
                     IF j = i THEN NewIter(r, owner, Refs(r)) ELSE iter[j]]
      /\ Idle \/ (r = Last(creating) /\ r \in InMaking)
  BY <1>1, LiveFacts DEF sid_res_iter_create
<1>4. InMaking' \subseteq InMaking /\ InMaking \subseteq Live
  BY <1>1, <1>3 DEF InMaking, IndInv, Making
<1>5. \A x \in InMaking : res[x].parent /= r
  <2>1. CASE Idle
    BY <2>1 DEF Idle, InMaking, Range
  <2>2. CASE r = Last(creating) /\ r \in InMaking
    <3>1. creating \in Seq(Res)
      BY <1>1 DEF IndInv, Nested
    <3>2. PICK n \in Nat : n = Len(creating) /\ DOMAIN creating = 1..n
      BY <3>1
    <3>3. n \in 1..n
      BY <2>2, <3>2 DEF InMaking, Range
    <3>4. creating[n] = r
      BY <2>2, <3>2 DEF Last
    <3>5. \A j \in 1..n : res[creating[j]].parent /= creating[n]
      BY <1>1, <3>2, <3>3 DEF Stacked
    <3> QED BY <3>2, <3>4, <3>5 DEF InMaking, Range
  <2> QED BY <1>3, <2>1, <2>2
<1>6. ASSUME NEW j \in DOMAIN iter' PROVE WalkOf(res', InMaking', iter'[j])
  <2>1. WalkOf(res, InMaking, iter'[j])
    <3>1. CASE j = i
      BY <1>1, <1>3, <1>5, <3>1, NewIterWalk
    <3>2. CASE j /= i
      BY <1>3, <3>2 DEF WalkInd
    <3> QED BY <3>1, <3>2
  <2>2. iter'[j].res \in Live
    <3>1. CASE j = i
      BY <1>3, <3>1 DEF NewIter
    <3>2. CASE j /= i
      BY <1>1, <1>3, <3>2 DEF IndInv, NothingDangles
    <3> QED BY <3>1, <3>2
  <2>3. PICK it : it = iter'[j]
    OBVIOUS
  <2>4. WalkOf(res', InMaking', it)
    BY ONLY <1>1, <1>2, <1>4, <2>1, <2>2, <2>3, CalmWalk
  <2> QED BY <2>3, <2>4
<1> QED BY <1>6 DEF WalkInd

\* An iterator after a step onto v.
OneOn(it, to, v) ==
    /\ to.res = it.res /\ to.toSee = it.toSee /\ to.cur = v /\ to.seen = it.seen \o <<v>>
    /\ v \in Res /\ v \notin Range(it.seen)

\* An iterator that has come to its end.
AtEnd(it, to) ==
    to.res = it.res /\ to.toSee = it.toSee /\ to.seen = it.seen /\ to.dir = "over" /\ Yet(it) = {}

\* One more child is shown.
LEMMA StepWalk ==
  ASSUME NEW R, NEW it, NEW to, NEW v, WalkOf(R, {}, it), it.dir /= "over", OneOn(it, to, v),
         \/ /\ to.dir = "fwd"
            /\ Ahead(R[it.res].kids, to.next, Yet(it) \ {v}, Range(it.seen) \cup {v})
         \/ /\ to.dir = "back"
            /\ Ahead(Reverse(R[it.res].kids), to.prev, Yet(it) \ {v}, Range(it.seen) \cup {v})
  PROVE  WalkOf(R, {}, to)
<1>1. PICK s \in Seq(Res) : s = it.seen /\ \A a, b \in 1..Len(s) : a /= b => s[a] /= s[b]
  BY DEF WalkOf
<1>2. PICK t : t = to.seen
  OBVIOUS
<1>3. v \in Res /\ v \notin Range(s) /\ t = s \o <<v>>
  BY <1>1, <1>2 DEF OneOn
<1>4. /\ t \in Seq(Res) /\ Len(t) = Len(s) + 1 /\ t[Len(s) + 1] = v
      /\ \A a \in 1..Len(s) : t[a] = s[a]
  BY <1>3
<1>5. PICK n \in Nat : n = Len(s)
  OBVIOUS
<1>6. \A a \in 1..n : s[a] /= v
  BY <1>3, <1>5 DEF Range
<1>7. ASSUME NEW a \in 1..Len(t), NEW b \in 1..Len(t), a /= b PROVE t[a] /= t[b]
  <2>1. /\ a \in 1..n \/ (a = n + 1 /\ b \in 1..n)
        /\ b \in 1..n \/ (b = n + 1 /\ a \in 1..n)
    BY <1>4, <1>5, <1>7
  <2> QED BY <1>1, <1>4, <1>5, <1>6, <1>7, <2>1
<1>8. Range(t) = Range(s) \cup {v}
  <2>1. Len(t) = n + 1 /\ t[n + 1] = v /\ \A a \in 1..n : t[a] = s[a]
    BY <1>4, <1>5
  <2>2. \A a : a \in 1..(n + 1) <=> a \in 1..n \/ a = n + 1
    BY <1>5
  <2>3. \A x : In(t, x) <=> In(s, x) \/ x = v
    BY <1>5, <2>1, <2>2 DEF In
  <2> QED BY <1>4, <2>3, RangeIn
<1>9. Yet(to) = Yet(it) \ {v}
  BY <1>1, <1>2, <1>8 DEF Yet, OneOn
<1>10. OnCourse(R, {}, it)
  BY DEF WalkOf
<1>11. OnCourse(R, {}, to)
  <2>1. \A x \in Yet(to) : x \in DOMAIN R /\ "down" \notin R[x].flags
    BY <1>9, <1>10 DEF OnCourse
  <2>2. to.cur \in Range(to.seen) /\ to.res = it.res
    BY <1>2, <1>8 DEF OneOn
  <2>3. Range(to.seen) = Range(it.seen) \cup {v}
    BY <1>1, <1>2, <1>8
  <2> QED BY <1>9, <2>1, <2>2, <2>3 DEF OnCourse
<1> QED BY <1>2, <1>4, <1>7, <1>11 DEF WalkOf

\* A walk ends when it has shown all.
LEMMA EndWalk ==
  ASSUME NEW R, NEW it, NEW to, WalkOf(R, {}, it), AtEnd(it, to)
  PROVE  WalkOf(R, {}, to)
<1>1. Yet(to) = {}
  BY DEF Yet, AtEnd
<1> QED BY <1>1 DEF WalkOf, AtEnd

\* A step of a walk shows one more child or ends it.
LEMMA MoveWalk ==
  ASSUME NEW it, DOMAIN it = IterFields, NEW kids \in Seq(Res), \A x : ~Before(kids, x, x),
         NEW from, Ahead(kids, from, Yet(it), Range(it.seen)), \A x \in Yet(it) : ~Hidden(x),
         it.seen \in Seq(Res), NEW dir, NEW step, step = Onward(it, kids, from)
  PROVE  \/ from = ListHead /\ AtEnd(it, [it EXCEPT !.dir = "over"])
         \/ from /= ListHead /\ step.shows = << >> /\ AtEnd(it, Moved(it, step, dir))
         \/ from /= ListHead
            /\ \E v : /\ OneOn(it, Moved(it, step, dir), v) /\ Moved(it, step, dir).dir = dir
                      /\ Ahead(kids, step.on, Yet(it) \ {v}, Range(it.seen) \cup {v})
<1>1. CASE from = ListHead
  <2>1. Yet(it) = {}
    BY <1>1 DEF Ahead
  <2> QED BY <1>1, <2>1 DEF AtEnd, IterFields
<1>2. CASE from /= ListHead
  <2>1. PICK to : to = Moved(it, step, dir)
    OBVIOUS
  <2>2. /\ to.res = it.res /\ to.toSee = it.toSee /\ to.cur = step.cur
        /\ to.seen = it.seen \o step.shows
        /\ to.dir = IF step.shows = << >> THEN "over" ELSE dir
    BY <2>1 DEF Moved, IterFields
  <2>3. CASE step.shows = << >> /\ Yet(it) = {}
    <3>1. it.seen \o << >> = it.seen
      OBVIOUS
    <3> QED BY <1>2, <2>1, <2>2, <2>3, <3>1 DEF AtEnd
  <2>4. ASSUME NEW v, step.cur = v, step.shows = <<v>>, v \in Res, v \notin Range(it.seen),
               Ahead(kids, step.on, Yet(it) \ {v}, Range(it.seen) \cup {v})
        PROVE  \E w : /\ OneOn(it, to, w) /\ to.dir = dir
                      /\ Ahead(kids, step.on, Yet(it) \ {w}, Range(it.seen) \cup {w})
    <3>1. <<v>> /= << >>
      OBVIOUS
    <3> QED BY <2>2, <2>4, <3>1 DEF OneOn
  <2>5. \/ step.shows = << >> /\ Yet(it) = {}
        \/ \E v : /\ step.cur = v /\ step.shows = <<v>> /\ v \in Res /\ v \notin Range(it.seen)
                  /\ Ahead(kids, step.on, Yet(it) \ {v}, Range(it.seen) \cup {v})
    <3>1. PICK yet, seen : yet = Yet(it) /\ seen = Range(it.seen)
      OBVIOUS
    <3>2. Ahead(kids, from, yet, seen) /\ \A x \in yet : ~Hidden(x)
      BY <3>1
    <3>3. \/ Onward(it, kids, from).shows = << >> /\ yet = {}
          \/ \E v : /\ Onward(it, kids, from).cur = v /\ Onward(it, kids, from).shows = <<v>>
                    /\ v \in Res /\ v \notin seen
                    /\ Ahead(kids, Onward(it, kids, from).on, yet \ {v}, seen \cup {v})
      BY <1>2, <3>2, OnwardStep
    <3> QED BY <3>1, <3>3
  <2> QED BY <1>2, <2>1, <2>3, <2>4, <2>5
<1> QED BY <1>1, <1>2

\* The steps of a walk, in both directions, and its reset.
LEMMA WalkWalks ==
  ASSUME WalkInd, TreeInd', NEW i \in DOMAIN iter, Walk(i)
  PROVE  WalkInd'
<1>1. IndInv /\ TreeInd /\ Tree(res) /\ Parented(res)
  BY IndParented DEF WalkInd, TreeInd
<1>2. /\ UNCHANGED <<res, creating>> /\ DOMAIN iter' = DOMAIN iter
      /\ \A j \in DOMAIN iter : j /= i => iter'[j] = iter[j]
  BY <1>1, IterMoved DEF Walk
<1>3. InMaking = {} /\ InMaking' = InMaking
  BY <1>2 DEF Walk, sid_res_iter_next, sid_res_iter_previous, sid_res_iter_reset, Idle, InMaking, Range
<1>4. PICK it : it = iter[i]
  OBVIOUS
<1>5. WalkOf(res, {}, it) /\ DOMAIN it = IterFields /\ it.res \in Live
  BY <1>1, <1>3, <1>4 DEF WalkInd, IndInv, Types, NothingDangles
<1>6. PICK k \in Seq(Res) : k = Kids(it.res) /\ k = res[it.res].kids
  BY <1>1, <1>5 DEF Tree, KidTypes, Kids, Live
<1>7. \A x : ~Before(k, x, x) /\ ~Before(Reverse(k), x, x)
  <2>1. Sorted(res, k)
    BY <1>1, <1>5, <1>6, FamiliesRelated DEF Tree, Related, Live
  <2>2. \A x : ~Before(k, x, x)
    BY <2>1 DEF Sorted
  <2> QED BY <2>2, ReverseFacts
<1>8. ASSUME it.dir /= "over"
      PROVE  /\ \A x \in Yet(it) : ~Hidden(x)
             /\ it.seen \in Seq(Res) /\ OnCourse(res, {}, it)
  BY <1>5, <1>8 DEF WalkOf, OnCourse, Hidden
<1>9. ASSUME sid_res_iter_next(i) PROVE WalkOf(res, {}, iter'[i])
  <2>1. it.dir \in {"start", "fwd"}
    BY <1>4, <1>9 DEF sid_res_iter_next
  <2>2. PICK step : step = Onward(it, k, it.next)
    OBVIOUS
  <2>3. PICK to : to = Moved(it, step, "fwd")
    OBVIOUS
  <2>4. iter'[i] = IF it.next = ListHead THEN [it EXCEPT !.dir = "over"]
                   ELSE [to EXCEPT !.next = step.on]
    BY <1>4, <1>6, <1>9, <2>2, <2>3 DEF sid_res_iter_next
  <2>5. Ahead(k, it.next, Yet(it), Range(it.seen))
    BY <1>6, <1>8, <2>1 DEF OnCourse
  <2>6. \/ it.next = ListHead /\ AtEnd(it, [it EXCEPT !.dir = "over"])
        \/ it.next /= ListHead /\ step.shows = << >> /\ AtEnd(it, to)
        \/ it.next /= ListHead
           /\ \E v : /\ OneOn(it, to, v) /\ to.dir = "fwd"
                     /\ Ahead(k, step.on, Yet(it) \ {v}, Range(it.seen) \cup {v})
    BY <1>5, <1>7, <1>8, <2>1, <2>2, <2>3, <2>5, MoveWalk
  <2>7. DOMAIN to = IterFields
    BY <1>5, <2>3, MovedFacts
  <2>8. PICK fin : fin = iter'[i]
    OBVIOUS
  <2>9. CASE it.next = ListHead
    BY <1>5, <2>4, <2>6, <2>9, EndWalk
  <2>10. CASE it.next /= ListHead
    <3>1. /\ fin.res = to.res /\ fin.toSee = to.toSee /\ fin.cur = to.cur /\ fin.seen = to.seen
          /\ fin.dir = to.dir /\ fin.next = step.on
      BY <2>4, <2>7, <2>8, <2>10 DEF IterFields
    <3>2. CASE AtEnd(it, to)
      <4>1. AtEnd(it, fin)
        BY <3>1, <3>2 DEF AtEnd
      <4> QED BY <1>5, <2>8, <4>1, EndWalk
    <3>3. ASSUME NEW v, OneOn(it, to, v), to.dir = "fwd",
                 Ahead(k, step.on, Yet(it) \ {v}, Range(it.seen) \cup {v})
          PROVE  WalkOf(res, {}, fin)
      <4>1. OneOn(it, fin, v) /\ fin.dir = "fwd" /\ it.dir /= "over"
        BY <2>1, <3>1, <3>3 DEF OneOn
      <4>2. Ahead(res[it.res].kids, fin.next, Yet(it) \ {v}, Range(it.seen) \cup {v})
        BY <1>6, <3>1, <3>3
      <4> QED BY ONLY <1>5, <4>1, <4>2, StepWalk
    <3> QED BY <2>6, <2>8, <2>10, <3>2, <3>3
  <2> QED BY <2>9, <2>10
<1>10. ASSUME sid_res_iter_previous(i) PROVE WalkOf(res, {}, iter'[i])
  <2>1. it.dir \in {"start", "back"}
    BY <1>4, <1>10 DEF sid_res_iter_previous
  <2>2. PICK l \in Seq(Res) : l = Reverse(k)
    BY ReverseFacts
  <2>3. PICK step, to : step = Onward(it, l, it.prev) /\ to = Moved(it, step, "back")
    OBVIOUS
  <2>4. iter'[i] = IF it.prev = ListHead THEN [it EXCEPT !.dir = "over"]
                   ELSE [to EXCEPT !.prev = step.on]
    BY <1>4, <1>6, <1>10, <2>2, <2>3 DEF sid_res_iter_previous
  <2>5. Ahead(l, it.prev, Yet(it), Range(it.seen))
    BY <1>6, <1>8, <2>1, <2>2 DEF OnCourse
  <2>6. \/ it.prev = ListHead /\ AtEnd(it, [it EXCEPT !.dir = "over"])
        \/ it.prev /= ListHead /\ step.shows = << >> /\ AtEnd(it, to)
        \/ it.prev /= ListHead
           /\ \E v : /\ OneOn(it, to, v) /\ to.dir = "back"
                     /\ Ahead(l, step.on, Yet(it) \ {v}, Range(it.seen) \cup {v})
    BY <1>5, <1>7, <1>8, <2>1, <2>2, <2>3, <2>5, MoveWalk
  <2>7. DOMAIN to = IterFields
    BY <1>5, <2>3, MovedFacts
  <2>8. PICK fin : fin = iter'[i]
    OBVIOUS
  <2>9. CASE it.prev = ListHead
    BY <1>5, <2>4, <2>6, <2>9, EndWalk
  <2>10. CASE it.prev /= ListHead
    <3>1. /\ fin.res = to.res /\ fin.toSee = to.toSee /\ fin.cur = to.cur /\ fin.seen = to.seen
          /\ fin.dir = to.dir /\ fin.prev = step.on
      BY <2>4, <2>7, <2>8, <2>10 DEF IterFields
    <3>2. CASE AtEnd(it, to)
      <4>1. AtEnd(it, fin)
        BY <3>1, <3>2 DEF AtEnd
      <4> QED BY <1>5, <2>8, <4>1, EndWalk
    <3>3. ASSUME NEW v, OneOn(it, to, v), to.dir = "back",
                 Ahead(l, step.on, Yet(it) \ {v}, Range(it.seen) \cup {v})
          PROVE  WalkOf(res, {}, fin)
      <4>1. OneOn(it, fin, v) /\ fin.dir = "back" /\ it.dir /= "over"
        BY <2>1, <3>1, <3>3 DEF OneOn
      <4>2. Ahead(Reverse(res[it.res].kids), fin.prev, Yet(it) \ {v}, Range(it.seen) \cup {v})
        BY <1>6, <2>2, <3>1, <3>3
      <4> QED BY ONLY <1>5, <4>1, <4>2, StepWalk
    <3> QED BY <2>6, <2>8, <2>10, <3>2, <3>3
  <2> QED BY <2>9, <2>10
<1>11. ASSUME sid_res_iter_reset(i) PROVE WalkOf(res, {}, iter'[i])
  <2>1. iter'[i] = NewIter(it.res, it.owner, it.refd)
    BY <1>4, <1>11 DEF sid_res_iter_reset
  <2> QED BY <1>1, <1>3, <1>5, <2>1, NewIterWalk
<1>12. ASSUME NEW j \in DOMAIN iter' PROVE WalkOf(res', InMaking', iter'[j])
  <2>1. WalkOf(res, {}, iter'[j])
    <3>1. CASE j = i
      BY <1>9, <1>10, <1>11, <3>1 DEF Walk
    <3>2. CASE j /= i
      BY <1>2, <1>3, <3>2 DEF WalkInd
    <3> QED BY <3>1, <3>2
  <2> QED BY <1>2, <1>3, <2>1
<1> QED BY <1>12 DEF WalkInd

\* Every step preserves the invariant of the walks.
LEMMA WalkNext ==
  ASSUME WalkInd, [Next]_vars
  PROVE  WalkInd'
<1>1. TreeInd /\ IndInv
  BY DEF WalkInd, TreeInd
<1>2. TreeInd'
  BY <1>1, TreeNext
<1>3. CASE QuietStep
  BY <1>2, <1>3, QuietWalks
<1>4. CASE Destruction /\ Ends
  BY <1>2, <1>4, DestructionWalks
<1>5. ASSUME NEW p \in Live \cup {None}, Create(p) PROVE WalkInd'
  <2>1. Creation(Fresh, p) /\ UNCHANGED iter
    BY <1>1, <1>5, CreateTree DEF Create
  <2>2. Unwalked(p)
    BY <1>5 DEF Create, sid_res_create
  <2> QED BY <1>2, <2>1, <2>2, CreationWalks
<1>6. ASSUME NEW prio \in Prios, sid_res_set_prio(prio) PROVE WalkInd'
  BY <1>1, <1>2, <1>6, SetPrioTree, ReorderingWalks
<1>7. ASSUME NEW r \in Live, NEW subtree \in BOOLEAN, sid_res_isolate(r, subtree) PROVE WalkInd'
  BY <1>2, <1>7, IsolationWalks
<1>8. ASSUME NEW r \in Live, NEW c \in Live, Adopt(r, c) PROVE WalkInd'
  BY <1>2, <1>8, AdoptionWalks
<1>9. ASSUME NEW i \in Iters, NEW r \in Live, NEW owner \in Live \cup {Outside},
             sid_res_iter_create(i, r, owner)
      PROVE  WalkInd'
  BY <1>2, <1>9, IterCreateWalks
<1>10. ASSUME NEW i \in DOMAIN iter, Walk(i) PROVE WalkInd'
  BY <1>2, <1>10, WalkWalks
<1> QED BY <1>1, <1>3, <1>4, <1>5, <1>6, <1>7, <1>8, <1>9, <1>10, StepKinds

\* Every walk that is not over has its children before it, whatever happens to the tree.
THEOREM WalkInvariance == Spec => []WalkInd
<1>1. Init => WalkInd
  <2>1. ASSUME Init PROVE DOMAIN iter = {}
    BY <2>1 DEF Init
  <2> QED BY <2>1, InitTree DEF WalkInd
<1>2. WalkInd /\ [Next]_vars => WalkInd'
  BY WalkNext
<1> QED BY <1>1, <1>2, PTL DEF Spec

\* A walk shows every child there was at its start and still is, once, whatever the program does
\* to the child it stands on between two steps (sid_res_iter_next, sid_res_iter_previous).
THEOREM WalksComplete == Spec => []WalkMissesNothing
<1>1. ASSUME WalkInd PROVE WalkMissesNothing
  <2> SUFFICES ASSUME NEW i \in DOMAIN iter
               PROVE  LET it == iter[i]
                          there == it.toSee \cap Range(Kids(it.res))
                      IN  /\ \A a, b \in DOMAIN it.seen : a # b => it.seen[a] # it.seen[b]
                          /\ it.dir = "over" => there \subseteq Range(it.seen)
                          /\ it.dir = "fwd" /\ it.next # ListHead => it.next \in Range(Kids(it.res))
                          /\ it.dir = "back" /\ it.prev # ListHead => it.prev \in Range(Kids(it.res))
    BY DEF WalkMissesNothing
  <2> DEFINE it == iter[i]
  <2>1. WalkOf(res, InMaking, it)
    BY <1>1 DEF WalkInd
  <2>2. \A a, b \in DOMAIN it.seen : a # b => it.seen[a] # it.seen[b]
    <3>1. DOMAIN it.seen = 1..Len(it.seen)
      BY <2>1 DEF WalkOf
    <3> QED BY <2>1, <3>1 DEF WalkOf
  <2>3. it.dir = "over" => it.toSee \subseteq Range(it.seen)
    BY <2>1 DEF WalkOf, Yet
  <2>4. ASSUME it.dir /= "over", NEW x \in Course(it), x /= ListHead PROVE x \in Range(Kids(it.res))
    <3>1. Kids(it.res) \in Seq(Res) /\ In(Kids(it.res), x)
      BY <1>1, <2>4, CourseFacts
    <3> QED BY <3>1, RangeIn
  <2>5. /\ it.dir = "fwd" => it.next \in Course(it)
        /\ it.dir = "back" => it.prev \in Course(it)
    BY DEF Course
  <2> QED BY <2>2, <2>3, <2>4, <2>5
<1> QED BY <1>1, WalkInvariance, PTL
-----------------------------------------------------------------------------
(***************************************************************************)
(* Searches.                                                               *)
(***************************************************************************)

\* A list after another.
LEMMA ConcatIn ==
  ASSUME NEW s \in Seq(Res), NEW t \in Seq(Res)
  PROVE  s \o t \in Seq(Res) /\ \A x : In(s \o t, x) <=> In(s, x) \/ In(t, x)
<1>1. PICK u : u = s \o t
  OBVIOUS
<1>2. PICK m, n \in Nat : m = Len(s) /\ n = Len(t)
  OBVIOUS
<1>3. u \in Seq(Res) /\ Len(u) = m + n
  BY <1>1, <1>2
<1>4. \A i \in 1..(m + n) : u[i] = IF i <= m THEN s[i] ELSE t[i - m]
  BY <1>1, <1>2, ConcatProperties
<1>5. ASSUME NEW x, In(u, x) PROVE In(s, x) \/ In(t, x)
  <2>1. PICK i \in 1..(m + n) : u[i] = x
    BY <1>3, <1>5 DEF In
  <2>2. CASE i <= m
    <3>1. i \in 1..m
      BY <2>2
    <3> QED BY <1>2, <1>4, <2>1, <2>2, <3>1 DEF In
  <2>3. CASE ~(i <= m)
    <3>1. i - m \in 1..n
      BY <2>3
    <3> QED BY <1>2, <1>4, <2>1, <2>3, <3>1 DEF In
  <2> QED BY <2>2, <2>3
<1>6. ASSUME NEW x, In(s, x) PROVE In(u, x)
  <2>1. PICK i \in 1..m : s[i] = x
    BY <1>2, <1>6 DEF In
  <2>2. i \in 1..(m + n) /\ i <= m
    OBVIOUS
  <2> QED BY <1>3, <1>4, <2>1, <2>2 DEF In
<1>7. ASSUME NEW x, In(t, x) PROVE In(u, x)
  <2>1. PICK i \in 1..n : t[i] = x
    BY <1>2, <1>7 DEF In
  <2>2. m + i \in 1..(m + n) /\ ~(m + i <= m) /\ (m + i) - m = i
    OBVIOUS
  <2> QED BY <1>3, <1>4, <2>1, <2>2 DEF In
<1> QED BY <1>1, <1>3, <1>5, <1>6, <1>7

\* The first n lists of ss one after the other.
FlatOf(ss, n, t) == t \in Seq(Res) /\ \A x : In(t, x) <=> \E i \in 1..n : In(ss[i], x)

\* The lists of a list one after the other.
LEMMA FlattenFacts ==
  ASSUME NEW m \in Nat, NEW ss \in [1..m -> Seq(Res)]
  PROVE  FlatOf(ss, m, FlattenSeq(ss))
<1>1. DOMAIN ss = 1..m /\ Len(ss) = m
  OBVIOUS
<1>2. CASE m = 0
  <2>1. FlattenSeq(ss) = ss /\ ss \in Seq(Res)
    BY <1>1, <1>2 DEF FlattenSeq
  <2> QED BY <1>1, <1>2, <2>1 DEF FlatOf, In
<1>3. CASE m /= 0
  <2> DEFINE V == Seq(Res)
             Eq(f) == f = [i \in 1..m |-> IF i = 1 THEN ss[i] ELSE f[i - 1] \o ss[i]]
             flatten == CHOOSE f : Eq(f)
             step == [n \in 1..m |-> [v \in V |-> v \o ss[n]]]
  <2>1. << >> \in V /\ \A n \in 1..m : ss[n] \in V
    OBVIOUS
  <2>2. step \in [1..m -> [V -> V]]
    BY <2>1
  <2>3. PICK g : Steps(g, V, << >>, step, m)
    <3> HIDE DEF V, step
    <3> QED BY <2>1, <2>2, Iterated
  <2>4. g \in [0..m -> V] /\ g[0] = << >> /\ \A n \in 1..m : g[n] = g[n - 1] \o ss[n]
    <3>1. g \in [0..m -> V] /\ g[0] = << >> /\ \A n \in 1..m : g[n] = step[n][g[n - 1]]
      BY <2>3 DEF Steps
    <3>2. \A n \in 1..m : g[n - 1] \in V
      BY <3>1
    <3> QED BY <3>1, <3>2
  <2> HIDE DEF V, step
  <2>5. PICK f : f = [i \in 1..m |-> g[i]]
    OBVIOUS
  <2>6. Eq(f)
    <3>1. 1 \in 1..m /\ g[1] = ss[1]
      <4>1. g[1] = g[1 - 1] \o ss[1] /\ 1 - 1 = 0 /\ 1 \in 1..m
        BY <1>3, <2>4
      <4>2. << >> \o ss[1] = ss[1]
        BY <2>1, <4>1 DEF V
      <4> QED BY <2>4, <4>1, <4>2
    <3>2. ASSUME NEW i \in 1..m, i /= 1 PROVE f[i] = f[i - 1] \o ss[i]
      <4>1. i - 1 \in 1..m
        BY <3>2
      <4> QED BY <2>4, <2>5, <4>1
    <3>3. f[1] = ss[1]
      BY <2>5, <3>1
    <3>4. \A i \in 1..m : f[i] = IF i = 1 THEN ss[i] ELSE f[i - 1] \o ss[i]
      BY <3>2, <3>3
    <3> QED BY <2>5, <3>4
  <2>7. Eq(flatten)
    BY <2>6
  <2>8. FlattenSeq(ss) = flatten[m]
    BY <1>1, <1>3 DEF FlattenSeq
  <2> HIDE DEF flatten
  <2>9. \A n \in 1..m : FlatOf(ss, n, flatten[n])
    <3> DEFINE Bad == {n \in 1..m : ~FlatOf(ss, n, flatten[n])}
    <3> SUFFICES ASSUME Bad /= {} PROVE FALSE
      OBVIOUS
    <3>1. Bad \in SUBSET Nat
      OBVIOUS
    <3>2. PICK n \in Bad : \A k \in Bad : n <= k
      BY <3>1, NatMin
    <3>3. n \in 1..m
      OBVIOUS
    <3>4. CASE n = 1
      <4>1. flatten[1] = ss[1] /\ ss[1] \in Seq(Res)
        BY <2>1, <2>7, <3>3, <3>4 DEF V
      <4>2. FlatOf(ss, 1, flatten[1])
        BY <4>1 DEF FlatOf
      <4> QED BY <3>2, <3>4, <4>2
    <3>5. CASE n /= 1
      <4>1. n - 1 \in 1..m /\ ~(n <= n - 1) /\ \A i : i \in 1..n <=> i \in 1..(n - 1) \/ i = n
        BY <3>3, <3>5
      <4>2. FlatOf(ss, n - 1, flatten[n - 1])
        BY <3>2, <4>1
      <4>3. flatten[n] = flatten[n - 1] \o ss[n] /\ ss[n] \in Seq(Res)
        BY <2>1, <2>7, <3>3, <3>5 DEF V
      <4>4. PICK t \in Seq(Res) : t = flatten[n - 1] /\ \A x : In(t, x) <=> \E i \in 1..(n - 1) : In(ss[i], x)
        BY <4>2 DEF FlatOf
      <4>5. t \o ss[n] \in Seq(Res) /\ \A x : In(t \o ss[n], x) <=> In(t, x) \/ In(ss[n], x)
        BY <4>3, ConcatIn
      <4>6. FlatOf(ss, n, t \o ss[n])
        BY <4>1, <4>4, <4>5 DEF FlatOf
      <4> QED BY <3>2, <4>3, <4>4, <4>6
    <3> QED BY <3>4, <3>5
  <2>10. m \in 1..m
    BY <1>3
  <2> QED BY <2>8, <2>9, <2>10
<1> QED BY <1>2, <1>3

\* The children of a resource and what is below them.
LEMMA BelowFacts ==
  ASSUME TreeInd
  PROVE  /\ IsFiniteSet(Live) /\ None \notin Live
         /\ \A r \in Live : Kids(r) \in Seq(Res) /\ Ancestors(r) = Above(res, r)
         /\ \A r : Below(r) \in SUBSET Live /\ Below(r) = {x \in Live : r \in Above(res, x)}
         /\ \A r \in Live : r \notin Below(r) /\ r \notin Above(res, r)
         /\ \A r \in Live : \A k : In(Kids(r), k) <=> k \in Live /\ res[k].parent = r
         /\ \A r \in Live : res[r].parent \in Live \cup {None}
         /\ \A x \in Live : Above(res, x) = IF res[x].parent = None THEN {}
                                            ELSE {res[x].parent} \cup Above(res, res[x].parent)
<1>1. IndInv /\ Tree(res) /\ Parented(res)
  BY IndParented DEF TreeInd
<1>2. Related(res) /\ None \notin Live /\ IsFiniteSet(Live)
  BY <1>1, FamiliesRelated DEF Tree, KidTypes, Parented, Live
<1>3. \A r \in Live : Kids(r) \in Seq(Res) /\ Ancestors(r) = Above(res, r)
  BY <1>1, AncestorsTree DEF Tree, KidTypes, Kids, Live
<1>4. \A r : Below(r) \in SUBSET Live /\ Below(r) = {x \in Live : r \in Above(res, x)}
  BY AncestorsTree
<1>5. \A r \in Live : r \notin Above(res, r)
  BY <1>1 DEF Tree, Acyclic, Live
<1>6. \A r \in Live : \A k : In(Kids(r), k) <=> k \in Live /\ res[k].parent = r
  BY <1>2 DEF Related, Kids, Live
<1>7. \A r \in Live : res[r].parent \in Live \cup {None}
  BY <1>1 DEF Parented, Live
<1>8. ASSUME NEW x \in Live
      PROVE  Above(res, x) = IF res[x].parent = None THEN {}
                             ELSE {res[x].parent} \cup Above(res, res[x].parent)
  BY <1>1, AboveStep DEF Live
<1> QED BY <1>2, <1>3, <1>4, <1>5, <1>6, <1>7, <1>8

\* There is less below a child and less above a parent.
LEMMA Depths ==
  ASSUME TreeInd, NEW k \in Live, NEW r \in Live, res[k].parent = r
  PROVE  /\ Cardinality(Below(k)) \in Nat /\ Cardinality(Below(r)) \in Nat
         /\ Cardinality(Below(k)) < Cardinality(Below(r))
         /\ Cardinality(Above(res, k)) \in Nat /\ Cardinality(Above(res, r)) \in Nat
         /\ Cardinality(Above(res, r)) < Cardinality(Above(res, k))
<1>1. Parented(res) /\ r /= None
  BY BelowFacts, IndParented DEF TreeInd
<1>2. Above(res, k) = {r} \cup Above(res, r)
  BY <1>1, BelowFacts
<1>3. Below(k) \subseteq Below(r)
  <2>1. ASSUME NEW x \in Live, k \in Above(res, x) PROVE r \in Above(res, x)
    BY <1>1, <1>2, <2>1, AboveAbove DEF Live
  <2> QED BY <2>1, BelowFacts
<1>4. k \in Below(r) /\ k \notin Below(k) /\ r \notin Above(res, r)
  BY <1>2, BelowFacts
<1>5. Below(k) \in SUBSET Live /\ Below(r) \in SUBSET Live /\ Above(res, k) \in SUBSET Live
  BY <1>1, BelowFacts, AboveFacts DEF Live
<1>6. IsFiniteSet(Below(k)) /\ IsFiniteSet(Below(r)) /\ IsFiniteSet(Above(res, k))
  BY <1>5, BelowFacts, FS_Subset
<1>7. IsFiniteSet(Above(res, r)) /\ Above(res, r) \subseteq Above(res, k)
  BY <1>2, <1>6, FS_Subset
<1>8. /\ Cardinality(Below(k)) \in Nat /\ Cardinality(Below(r)) \in Nat
      /\ Cardinality(Above(res, k)) \in Nat /\ Cardinality(Above(res, r)) \in Nat
  BY <1>6, <1>7, FS_CardinalityType
<1>9. /\ Cardinality(Below(k)) <= Cardinality(Below(r))
      /\ Cardinality(Below(k)) = Cardinality(Below(r)) => Below(k) = Below(r)
  BY <1>3, <1>6, FS_Subset
<1>10. /\ Cardinality(Above(res, r)) <= Cardinality(Above(res, k))
       /\ Cardinality(Above(res, r)) = Cardinality(Above(res, k)) => Above(res, r) = Above(res, k)
  BY <1>6, <1>7, FS_Subset
<1>11. Below(k) /= Below(r) /\ Above(res, r) /= Above(res, k)
  BY <1>2, <1>4
<1> QED BY <1>8, <1>9, <1>10, <1>11

\* What holds of a resource whenever it holds of its children holds of all.
LEMMA FromChildren ==
  ASSUME TreeInd, NEW Good \in SUBSET Live,
         \A r \in Live : (\A k : In(Kids(r), k) => k \in Good) => r \in Good
  PROVE  Good = Live
<1> DEFINE Wrong == Live \ Good
           Bad == {Cardinality(Below(x)) : x \in Wrong}
<1> SUFFICES ASSUME Wrong /= {} PROVE FALSE
  OBVIOUS
<1>1. \A x \in Live : Cardinality(Below(x)) \in Nat
  <2> TAKE x \in Live
  <2>1. IsFiniteSet(Below(x))
    BY BelowFacts, FS_Subset
  <2> QED BY <2>1, FS_CardinalityType
<1>2. Bad \in SUBSET Nat /\ Bad /= {}
  BY <1>1
<1>3. PICK n \in Bad : \A k \in Bad : n <= k
  BY <1>2, NatMin
<1>4. PICK x \in Wrong : n = Cardinality(Below(x))
  BY <1>3
<1>5. ASSUME NEW k, In(Kids(x), k) PROVE k \in Good
  <2>1. k \in Live /\ x \in Live /\ res[k].parent = x
    BY <1>5, BelowFacts
  <2>2. Cardinality(Below(k)) < Cardinality(Below(x))
    BY <2>1, Depths
  <2>3. k \in Wrong => Cardinality(Below(k)) \in Bad
    OBVIOUS
  <2>4. k \in Wrong => Cardinality(Below(x)) <= Cardinality(Below(k))
    BY <1>3, <1>4, <2>3
  <2> QED BY <1>1, <2>1, <2>2, <2>4
<1> QED BY <1>4, <1>5

\* What holds of a resource whenever it holds of its parent holds of all.
LEMMA FromParents ==
  ASSUME TreeInd, NEW Good \in SUBSET Live,
         \A r \in Live : res[r].parent \in Good \cup {None} => r \in Good
  PROVE  Good = Live
<1> DEFINE Wrong == Live \ Good
           Bad == {Cardinality(Above(res, x)) : x \in Wrong}
<1> SUFFICES ASSUME Wrong /= {} PROVE FALSE
  OBVIOUS
<1>1. \A x \in Live : Cardinality(Above(res, x)) \in Nat
  <2> TAKE x \in Live
  <2>1. Parented(res) /\ IsFiniteSet(Live)
    BY BelowFacts, IndParented DEF TreeInd
  <2>2. IsFiniteSet(Above(res, x))
    BY <2>1, AboveFacts, FS_Subset DEF Live
  <2> QED BY <2>2, FS_CardinalityType
<1>2. Bad \in SUBSET Nat /\ Bad /= {}
  BY <1>1
<1>3. PICK n \in Bad : \A k \in Bad : n <= k
  BY <1>2, NatMin
<1>4. PICK x \in Wrong : n = Cardinality(Above(res, x))
  BY <1>3
<1>5. res[x].parent \in Good \cup {None}
  <2>1. PICK p : p = res[x].parent
    OBVIOUS
  <2>2. CASE p = None
    BY <2>1, <2>2
  <2>3. CASE p /= None
    <3>1. x \in Live /\ p \in Live
      BY <2>1, <2>3, BelowFacts
    <3>2. Cardinality(Above(res, p)) < Cardinality(Above(res, x))
      BY <2>1, <3>1, Depths
    <3>3. p \in Wrong => Cardinality(Above(res, p)) \in Bad
      OBVIOUS
    <3>4. p \in Wrong => Cardinality(Above(res, x)) <= Cardinality(Above(res, p))
      BY <1>3, <1>4, <3>3
    <3> QED BY <1>1, <2>1, <3>1, <3>2, <3>4
  <2> QED BY <2>2, <2>3
<1> QED BY <1>4, <1>5

\* A child of r that x is or is below.
Via(r, x, k) == In(Kids(r), k) /\ (x = k \/ x \in Below(k))

\* What is below a resource is a child of it or below one.
LEMMA BelowVia ==
  ASSUME TreeInd, NEW r \in Live, NEW x
  PROVE  x \in Below(r) <=> \E k : Via(r, x, k)
<1>1. Parented(res)
  BY IndParented DEF TreeInd
<1>2. ASSUME NEW k, Via(r, x, k) PROVE x \in Below(r)
  <2>1. k \in Live /\ res[k].parent = r /\ r /= None /\ (x = k \/ x \in Below(k))
    BY <1>2, BelowFacts DEF Via
  <2>2. r \in Above(res, k)
    BY <2>1, BelowFacts
  <2>3. x \in Below(k) => x \in Live /\ Above(res, k) \subseteq Above(res, x)
    BY <1>1, BelowFacts, AboveAbove DEF Live
  <2> QED BY <2>1, <2>2, <2>3, BelowFacts
<1>3. ASSUME x \in Below(r) PROVE \E k : Via(r, x, k)
  <2> DEFINE Good == {y \in Live : r \in Above(res, y) => \E k : Via(r, y, k)}
  <2>1. ASSUME NEW y \in Live, res[y].parent \in Good \cup {None} PROVE y \in Good
    <3> SUFFICES ASSUME r \in Above(res, y) PROVE \E k : Via(r, y, k)
      OBVIOUS
    <3>1. PICK p : p = res[y].parent
      OBVIOUS
    <3>2. p /= None /\ p \in Live /\ Above(res, y) = {p} \cup Above(res, p)
      BY <3>1, BelowFacts
    <3>3. CASE p = r
      <4>1. Via(r, y, y)
        BY <3>1, <3>3, BelowFacts DEF Via
      <4> QED BY <4>1
    <3>4. CASE p /= r
      <4>1. r \in Above(res, p) /\ p \in Good
        BY <2>1, <3>1, <3>2, <3>4
      <4>2. PICK k : Via(r, p, k)
        BY <4>1
      <4>3. k \in Live /\ (p = k \/ k \in Above(res, p))
        BY <4>2, BelowFacts DEF Via
      <4>4. y \in Below(k)
        BY <3>2, <4>3, BelowFacts
      <4>5. Via(r, y, k)
        BY <4>2, <4>4 DEF Via
      <4> QED BY <4>5
    <3> QED BY <3>3, <3>4
  <2>2. Good = Live
    <3> HIDE DEF Good
    <3>1. Good \in SUBSET Live
      BY DEF Good
    <3> QED BY <2>1, <3>1, FromParents
  <2> QED BY <1>3, <2>2, BelowFacts
<1> QED BY <1>2, <1>3

\* A search is a sequence for each resource; a step of it that looks at no more
\* than the searches of the children; and a search that the step leaves as it is.
Visits(V) == V = [Live -> Seq(Res)]
ByChildren(V, G) ==
    \A f, g \in V : \A r \in Live :
       (\A k : In(Kids(r), k) => f[k] = g[k]) => G[f][r] = G[g][r]
Solved(V, G) == \E f \in V : G[f] = f

\* A visit that is defined by the visits of the children exists.
LEMMA Visited ==
  ASSUME TreeInd, NEW V, Visits(V), NEW G \in [V -> V], ByChildren(V, G)
  PROVE  Solved(V, G)
<1>1. PICK N \in Nat : N = Cardinality(Live)
  BY BelowFacts, FS_CardinalityType
<1>2. PICK none \in V : none = [x \in Live |-> << >>]
  <2>1. << >> \in Seq(Res)
    OBVIOUS
  <2>2. [x \in Live |-> << >>] \in [Live -> Seq(Res)]
    BY <2>1
  <2> QED BY <2>2 DEF Visits
<1>3. PICK m \in Nat : m = N + 2
  OBVIOUS
<1>4. PICK step \in [1..m -> [V -> V]] : step = [n \in 1..m |-> G]
  OBVIOUS
<1>5. PICK h : Steps(h, V, none, step, m)
  BY ONLY <1>2, <1>3, <1>4, Iterated
<1>6. h \in [0..m -> V] /\ \A n \in 1..m : h[n] = G[h[n - 1]]
  BY <1>4, <1>5 DEF Steps
<1> DEFINE Good == {r \in Live : \A n \in 0..(N + 1) :
                                     Cardinality(Below(r)) < n => h[n][r] = h[n + 1][r]}
<1>7. ASSUME NEW r \in Live, \A k : In(Kids(r), k) => k \in Good PROVE r \in Good
  <2> SUFFICES ASSUME NEW n \in 0..(N + 1), Cardinality(Below(r)) < n PROVE h[n][r] = h[n + 1][r]
    OBVIOUS
  <2>1. Cardinality(Below(r)) \in Nat
    <3>1. IsFiniteSet(Below(r))
      BY BelowFacts, FS_Subset
    <3> QED BY <3>1, FS_CardinalityType
  <2>2. n - 1 \in 0..(N + 1) /\ n - 1 \in 0..m /\ n \in 1..m /\ n + 1 \in 1..m /\ (n + 1) - 1 = n
        /\ (n - 1) + 1 = n /\ n \in 0..m
    BY <1>3, <2>1
  <2>3. ASSUME NEW k, In(Kids(r), k) PROVE h[n - 1][k] = h[n][k]
    <3>1. k \in Live /\ res[k].parent = r
      BY <2>3, BelowFacts
    <3>2. Cardinality(Below(k)) \in Nat /\ Cardinality(Below(k)) < Cardinality(Below(r))
      BY <3>1, Depths
    <3>3. Cardinality(Below(k)) < n - 1
      BY <2>1, <2>2, <3>2
    <3> QED BY <1>7, <2>2, <2>3, <3>3
  <2>4. h[n - 1] \in V /\ h[n] \in V
    BY <1>6, <2>2
  <2>5. G[h[n - 1]][r] = G[h[n]][r]
    BY <2>3, <2>4 DEF ByChildren
  <2>6. h[n] = G[h[n - 1]]
    BY <1>6, <2>2
  <2>7. h[n + 1] = G[h[(n + 1) - 1]]
    BY <1>6, <2>2
  <2> QED BY <2>2, <2>5, <2>6, <2>7
<1>8. Good = Live
  <2> HIDE DEF Good
  <2>1. Good \in SUBSET Live
    BY DEF Good
  <2> QED BY <1>7, <2>1, FromChildren
<1>9. PICK n \in Nat : n = N + 1
  OBVIOUS
<1>10. n \in 0..(N + 1) /\ n \in 0..m /\ n + 1 \in 1..m /\ n + 1 \in 0..m /\ (n + 1) - 1 = n
  BY <1>3, <1>9
<1>11. ASSUME NEW r \in Live PROVE h[n][r] = h[n + 1][r]
  <2>1. IsFiniteSet(Live) /\ Below(r) \in SUBSET Live
    BY BelowFacts
  <2>2. IsFiniteSet(Below(r)) /\ Cardinality(Below(r)) <= N
    BY <1>1, <2>1, FS_Subset
  <2>3. Cardinality(Below(r)) \in Nat
    BY <2>2, FS_CardinalityType
  <2>4. Cardinality(Below(r)) < n
    BY <1>9, <2>2, <2>3
  <2>5. r \in Good
    BY <1>8
  <2> QED BY <1>10, <2>4, <2>5
<1>12. h[n] \in V /\ h[n + 1] \in V
  BY <1>6, <1>10
<1>13. h[n + 1] = h[n]
  BY <1>11, <1>12 DEF Visits
<1>14. h[n + 1] = G[h[n]]
  BY <1>6, <1>10
<1> QED BY <1>12, <1>13, <1>14 DEF Solved

\* The children that are shown.
LEMMA ShownFacts ==
  ASSUME NEW k \in Seq(Res)
  PROVE  Shown(k) \in Seq(Res) /\ \A x : In(Shown(k), x) <=> In(k, x) /\ ~Hidden(x)
<1>1. PICK D : D = {x \in Range(k) : Hidden(x)}
  OBVIOUS
<1>2. Shown(k) = Kept(k, D)
  BY <1>1 DEF Shown
<1>3. \A x : In(k, x) => (x \in D <=> Hidden(x))
  BY <1>1, RangeIn
<1> QED BY <1>2, <1>3, KeptFacts

\* One level of the two searches, with what f has for the next.
WideStep(f, r) == Shown(Kids(r)) \o FlattenSeq([i \in DOMAIN Kids(r) |-> f[Kids(r)[i]]])
DeepStep(f, r) == FlattenSeq([i \in DOMAIN Shown(Kids(r)) |->
                                 <<Shown(Kids(r))[i]>> \o f[Shown(Kids(r))[i]]])

\* What one level of the wide search adds.
LEMMA WideStepFacts ==
  ASSUME TreeInd, NEW r \in Live, NEW f, \A k : In(Kids(r), k) => f[k] \in Seq(Res)
  PROVE  /\ WideStep(f, r) \in Seq(Res)
         /\ \A x : In(WideStep(f, r), x) <=> \/ In(Kids(r), x) /\ ~Hidden(x)
                                             \/ \E k : In(Kids(r), k) /\ In(f[k], x)
<1>1. PICK kids \in Seq(Res) : kids = Kids(r)
  BY BelowFacts
<1>2. PICK m \in Nat : m = Len(kids) /\ DOMAIN kids = 1..m
  OBVIOUS
<1>3. PICK ss : ss = [i \in DOMAIN kids |-> f[kids[i]]]
  OBVIOUS
<1>4. \A i \in 1..m : In(kids, kids[i])
  BY <1>2 DEF In
<1>5. ss \in [1..m -> Seq(Res)]
  BY <1>1, <1>2, <1>3, <1>4
<1>6. PICK t \in Seq(Res) : t = FlattenSeq(ss) /\ \A x : In(t, x) <=> \E i \in 1..m : In(ss[i], x)
  BY <1>5, FlattenFacts DEF FlatOf
<1>7. \A x : In(t, x) <=> \E k : In(kids, k) /\ In(f[k], x)
  <2>1. \A x : In(t, x) <=> \E i \in 1..m : In(f[kids[i]], x)
    BY <1>2, <1>3, <1>6
  <2>2. \A k : In(kids, k) <=> \E i \in 1..m : kids[i] = k
    BY <1>2 DEF In
  <2> QED BY <2>1, <2>2
<1>8. PICK s \in Seq(Res) : s = Shown(kids) /\ \A x : In(s, x) <=> In(kids, x) /\ ~Hidden(x)
  BY ShownFacts
<1>9. s \o t \in Seq(Res) /\ \A x : In(s \o t, x) <=> In(s, x) \/ In(t, x)
  BY ConcatIn
<1>10. WideStep(f, r) = s \o t
  BY <1>1, <1>3, <1>6, <1>8 DEF WideStep
<1> QED BY <1>1, <1>7, <1>8, <1>9, <1>10

\* What one level of the deep search adds.
LEMMA DeepStepFacts ==
  ASSUME TreeInd, NEW r \in Live, NEW f, \A k : In(Kids(r), k) => f[k] \in Seq(Res)
  PROVE  /\ DeepStep(f, r) \in Seq(Res)
         /\ \A x : In(DeepStep(f, r), x) <=>
                      \E k : In(Kids(r), k) /\ ~Hidden(k) /\ (x = k \/ In(f[k], x))
<1>1. Kids(r) \in Seq(Res)
  BY BelowFacts
<1>2. PICK s \in Seq(Res) : s = Shown(Kids(r)) /\ \A x : In(s, x) <=> In(Kids(r), x) /\ ~Hidden(x)
  BY <1>1, ShownFacts
<1>3. PICK m \in Nat : m = Len(s) /\ DOMAIN s = 1..m
  OBVIOUS
<1>4. \A k : In(s, k) <=> \E i \in 1..m : s[i] = k
  BY <1>3 DEF In
<1>5. PICK ss : ss = [i \in DOMAIN s |-> <<s[i]>> \o f[s[i]]]
  OBVIOUS
<1>6. ASSUME NEW i \in 1..m
      PROVE  ss[i] \in Seq(Res) /\ \A x : In(ss[i], x) <=> x = s[i] \/ In(f[s[i]], x)
  <2>1. PICK k \in Res : k = s[i]
    BY <1>3
  <2>2. f[k] \in Seq(Res)
    BY <1>2, <1>4, <2>1
  <2>3. <<k>> \in Seq(Res) /\ Len(<<k>>) = 1 /\ <<k>>[1] = k /\ 1..1 = {1}
    OBVIOUS
  <2>4. \A x : In(<<k>>, x) <=> x = k
    BY <2>3 DEF In
  <2>5. <<k>> \o f[k] \in Seq(Res) /\ \A x : In(<<k>> \o f[k], x) <=> In(<<k>>, x) \/ In(f[k], x)
    BY <2>2, <2>3, ConcatIn
  <2>6. ss[i] = <<k>> \o f[k]
    BY <1>3, <1>5, <2>1
  <2> QED BY <2>1, <2>4, <2>5, <2>6
<1>7. ss \in [1..m -> Seq(Res)]
  BY <1>3, <1>5, <1>6
<1>8. PICK t \in Seq(Res) : t = FlattenSeq(ss) /\ \A x : In(t, x) <=> \E i \in 1..m : In(ss[i], x)
  BY <1>7, FlattenFacts DEF FlatOf
<1>9. DeepStep(f, r) = t
  BY <1>2, <1>5, <1>8 DEF DeepStep
<1>10. \A x : In(t, x) <=> \E i \in 1..m : x = s[i] \/ In(f[s[i]], x)
  BY <1>6, <1>8
<1> QED BY <1>2, <1>4, <1>9, <1>10

\* One level looks at what there is for the children only.
LEMMA StepLocal ==
  ASSUME TreeInd, NEW r \in Live, NEW f, NEW g, \A k : In(Kids(r), k) => f[k] = g[k]
  PROVE  WideStep(f, r) = WideStep(g, r) /\ DeepStep(f, r) = DeepStep(g, r)
<1>1. PICK kids \in Seq(Res) : kids = Kids(r)
  BY BelowFacts
<1>2. PICK s \in Seq(Res) : s = Shown(kids) /\ \A x : In(s, x) => In(kids, x)
  BY ShownFacts
<1>3. \A i \in DOMAIN kids : f[kids[i]] = g[kids[i]]
  BY <1>1 DEF In
<1>4. \A i \in DOMAIN s : f[s[i]] = g[s[i]]
  BY <1>1, <1>2 DEF In
<1>5. [i \in DOMAIN kids |-> f[kids[i]]] = [i \in DOMAIN kids |-> g[kids[i]]]
  BY <1>3
<1>6. [i \in DOMAIN s |-> <<s[i]>> \o f[s[i]]] = [i \in DOMAIN s |-> <<s[i]>> \o g[s[i]]]
  BY <1>4
<1> QED BY <1>1, <1>2, <1>5, <1>6 DEF WideStep, DeepStep

\* What a search that goes wide first visits below r.
WideAt(r, t) == t \in Seq(Res) /\ \A x : In(t, x) <=> x \in Below(r) /\ ~Hidden(x)

\* It visits all that is below but the hidden ones.
LEMMA WideFacts ==
  ASSUME TreeInd, NEW r \in Live
  PROVE  WideAt(r, VisitWideDFS[r])
<1>1. PICK V : V = [Live -> Seq(Res)]
  OBVIOUS
<1> DEFINE G == [f \in V |-> [x \in Live |-> WideStep(f, x)]]
           Eq(f) == f = [x \in Live |-> WideStep(f, x)]
           v == CHOOSE f : Eq(f)
<1>2. ASSUME NEW f \in V, NEW x \in Live PROVE WideStep(f, x) \in Seq(Res)
  <2>1. \A k : In(Kids(x), k) => f[k] \in Seq(Res)
    BY <1>1, BelowFacts
  <2> QED BY <2>1, WideStepFacts
<1>3. G \in [V -> V]
  BY <1>1, <1>2
<1>4. ASSUME NEW f \in V, NEW g \in V, NEW x \in Live, \A k : In(Kids(x), k) => f[k] = g[k]
      PROVE  G[f][x] = G[g][x]
  BY <1>4, StepLocal
<1>5. PICK f \in V : G[f] = f
  <2>1. PICK H \in [V -> V] : H = G
    <3> HIDE DEF G
    <3> QED BY <1>3
  <2>2. ByChildren(V, H)
    <3> HIDE DEF G
    <3> QED BY <1>4, <2>1 DEF ByChildren
  <2>3. TreeInd /\ Visits(V)
    BY <1>1 DEF Visits
  <2>4. Solved(V, H)
    BY ONLY <2>1, <2>2, <2>3, Visited
  <2> QED BY <2>1, <2>4 DEF Solved
<1>6. Eq(f)
  BY <1>5
<1>7. Eq(v)
  BY <1>6
<1>8. VisitWideDFS = v
  BY DEF VisitWideDFS, WideStep
<1> HIDE DEF v, G
<1> DEFINE Good == {x \in Live : WideAt(x, v[x])}
<1>9. ASSUME NEW x \in Live, \A k : In(Kids(x), k) => k \in Good PROVE x \in Good
  <2>1. \A k : In(Kids(x), k) => WideAt(k, v[k])
    BY <1>9
  <2>2. v[x] = WideStep(v, x)
    BY <1>7
  <2>3. \A k : In(Kids(x), k) => v[k] \in Seq(Res)
    BY <2>1 DEF WideAt
  <2>4. /\ WideStep(v, x) \in Seq(Res)
        /\ \A y : In(WideStep(v, x), y) <=> \/ In(Kids(x), y) /\ ~Hidden(y)
                                            \/ \E k : In(Kids(x), k) /\ In(v[k], y)
    BY <2>3, WideStepFacts
  <2>5. \A y : y \in Below(x) <=> \E k : In(Kids(x), k) /\ (y = k \/ y \in Below(k))
    BY BelowVia DEF Via
  <2>6. \A k, y : In(Kids(x), k) => (In(v[k], y) <=> y \in Below(k) /\ ~Hidden(y))
    BY <2>1 DEF WideAt
  <2>7. \A y : In(WideStep(v, x), y) <=> y \in Below(x) /\ ~Hidden(y)
    BY <2>4, <2>5, <2>6
  <2> QED BY <2>2, <2>4, <2>7 DEF WideAt
<1>10. Good = Live
  <2> HIDE DEF Good
  <2>1. Good \in SUBSET Live
    BY DEF Good
  <2> QED BY <1>9, <2>1, FromChildren
<1> QED BY <1>8, <1>10

\* Of two resources above a third one is above the other.
LEMMA AboveChain ==
  ASSUME TreeInd, NEW x \in Live, NEW a \in Above(res, x), NEW b \in Above(res, x)
  PROVE  a = b \/ a \in Above(res, b) \/ b \in Above(res, a)
<1> DEFINE Good == {y \in Live : \A c, d \in Above(res, y) :
                                     c = d \/ c \in Above(res, d) \/ d \in Above(res, c)}
<1>1. ASSUME NEW y \in Live, res[y].parent \in Good \cup {None} PROVE y \in Good
  <2> SUFFICES ASSUME NEW c \in Above(res, y), NEW d \in Above(res, y)
               PROVE  c = d \/ c \in Above(res, d) \/ d \in Above(res, c)
    OBVIOUS
  <2>1. PICK p : p = res[y].parent
    OBVIOUS
  <2>2. p /= None /\ Above(res, y) = {p} \cup Above(res, p)
    BY <2>1, BelowFacts
  <2>3. p \in Good
    BY <1>1, <2>1, <2>2
  <2> QED BY <2>2, <2>3
<1>2. Good = Live
  <2> HIDE DEF Good
  <2>1. Good \in SUBSET Live
    BY DEF Good
  <2> QED BY <1>1, <2>1, FromParents
<1> QED BY <1>2

\* x is not hidden, nor is what lies between r and x.
Open(r, x) == ~Hidden(x) /\ \A y \in Above(res, x) \cap Below(r) : ~Hidden(y)

\* A way down starts with a child that is not hidden.
LEMMA OpenVia ==
  ASSUME TreeInd, NEW r \in Live, NEW x, NEW k, Via(r, x, k)
  PROVE  Open(r, x) <=> ~Hidden(k) /\ (x = k \/ Open(k, x))
<1>1. Parented(res)
  BY IndParented DEF TreeInd
<1>2. /\ k \in Live /\ res[k].parent = r /\ r /= None /\ (x = k \/ x \in Below(k))
      /\ Above(res, k) = {r} \cup Above(res, r)
  BY BelowFacts DEF Via
<1>3. Above(res, k) \cap Below(r) = {}
  <2>1. ASSUME NEW y \in Above(res, r), r \in Above(res, y) PROVE FALSE
    BY <1>1, <2>1, AboveAbove, BelowFacts DEF Live
  <2> QED BY <1>2, <2>1, BelowFacts
<1>4. CASE x = k
  BY <1>3, <1>4 DEF Open
<1>5. CASE x \in Below(k)
  <2>1. x \in Live /\ k \in Above(res, x) /\ x /= k
    BY <1>2, <1>5, BelowFacts
  <2>2. k \in Below(r)
    BY <1>2, BelowFacts
  <2>3. Below(k) \subseteq Below(r)
    BY BelowVia DEF Via
  <2>4. ASSUME NEW y \in Above(res, x) \cap Below(r) PROVE y = k \/ y \in Below(k)
    <3>1. y \in Live /\ r \in Above(res, y)
      BY BelowFacts
    <3>2. k \notin Above(res, y) => y = k \/ y \in Above(res, k)
      BY <2>1, AboveChain
    <3>3. y \notin Above(res, k)
      BY <1>3
    <3> QED BY <3>1, <3>2, <3>3, BelowFacts
  <2>5. (Above(res, x) \cap Below(r)) = {k} \cup (Above(res, x) \cap Below(k))
    BY <2>1, <2>2, <2>3, <2>4
  <2> QED BY <2>1, <2>5 DEF Open
<1> QED BY <1>2, <1>4, <1>5

\* What a depth-first search visits below r.
DeepAt(r, t) == t \in Seq(Res) /\ \A x : In(t, x) <=> x \in Below(r) /\ Open(r, x)

\* It visits all that is below, but the hidden ones and what is below these.
LEMMA DeepFacts ==
  ASSUME TreeInd, NEW r \in Live
  PROVE  DeepAt(r, VisitDFS[r])
<1>1. PICK V : V = [Live -> Seq(Res)]
  OBVIOUS
<1> DEFINE G == [f \in V |-> [x \in Live |-> DeepStep(f, x)]]
           Eq(f) == f = [x \in Live |-> DeepStep(f, x)]
           v == CHOOSE f : Eq(f)
<1>2. ASSUME NEW f \in V, NEW x \in Live PROVE DeepStep(f, x) \in Seq(Res)
  <2>1. \A k : In(Kids(x), k) => f[k] \in Seq(Res)
    BY <1>1, BelowFacts
  <2> QED BY <2>1, DeepStepFacts
<1>3. G \in [V -> V]
  BY <1>1, <1>2
<1>4. ASSUME NEW f \in V, NEW g \in V, NEW x \in Live, \A k : In(Kids(x), k) => f[k] = g[k]
      PROVE  G[f][x] = G[g][x]
  BY <1>4, StepLocal
<1>5. PICK f \in V : G[f] = f
  <2>1. PICK H \in [V -> V] : H = G
    <3> HIDE DEF G
    <3> QED BY <1>3
  <2>2. ByChildren(V, H)
    <3> HIDE DEF G
    <3> QED BY <1>4, <2>1 DEF ByChildren
  <2>3. TreeInd /\ Visits(V)
    BY <1>1 DEF Visits
  <2>4. Solved(V, H)
    BY ONLY <2>1, <2>2, <2>3, Visited
  <2> QED BY <2>1, <2>4 DEF Solved
<1>6. Eq(f)
  BY <1>5
<1>7. Eq(v)
  BY <1>6
<1>8. VisitDFS = v
  BY DEF VisitDFS, DeepStep
<1> HIDE DEF v, G
<1> DEFINE Good == {x \in Live : DeepAt(x, v[x])}
<1>9. ASSUME NEW x \in Live, \A k : In(Kids(x), k) => k \in Good PROVE x \in Good
  <2>1. \A k : In(Kids(x), k) => DeepAt(k, v[k])
    BY <1>9
  <2>2. v[x] = DeepStep(v, x)
    BY <1>7
  <2>3. \A k : In(Kids(x), k) => v[k] \in Seq(Res)
    BY <2>1 DEF DeepAt
  <2>4. /\ DeepStep(v, x) \in Seq(Res)
        /\ \A y : In(DeepStep(v, x), y) <=>
                     \E k : In(Kids(x), k) /\ ~Hidden(k) /\ (y = k \/ In(v[k], y))
    BY <2>3, DeepStepFacts
  <2>5. \A k, y : In(Kids(x), k) => (In(v[k], y) <=> y \in Below(k) /\ Open(k, y))
    BY <2>1 DEF DeepAt
  <2>6. ASSUME NEW y PROVE In(DeepStep(v, x), y) <=> y \in Below(x) /\ Open(x, y)
    <3>1. y \in Below(x) <=> \E k : Via(x, y, k)
      BY BelowVia
    <3>2. \A k : Via(x, y, k) => (Open(x, y) <=> ~Hidden(k) /\ (y = k \/ Open(k, y)))
      BY OpenVia
    <3>3. In(DeepStep(v, x), y) <=>
             \E k : In(Kids(x), k) /\ ~Hidden(k) /\ (y = k \/ (y \in Below(k) /\ Open(k, y)))
      BY <2>4, <2>5
    <3>4. \A k : In(Kids(x), k) /\ (y = k \/ y \in Below(k)) <=> Via(x, y, k)
      BY DEF Via
    <3> QED BY <3>1, <3>2, <3>3, <3>4
  <2> QED BY <2>2, <2>4, <2>6 DEF DeepAt
<1>10. Good = Live
  <2> HIDE DEF Good
  <2>1. Good \in SUBSET Live
    BY DEF Good
  <2> QED BY <1>9, <2>1, FromChildren
<1> QED BY <1>8, <1>10

\* r with what is above it, where nothing stops a walk up.
Way(r) == Above(res, r) \cup {r}
Clear(r) == \A x \in Way(r) : res[x].parent = None \/ "up" \notin res[x].flags

\* The way up from a resource is that of its parent and one step more.
LEMMA WayFacts ==
  ASSUME TreeInd, NEW r \in Live
  PROVE  /\ res[r].parent = None => Way(r) = {r}
         /\ res[r].parent /= None => /\ res[r].parent \in Live
                                     /\ Way(r) = {r} \cup Way(res[r].parent)
BY BelowFacts DEF Way

\* One step of the walk up, with what f has for the parent.
UpStep(f, r) == IF res[r].parent = None THEN {r}
                ELSE IF CanWalkUp(r) THEN f[res[r].parent] ELSE {}

\* A walk up that nothing stops ends at a resource without a parent.
LEMMA TopFacts ==
  ASSUME TreeInd, NEW r \in Live, Clear(r)
  PROVE  \E y \in Way(r) : res[y].parent = None /\ SearchTop[r] = {y}
<1> DEFINE Eq(f) == f = [x \in Live |-> UpStep(f, x)]
           t == CHOOSE f : Eq(f)
<1>1. PICK f : f = [x \in Live |-> IF Clear(x) THEN {y \in Way(x) : res[y].parent = None} ELSE {}]
  OBVIOUS
<1>2. ASSUME NEW x \in Live PROVE f[x] = UpStep(f, x)
  <2>1. CASE res[x].parent = None
    <3>1. Way(x) = {x}
      BY <2>1, WayFacts
    <3>2. Clear(x)
      BY <2>1, <3>1 DEF Clear
    <3>3. {y \in Way(x) : res[y].parent = None} = {x}
      BY <2>1, <3>1
    <3> QED BY <1>1, <2>1, <3>2, <3>3 DEF UpStep
  <2>2. CASE res[x].parent /= None
    <3>1. PICK p \in Live : p = res[x].parent /\ Way(x) = {x} \cup Way(p)
      BY <2>2, WayFacts
    <3>2. Clear(x) <=> CanWalkUp(x) /\ Clear(p)
      BY <2>2, <3>1 DEF Clear, CanWalkUp
    <3>3. {y \in Way(x) : res[y].parent = None} = {y \in Way(p) : res[y].parent = None}
      BY <2>2, <3>1
    <3>4. f[x] = IF Clear(x) THEN {y \in Way(x) : res[y].parent = None} ELSE {}
      BY <1>1
    <3>5. f[p] = IF Clear(p) THEN {y \in Way(p) : res[y].parent = None} ELSE {}
      BY <1>1
    <3> QED BY <2>2, <3>1, <3>2, <3>3, <3>4, <3>5 DEF UpStep
  <2> QED BY <2>1, <2>2
<1>3. Eq(f)
  <2>1. f = [x \in Live |-> f[x]]
    BY <1>1
  <2> QED BY <1>2, <2>1
<1>4. Eq(t)
  BY <1>3
<1>5. SearchTop = t
  BY DEF SearchTop, UpStep
<1> HIDE DEF t
<1> DEFINE Good == {x \in Live : Clear(x) => \E y \in Way(x) : res[y].parent = None /\ t[x] = {y}}
<1>6. ASSUME NEW x \in Live, res[x].parent \in Good \cup {None} PROVE x \in Good
  <2>1. t[x] = UpStep(t, x)
    BY <1>4
  <2>2. CASE res[x].parent = None
    BY <2>1, <2>2 DEF UpStep, Way
  <2>3. CASE res[x].parent /= None
    <3>1. PICK p \in Live : p = res[x].parent /\ Way(x) = {x} \cup Way(p)
      BY <2>3, WayFacts
    <3>2. Clear(x) => CanWalkUp(x) /\ Clear(p)
      BY <2>3, <3>1 DEF Clear, CanWalkUp
    <3>3. CanWalkUp(x) => t[x] = t[p]
      BY <2>1, <2>3, <3>1 DEF UpStep
    <3>4. Clear(p) => \E y \in Way(p) : res[y].parent = None /\ t[p] = {y}
      BY <1>6, <2>3, <3>1
    <3> QED BY <3>1, <3>2, <3>3, <3>4
  <2> QED BY <2>2, <2>3
<1>7. Good = Live
  <2> HIDE DEF Good
  <2>1. Good \in SUBSET Live
    BY DEF Good
  <2> QED BY <1>6, <2>1, FromParents
<1> QED BY <1>5, <1>7

\* A search from the top finds what is shown at and below r, but the top itself.
LEMMA GenusFacts ==
  ASSUME TreeInd, NEW r \in Live, Clear(r), NEW x \in Below(r) \cup {r},
         ~Hidden(x), res[x].parent /= None
  PROVE  x \in Range(SearchGenus(r))
<1>1. PICK y \in Way(r) : res[y].parent = None /\ SearchTop[r] = {y}
  BY TopFacts
<1>2. y \in Live /\ x \in Live /\ Parented(res)
  <2>1. Parented(res)
    BY IndParented DEF TreeInd
  <2> QED BY <2>1, BelowFacts, AboveFacts DEF Way, Live
<1>3. (CHOOSE z \in {y} : TRUE) = y
  OBVIOUS
<1>4. SearchGenus(r) = VisitWideDFS[y]
  BY <1>1, <1>3 DEF SearchGenus
<1>5. x \in Below(y)
  <2>1. x = y \/ y \in Above(res, x)
    <3>1. CASE x = r
      BY <1>1, <3>1 DEF Way
    <3>2. CASE x \in Below(r)
      <4>1. r \in Above(res, x)
        BY <3>2, BelowFacts
      <4>2. Above(res, r) \subseteq Above(res, x)
        BY <1>2, <4>1, AboveAbove DEF Live
      <4> QED BY <1>1, <4>1, <4>2 DEF Way
    <3> QED BY <3>1, <3>2
  <2> QED BY <1>1, <1>2, <2>1, BelowFacts
<1>6. WideAt(y, VisitWideDFS[y])
  BY <1>2, WideFacts
<1> QED BY <1>4, <1>5, <1>6, RangeIn DEF WideAt

\* A search among the siblings leaves out the resource itself.
LEMMA SibFacts ==
  ASSUME TreeInd, NEW r \in Live
  PROVE  r \notin Range(SearchSib(r))
<1>1. CASE CanWalkUp(r)
  <2>1. PICK p \in Live : p = res[r].parent
    BY <1>1, BelowFacts DEF CanWalkUp
  <2>2. PICK s \in Seq(Res) : s = Shown(Kids(p))
    BY <2>1, BelowFacts, ShownFacts
  <2>3. PICK k \in Seq(Res) : k = Kept(s, {r}) /\ ~In(k, r)
    BY KeptFacts
  <2>4. SearchSib(r) = k
    BY <1>1, <2>1, <2>2, <2>3 DEF SearchSib
  <2> QED BY <2>3, <2>4, RangeIn
<1>2. CASE ~CanWalkUp(r)
  <2>1. SearchSib(r) = << >>
    BY <1>2 DEF SearchSib
  <2>2. << >> \in Seq(Res) /\ ~In(<< >>, r)
    BY DEF In
  <2> QED BY <2>1, <2>2, RangeIn
<1> QED BY <1>1, <1>2

\* The two ways down and the search from the top and among the siblings find what they should.
LEMMA SearchFacts ==
  ASSUME TreeInd PROVE SearchesReach
<1>1. ASSUME NEW r \in Live PROVE Range(VisitWideDFS[r]) = {x \in Below(r) : ~Hidden(x)}
  <2>1. PICK s : s = VisitWideDFS[r]
    OBVIOUS
  <2>2. s \in Seq(Res) /\ \A x : In(s, x) <=> x \in Below(r) /\ ~Hidden(x)
    BY <1>1, <2>1, WideFacts DEF WideAt
  <2>3. \A x : x \in Range(s) <=> x \in Below(r) /\ ~Hidden(x)
    BY <2>2, RangeIn
  <2> QED BY <2>1, <2>3
<1>2. ASSUME NEW r \in Live
      PROVE  Range(VisitDFS[r]) = {x \in Below(r) : ~Hidden(x) /\
                                      \A y \in Ancestors(x) \cap Below(r) : ~Hidden(y)}
  <2>1. PICK s : s = VisitDFS[r]
    OBVIOUS
  <2>2. s \in Seq(Res) /\ \A x : In(s, x) <=> x \in Below(r) /\ Open(r, x)
    BY <1>2, <2>1, DeepFacts DEF DeepAt
  <2>3. \A x : x \in Range(s) <=> x \in Below(r) /\ Open(r, x)
    BY <2>2, RangeIn
  <2>4. \A x \in Below(r) : Ancestors(x) = Above(res, x)
    BY BelowFacts
  <2>5. \A x \in Below(r) : Open(r, x) <=>
           ~Hidden(x) /\ \A y \in Ancestors(x) \cap Below(r) : ~Hidden(y)
    BY <2>4 DEF Open
  <2> QED BY <2>1, <2>3, <2>5
<1>3. ASSUME NEW r \in Live, \A x \in (Ancestors(r) \cup {r}) : "up" \notin res[x].flags
      PROVE  \A x \in Below(r) \cup {r} : x \in Range(SearchGenus(r))
                                           \/ Hidden(x) \/ res[x].parent = None
  <2>1. Ancestors(r) = Above(res, r)
    BY <1>3, BelowFacts
  <2>2. Clear(r)
    BY <1>3, <2>1 DEF Clear, Way
  <2> QED BY <1>3, <2>2, GenusFacts
<1>4. \A r \in Live : r \notin Range(SearchSib(r))
  BY SibFacts
<1> QED BY <1>1, <1>2, <1>3, <1>4 DEF SearchesReach

\* A search from a resource finds all that is below it but the hidden ones, a plain depth-first
\* one stays out of what these hide, one from the top reaches all that a walk up reaches it from,
\* and one among the siblings leaves the resource out (sid_res_search).
THEOREM SearchesComplete == Spec => []SearchesReach
<1>1. TreeInd => SearchesReach
  BY SearchFacts
<1> QED BY <1>1, TreeInvariance, PTL
=============================================================================
