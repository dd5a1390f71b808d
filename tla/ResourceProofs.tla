--------------------------- MODULE ResourceProofs ---------------------------
(***************************************************************************)
(* The reference counts of Resource for any trees, any number of resources *)
(* and iterators: every reference is accounted for, and nothing names a    *)
(* resource that is gone.                                                  *)
(*                                                                         *)
(* The core is what the destruction of a resource takes along: Doomed is   *)
(* the least set that nothing outside loses its last reference to, so each *)
(* of its members but the first had all of its references from inside.     *)
(***************************************************************************)
EXTENDS Resource, FiniteSetTheorems, SequenceTheorems, TLAPS

IterFields == {"res", "owner", "refd", "cur", "prev", "next", "dir", "toSee", "seen"}
SrcFields == {"res", "kind", "fired", "max", "on"}

\* The resources whose init functions run.
InMaking == Range(creating)

Types ==
    /\ Live \subseteq Res /\ loose \subseteq Live
    /\ \A x \in Live : /\ DOMAIN res[x] = Fields
                       /\ res[x].refs \in Nat /\ res[x].held \in Nat /\ res[x].ready \in BOOLEAN
    /\ DOMAIN iter \subseteq Iters
    /\ \A i \in DOMAIN iter : DOMAIN iter[i] = IterFields /\ iter[i].refd \in BOOLEAN
    /\ \A e \in DOMAIN src : DOMAIN src[e] = SrcFields

\* Creations nest: each resource is created once.
Nested ==
    /\ creating \in Seq(Res)
    /\ \A i, j \in 1..Len(creating) : creating[i] = creating[j] => i = j

\* A resource that is not ready is being created, and nobody holds it yet.
Making ==
    /\ InMaking \subseteq Live
    /\ \A x \in Live : res[x].ready <=> x \notin InMaking
    /\ \A x \in Live : ~res[x].ready => res[x].held = 0 /\ Walks(x) = {}

\* Only the iterator of a resource over itself holds no reference.
Unheld == \A i \in DOMAIN iter : ~iter[i].refd => iter[i].owner = iter[i].res

IndInv == Types /\ Nested /\ Making /\ Unheld /\ NothingDangles /\ CountsExact
-----------------------------------------------------------------------------
(***************************************************************************)
(* What destruction takes along.                                           *)
(***************************************************************************)

\* The references of x that iterators hold are finitely many.
LEMMA WalksFinite ==
  ASSUME Types, NEW x, NEW A \in SUBSET Walks(x)
  PROVE  /\ IsFiniteSet(Walks(x)) /\ Cardinality(Walks(x)) \in Nat
         /\ IsFiniteSet(A) /\ Cardinality(A) \in Nat /\ Cardinality(A) <= Cardinality(Walks(x))
         /\ Cardinality(A) = Cardinality(Walks(x)) => A = Walks(x)
<1>1. Walks(x) \in SUBSET Iters
  BY DEF Types, Walks
<1>2. IsFiniteSet(Walks(x))
  BY <1>1, ItersAssumption, FS_Subset
<1>3. IsFiniteSet(A) /\ Cardinality(A) <= Cardinality(Walks(x))
      /\ (Cardinality(A) = Cardinality(Walks(x)) => A = Walks(x))
  BY <1>2, FS_Subset
<1>4. Cardinality(A) \in Nat /\ Cardinality(Walks(x)) \in Nat
  BY <1>2, <1>3, FS_CardinalityType
<1> QED BY <1>2, <1>3, <1>4

\* The references of x that iterators of resources in D hold.
Owned(D, x) == {i \in Walks(x) : iter[i].owner \in D}

\* The reference of a parent.
ByParent(x) == IF res[x].parent = None THEN 0 ELSE 1

\* The parent and the iterators are not more than what is counted.
Covered == \A x \in Live : res[x].refs \in Nat /\ ByParent(x) + Cardinality(Walks(x)) <= res[x].refs

\* Exact counts cover the references that destruction takes away.
LEMMA IndCovered == IndInv => Covered
<1> SUFFICES ASSUME IndInv, NEW x \in Live
             PROVE  res[x].refs \in Nat /\ ByParent(x) + Cardinality(Walks(x)) <= res[x].refs
  BY DEF Covered
<1>1. Cardinality(Walks(x)) \in Nat
  BY WalksFinite DEF IndInv
<1>2. res[x].refs \in Nat /\ res[x].held \in Nat
  BY DEF IndInv, Types
<1> DEFINE c == IF x \in Range(creating) THEN 1 ELSE 0
<1>3. c \in Nat
  OBVIOUS
<1>4. res[x].refs = ByParent(x) + (res[x].held + Cardinality(Walks(x))) + c
  BY DEF IndInv, CountsExact, Holders, ByParent
<1>5. ByParent(x) \in Nat
  BY DEF ByParent
<1> HIDE DEF c
<1> QED BY <1>1, <1>2, <1>3, <1>4, <1>5

\* What x loses with D is part of what it has, and more with more.
LEMMA LostFacts ==
  ASSUME Types, NEW x \in Live, NEW D \in SUBSET Live
  PROVE  /\ Lost(D, x) \in Nat /\ Lost(D, x) <= ByParent(x) + Cardinality(Walks(x))
         /\ Lost(D, x) = ByParent(x) + Cardinality(Walks(x)) =>
               /\ res[x].parent \in D \cup {None}
               /\ \A i \in Walks(x) : iter[i].owner \in D
         /\ \A E \in SUBSET D : Lost(E, x) <= Lost(D, x)
<1>1. None \notin Live
  BY ResAssumption DEF Types, None
<1>2. /\ Cardinality(Walks(x)) \in Nat
      /\ Cardinality(Owned(D, x)) \in Nat /\ Cardinality(Owned(D, x)) <= Cardinality(Walks(x))
      /\ Cardinality(Owned(D, x)) = Cardinality(Walks(x)) => Owned(D, x) = Walks(x)
  BY WalksFinite DEF Owned
<1>3. Lost(D, x) = (IF res[x].parent \in D THEN 1 ELSE 0) + Cardinality(Owned(D, x))
  BY DEF Lost, Owned
<1>4. /\ Lost(D, x) \in Nat /\ Lost(D, x) <= ByParent(x) + Cardinality(Walks(x))
      /\ Lost(D, x) = ByParent(x) + Cardinality(Walks(x)) =>
            res[x].parent \in D \cup {None} /\ Owned(D, x) = Walks(x)
  BY <1>1, <1>2, <1>3 DEF ByParent
<1>5. ASSUME NEW E \in SUBSET D PROVE Lost(E, x) <= Lost(D, x)
  <2>1. IsFiniteSet(Owned(D, x))
    BY WalksFinite DEF Owned
  <2>2. Owned(E, x) \in SUBSET Owned(D, x)
    BY DEF Owned
  <2>3. Cardinality(Owned(E, x)) <= Cardinality(Owned(D, x))
    BY <2>1, <2>2, FS_Subset
  <2>4. Cardinality(Owned(E, x)) \in Nat
    BY WalksFinite DEF Owned
  <2>5. Lost(E, x) = (IF res[x].parent \in E THEN 1 ELSE 0) + Cardinality(Owned(E, x))
    BY DEF Lost, Owned
  <2> QED BY <1>2, <1>3, <2>3, <2>4, <2>5
<1> QED BY <1>4, <1>5 DEF Owned

\* Doomed(r) is closed, and everything in it but r has lost all it had by the rest of it.
LEMMA DoomedFacts ==
  ASSUME Types, Covered, NEW r \in Live
  PROVE  /\ r \in Doomed(r) /\ Doomed(r) \in SUBSET Live
         /\ Closed(Doomed(r))
         /\ \A x \in Doomed(r) \ {r} :
               Lost(Doomed(r), x) > 0 /\ res[x].refs = Lost(Doomed(r), x)
<1> DEFINE D == Doomed(r)
<1>1. r \in D /\ D \in SUBSET Live
  BY DEF Doomed
<1>2. \A x \in Live, E \in SUBSET Live : Lost(E, x) \in Nat /\ res[x].refs \in Nat
                                         /\ Lost(E, x) <= res[x].refs
  <2> SUFFICES ASSUME NEW x \in Live, NEW E \in SUBSET Live
               PROVE  Lost(E, x) \in Nat /\ res[x].refs \in Nat /\ Lost(E, x) <= res[x].refs
    OBVIOUS
  <2>1. Lost(E, x) \in Nat /\ Lost(E, x) <= ByParent(x) + Cardinality(Walks(x))
    BY LostFacts
  <2>2. Cardinality(Walks(x)) \in Nat /\ ByParent(x) \in Nat
    BY WalksFinite DEF ByParent
  <2> QED BY <2>1, <2>2 DEF Covered
<1>3. \A E, F \in SUBSET Live, x \in Live : E \subseteq F => Lost(E, x) <= Lost(F, x)
  BY LostFacts
<1>4. \A E \in SUBSET Live : r \in E /\ Closed(E) => D \subseteq E
  BY DEF Doomed
<1> HIDE DEF D
<1>5. Closed(D)
  <2> SUFFICES ASSUME NEW x \in Live, x \notin D, Lost(D, x) > 0, res[x].refs = Lost(D, x)
               PROVE  FALSE
    BY DEF Closed
  <2>1. PICK E \in SUBSET Live : r \in E /\ Closed(E) /\ x \notin E
    BY DEF D, Doomed
  <2>2. D \subseteq E
    BY <1>4, <2>1
  <2>3. Lost(D, x) <= Lost(E, x)
    BY <1>1, <1>3, <2>2
  <2>4. Lost(E, x) = res[x].refs /\ Lost(E, x) > 0
    BY <1>1, <1>2, <2>3
  <2> QED BY <2>1, <2>4 DEF Closed
<1>6. ASSUME NEW x \in D, x /= r, ~(Lost(D, x) > 0 /\ res[x].refs = Lost(D, x))
      PROVE  FALSE
  <2> DEFINE E == D \ {x}
  <2>1. E \in SUBSET Live /\ r \in E /\ E \subseteq D
    BY <1>1, <1>6
  <2>2. Closed(E)
    <3> SUFFICES ASSUME NEW y \in Live, y \notin E, Lost(E, y) > 0, res[y].refs = Lost(E, y)
                 PROVE  FALSE
      BY DEF Closed
    <3>1. Lost(E, y) <= Lost(D, y)
      BY <1>1, <1>3, <2>1
    <3>2. Lost(D, y) > 0 /\ res[y].refs = Lost(D, y)
      BY <1>1, <1>2, <2>1, <3>1
    <3>3. y /= x
      BY <1>6, <3>2
    <3>4. y \notin D
      BY <3>3
    <3> QED BY <1>5, <3>2, <3>4 DEF Closed
  <2>3. D \subseteq E
    BY <1>4, <2>1, <2>2
  <2> QED BY <2>3
<1> QED BY <1>1, <1>5, <1>6 DEF D

\* A resource that goes with another one had nobody else: all of its references are from inside
\* of what goes.
LEMMA DoomedInside ==
  ASSUME IndInv, NEW r \in Live, NEW x \in Doomed(r) \ {r}
  PROVE  /\ res[x].parent \in Doomed(r) \cup {None}
         /\ \A i \in Walks(x) : iter[i].owner \in Doomed(r)
         /\ x \notin InMaking
<1> DEFINE D == Doomed(r)
<1>1. /\ D \in SUBSET Live /\ x \in Live
      /\ res[x].refs = Lost(D, x)
  BY IndCovered, DoomedFacts DEF IndInv
<1>2. Lost(D, x) <= ByParent(x) + Cardinality(Walks(x)) /\ Lost(D, x) \in Nat
  BY <1>1, LostFacts DEF IndInv
<1>3. Cardinality(Walks(x)) \in Nat /\ ByParent(x) \in Nat
  BY WalksFinite DEF IndInv, ByParent
<1>4. res[x].held \in Nat /\ res[x].refs \in Nat
  BY <1>1 DEF IndInv, Types
<1> DEFINE c == IF x \in Range(creating) THEN 1 ELSE 0
<1>5. res[x].refs = ByParent(x) + (res[x].held + Cardinality(Walks(x))) + c
  BY <1>1 DEF IndInv, CountsExact, Holders, ByParent
<1>6. Lost(D, x) = ByParent(x) + Cardinality(Walks(x)) /\ c = 0
  <2>1. c \in {0, 1}
    OBVIOUS
  <2> HIDE DEF c, D
  <2> QED BY <1>1, <1>2, <1>3, <1>4, <1>5, <2>1
<1>7. x \notin InMaking
  BY <1>6 DEF InMaking
<1>8. res[x].parent \in D \cup {None} /\ \A i \in Walks(x) : iter[i].owner \in D
  BY <1>1, <1>6, LostFacts DEF IndInv
<1> QED BY <1>7, <1>8

\* r goes when nothing but its parent, its creator or the iterators that are gone held it.
Released(r, gone) ==
    /\ gone \in SUBSET DOMAIN iter /\ \A i \in gone : iter[i].res = r
    /\ Walks(r) \subseteq gone
    /\ InMaking' = InMaking \ {r}
    /\ Nested'

\* The survivors of a destruction.
LEMMA DestroyedState ==
  ASSUME IndInv, NEW r \in Live, NEW gone, Released(r, gone), DestroyAll(Doomed(r), gone)
  PROVE  /\ Live' = Live \ Doomed(r)
         /\ \A x \in Live' :
               /\ DOMAIN res'[x] = Fields
               /\ res'[x].refs = res[x].refs - Lost(Doomed(r), x)
               /\ res'[x].parent = IF res[x].parent \in Doomed(r) THEN None ELSE res[x].parent
               /\ res'[x].held = res[x].held /\ res'[x].ready = res[x].ready
         /\ DOMAIN iter' = {j \in DOMAIN iter \ gone : iter[j].owner \notin Doomed(r)}
         /\ \A i \in DOMAIN iter' : iter'[i] = iter[i]
         /\ DOMAIN src' = {f \in DOMAIN src : src[f].res \notin Doomed(r)}
         /\ \A e \in DOMAIN src' : src'[e] = src[e]
         /\ loose' = loose \ Doomed(r)
<1> DEFINE D == Doomed(r)
<1>1. D \in SUBSET Live
  BY IndCovered, DoomedFacts DEF IndInv
<1> HIDE DEF D
<1>2. res' = [x \in Live \ D |-> [res[x] EXCEPT !.refs = @ - Lost(D, x),
                                                !.parent = IF @ \in D THEN None ELSE @,
                                                !.kids = Kept(@, D)]]
  BY DEF DestroyAll, D
<1>3. Live' = Live \ D
  BY <1>2 DEF Live
<1>4. ASSUME NEW x \in Live'
      PROVE  /\ DOMAIN res'[x] = Fields
             /\ res'[x].refs = res[x].refs - Lost(D, x)
             /\ res'[x].parent = IF res[x].parent \in D THEN None ELSE res[x].parent
             /\ res'[x].held = res[x].held /\ res'[x].ready = res[x].ready
  <2>1. x \in Live /\ DOMAIN res[x] = Fields
    BY <1>3 DEF IndInv, Types
  <2>2. res'[x] = [res[x] EXCEPT !.refs = @ - Lost(D, x),
                                 !.parent = IF @ \in D THEN None ELSE @,
                                 !.kids = Kept(@, D)]
    BY <1>2, <1>3
  <2> QED BY <2>1, <2>2 DEF Fields
<1> QED BY <1>3, <1>4 DEF DestroyAll, D

\* What is left of the iterators over a survivor.
LEMMA SurvivorWalks ==
  ASSUME IndInv, NEW r \in Live, NEW gone, Released(r, gone), DestroyAll(Doomed(r), gone),
         NEW x \in Live'
  PROVE  /\ Walks(x)' = Walks(x) \ Owned(Doomed(r), x)
         /\ Cardinality(Walks(x)') = Cardinality(Walks(x)) - Cardinality(Owned(Doomed(r), x))
<1> DEFINE D == Doomed(r)
<1>1. r \in D /\ x \in Live \ D
  BY IndCovered, DoomedFacts, DestroyedState DEF IndInv
<1>2. /\ DOMAIN iter' = {j \in DOMAIN iter \ gone : iter[j].owner \notin D}
      /\ \A i \in DOMAIN iter' : iter'[i] = iter[i]
  BY DestroyedState
<1>3. \A i \in gone : iter[i].res /= x
  BY <1>1 DEF Released
<1> HIDE DEF D
<1>4. Walks(x)' = Walks(x) \ Owned(D, x)
  BY <1>2, <1>3 DEF Walks, Owned
<1>5. Owned(D, x) = Walks(x) \cap Owned(D, x)
  BY DEF Owned
<1>6. IsFiniteSet(Walks(x))
  BY WalksFinite DEF IndInv
<1>7. Cardinality(Walks(x) \ Owned(D, x)) = Cardinality(Walks(x)) - Cardinality(Owned(D, x))
  BY <1>5, <1>6, FS_Difference
<1> QED BY <1>4, <1>7 DEF D

\* The count of a resource, with its parts named.
Balanced(x) ==
    res[x].refs = ByParent(x) + (res[x].held + Cardinality(Walks(x)))
                      + (IF x \in InMaking THEN 1 ELSE 0)

\* CountsExact, one resource at a time.
LEMMA RefsParts ==
  CountsExact <=> \A x \in Live : Balanced(x) /\ (res[x].refs = 0 <=> x \in loose)
BY DEF CountsExact, Balanced, Holders, ByParent, InMaking

\* Destroying a resource that nobody else holds keeps every count exact.
LEMMA DestroyInd ==
  ASSUME IndInv, NEW r \in Live, NEW gone, Released(r, gone), DestroyAll(Doomed(r), gone)
  PROVE  IndInv'
<1> DEFINE D == Doomed(r)
<1>1. /\ r \in D /\ D \in SUBSET Live /\ Closed(D)
  BY IndCovered, DoomedFacts DEF IndInv
<1>2. Live' = Live \ D
  BY DestroyedState
<1>3. /\ DOMAIN iter' = {j \in DOMAIN iter \ gone : iter[j].owner \notin D}
      /\ \A i \in DOMAIN iter' : iter'[i] = iter[i]
      /\ DOMAIN src' = {f \in DOMAIN src : src[f].res \notin D}
      /\ \A e \in DOMAIN src' : src'[e] = src[e]
      /\ loose' = loose \ D
  BY DestroyedState
<1>4. \A x \in Live' :
         /\ DOMAIN res'[x] = Fields
         /\ res'[x].refs = res[x].refs - Lost(D, x)
         /\ res'[x].parent = IF res[x].parent \in D THEN None ELSE res[x].parent
         /\ res'[x].held = res[x].held /\ res'[x].ready = res[x].ready
  BY DestroyedState
<1>5. \A x \in Live' : /\ Walks(x)' = Walks(x) \ Owned(D, x)
                       /\ Cardinality(Walks(x)') = Cardinality(Walks(x)) - Cardinality(Owned(D, x))
  BY SurvivorWalks
<1>6. \A x \in D \ {r} : /\ \A i \in Walks(x) : iter[i].owner \in D
                         /\ x \notin InMaking
  BY DoomedInside
<1> HIDE DEF D
<1>7. \A x \in Live' : /\ Lost(D, x) \in Nat /\ Lost(D, x) <= res[x].refs /\ res[x].refs \in Nat
                       /\ res[x].held \in Nat
                       /\ Cardinality(Walks(x)) \in Nat /\ Cardinality(Owned(D, x)) \in Nat
                       /\ Lost(D, x) = (IF res[x].parent \in D THEN 1 ELSE 0) + Cardinality(Owned(D, x))
  <2> SUFFICES ASSUME NEW x \in Live, x \notin D
               PROVE  /\ Lost(D, x) \in Nat /\ Lost(D, x) <= res[x].refs /\ res[x].refs \in Nat
                      /\ res[x].held \in Nat
                      /\ Cardinality(Walks(x)) \in Nat /\ Cardinality(Owned(D, x)) \in Nat
                      /\ Lost(D, x) = (IF res[x].parent \in D THEN 1 ELSE 0)
                                      + Cardinality(Owned(D, x))
    BY <1>2
  <2>1. Lost(D, x) \in Nat /\ Lost(D, x) <= ByParent(x) + Cardinality(Walks(x))
    BY <1>1, LostFacts DEF IndInv
  <2>2. Cardinality(Walks(x)) \in Nat /\ Cardinality(Owned(D, x)) \in Nat
    BY WalksFinite DEF IndInv, Owned
  <2>3. res[x].refs \in Nat /\ ByParent(x) + Cardinality(Walks(x)) <= res[x].refs
    BY IndCovered DEF Covered
  <2>4. res[x].held \in Nat
    BY DEF IndInv, Types
  <2>5. Lost(D, x) = (IF res[x].parent \in D THEN 1 ELSE 0) + Cardinality(Owned(D, x))
    BY DEF Lost, Owned
  <2>6. ByParent(x) \in Nat
    BY DEF ByParent
  <2> QED BY <2>1, <2>2, <2>3, <2>4, <2>5, <2>6
<1>8. Types'
  BY <1>2, <1>3, <1>4, <1>7 DEF IndInv, Types
<1>9. Making'
  <2>1. InMaking' = InMaking \ {r}
    BY DEF Released
  <2>2. InMaking' \subseteq Live'
    BY <1>2, <1>6, <2>1 DEF IndInv, Making
  <2>3. \A x \in Live' : (res[x].ready)' <=> x \notin InMaking'
    BY <1>1, <1>2, <1>4, <2>1 DEF IndInv, Making
  <2>4. \A x \in Live' : ~res'[x].ready => res'[x].held = 0 /\ Walks(x)' = {}
    BY <1>2, <1>4, <1>5 DEF IndInv, Making
  <2> QED BY <2>2, <2>3, <2>4 DEF Making
<1>10. Unheld'
  BY <1>3 DEF IndInv, Unheld
<1>11. NothingDangles'
  <2>1. \A x \in Live' : res'[x].parent \in Live' \cup {None}
    BY <1>2, <1>4 DEF IndInv, NothingDangles
  <2>2. ASSUME NEW i \in DOMAIN iter'
        PROVE  iter'[i].res \in Live' /\ iter'[i].owner \in Live' \cup {Outside}
    <3>1. i \in DOMAIN iter /\ i \notin gone /\ iter[i].owner \notin D /\ iter'[i] = iter[i]
      BY <1>3
    <3>2. iter[i].res \in Live /\ iter[i].owner \in Live \cup {Outside}
      BY <3>1 DEF IndInv, NothingDangles
    <3>3. iter[i].res \notin D
      <4>1. CASE iter[i].refd
        BY <1>6, <3>1, <4>1 DEF Walks, Released
      <4>2. CASE ~iter[i].refd
        BY <3>1, <4>2 DEF IndInv, Unheld
      <4> QED BY <4>1, <4>2
    <3> QED BY <1>2, <3>1, <3>2, <3>3
  <2>3. \A e \in DOMAIN src' : src'[e].res \in Live'
    BY <1>2, <1>3 DEF IndInv, NothingDangles
  <2> QED BY <2>1, <2>2, <2>3 DEF NothingDangles
<1>12. CountsExact'
  <2> SUFFICES ASSUME NEW x \in Live'
               PROVE  Balanced(x)' /\ ((res[x].refs = 0)' <=> x \in loose')
    BY DEF CountsExact, Balanced, Holders, ByParent, InMaking
  <2>1. x \in Live /\ x \notin D /\ x /= r
    BY <1>1, <1>2
  <2>2. Balanced(x) /\ (res[x].refs = 0 <=> x \in loose)
    BY <2>1, RefsParts DEF IndInv
  <2>3. x \in InMaking' <=> x \in InMaking
    BY <2>1 DEF Released
  <2>4. None \notin D
    BY <1>1, ResAssumption DEF IndInv, Types, None
  <2>5. Balanced(x)'
    BY <1>4, <1>5, <1>7, <2>2, <2>3, <2>4 DEF Balanced, ByParent
  <2>6. res'[x].refs = 0 <=> x \in loose'
    <3>1. Lost(D, x) > 0 => res[x].refs /= Lost(D, x)
      BY <1>1, <2>1 DEF Closed
    <3> QED BY <1>3, <1>4, <1>7, <2>1, <2>2, <3>1
  <2> QED BY <2>5, <2>6
<1> QED BY <1>8, <1>9, <1>10, <1>11, <1>12 DEF IndInv, Released
-----------------------------------------------------------------------------
(***************************************************************************)
(* The operations.                                                         *)
(***************************************************************************)

\* What an operation that moves resources or counts references leaves true of one.
Rebalanced(x) ==
    /\ DOMAIN res'[x] = Fields
    /\ res'[x].refs \in Nat /\ res'[x].held \in Nat /\ res'[x].ready = res[x].ready
    /\ res'[x].parent \in Live \cup {None}
    /\ res'[x].held > 0 => res[x].ready
    /\ res'[x].refs - ByParent(x)' - res'[x].held = res[x].refs - ByParent(x) - res[x].held
    /\ res'[x].refs = 0 <=> x \in loose'

\* A step that leaves every count balanced and destroys nothing.
LEMMA RebalancedInd ==
  ASSUME IndInv, Live' = Live, \A x \in Live : Rebalanced(x), loose' \subseteq Live,
         UNCHANGED <<iter, creating>>,
         \A e \in DOMAIN src' : DOMAIN src'[e] = SrcFields /\ src'[e].res \in Live
  PROVE  IndInv'
<1>1. Types'
  BY DEF IndInv, Types, Rebalanced, Making
<1>2. Nested'
  BY DEF IndInv, Nested
<1>3. InMaking' = InMaking /\ \A x : Walks(x)' = Walks(x)
  BY DEF InMaking, Walks
<1>4. Making'
  BY <1>3 DEF IndInv, Types, Making, Rebalanced
<1>5. Unheld'
  BY DEF IndInv, Unheld
<1>6. NothingDangles'
  BY DEF IndInv, NothingDangles, Rebalanced
<1>7. CountsExact'
  <2> SUFFICES ASSUME NEW x \in Live
               PROVE  Balanced(x)' /\ ((res[x].refs = 0)' <=> x \in loose')
    BY DEF CountsExact, Balanced, Holders, ByParent, InMaking
  <2>1. Balanced(x)
    BY RefsParts DEF IndInv
  <2>2. Cardinality(Walks(x)) \in Nat /\ res[x].refs \in Nat /\ res[x].held \in Nat
    BY WalksFinite DEF IndInv, Types
  <2>3. ByParent(x) \in Nat /\ ByParent(x)' \in Nat
    BY DEF ByParent
  <2>4. /\ res'[x].refs \in Nat /\ res'[x].held \in Nat
        /\ res'[x].refs - ByParent(x)' - res'[x].held = res[x].refs - ByParent(x) - res[x].held
        /\ res'[x].refs = 0 <=> x \in loose'
    BY DEF Rebalanced
  <2>5. Balanced(x)'
    BY <1>3, <2>1, <2>2, <2>3, <2>4 DEF Balanced
  <2> QED BY <2>4, <2>5
<1> QED BY <1>1, <1>2, <1>4, <1>5, <1>6, <1>7 DEF IndInv

\* The same when only iterators move or sources change.
LEMMA QuietInd ==
  ASSUME IndInv, UNCHANGED <<res, creating, loose>>, DOMAIN iter' = DOMAIN iter,
         \A i \in DOMAIN iter : /\ DOMAIN iter'[i] = IterFields
                                /\ iter'[i].res = iter[i].res /\ iter'[i].owner = iter[i].owner
                                /\ iter'[i].refd = iter[i].refd,
         \A e \in DOMAIN src' : DOMAIN src'[e] = SrcFields /\ src'[e].res \in Live
  PROVE  IndInv'
<1>1. Types'
  BY DEF IndInv, Types, Live
<1>2. Nested'
  BY DEF IndInv, Nested
<1>3. InMaking' = InMaking /\ \A x : Walks(x)' = Walks(x)
  BY DEF InMaking, Walks
<1>4. Making'
  BY <1>3 DEF IndInv, Making, Live
<1>5. Unheld'
  BY DEF IndInv, Unheld
<1>6. NothingDangles'
  BY DEF IndInv, NothingDangles, Live
<1>7. CountsExact'
  BY <1>3, RefsParts DEF IndInv, CountsExact, Holders, InMaking, Live
<1> QED BY <1>1, <1>2, <1>4, <1>5, <1>6, <1>7 DEF IndInv

\* The invariant holds initially.
LEMMA InitInd == Init => IndInv
<1> SUFFICES ASSUME Init PROVE IndInv
  OBVIOUS
<1>1. /\ Live \subseteq Res
      /\ \A r \in Live : /\ DOMAIN res[r] = Fields
                         /\ res[r].parent \in Live \cup {None}
                         /\ res[r].refs = (IF res[r].parent = None THEN 0 ELSE 1)
                         /\ res[r].held = 0 /\ res[r].ready = TRUE
  BY StartsAssumption DEF Init, Live
<1>2. DOMAIN iter = {} /\ DOMAIN src = {} /\ creating = << >>
  <2>1. << >> \in Seq({}) /\ Len(<< >>) = 0
    OBVIOUS
  <2>2. DOMAIN << >> = {}
    BY <2>1, LenProperties
  <2> QED BY <2>2 DEF Init
<1>3. InMaking = {} /\ Len(creating) = 0
  BY <1>2 DEF InMaking, Range
<1>4. \A x : Walks(x) = {} /\ Cardinality(Walks(x)) = 0
  BY <1>2, FS_EmptySet DEF Walks
<1>5. Types /\ Unheld
  <2>1. \A x \in Live : res[x].refs \in Nat /\ res[x].held \in Nat
    BY <1>1
  <2>2. \A x \in Live : res[x].ready \in BOOLEAN
    BY <1>1
  <2>4. loose \subseteq Live
    BY DEF Init
  <2>3. Types
    BY <1>1, <1>2, <2>1, <2>2, <2>4, Zenon DEF Types
  <2> QED BY <1>2, <2>3 DEF Unheld
<1>6. Making /\ NothingDangles
  <2>1. Making
    BY <1>1, <1>3, <1>4 DEF Making
  <2>2. NothingDangles
    BY <1>1, <1>2 DEF NothingDangles
  <2> QED BY <2>1, <2>2
<1>8. Nested
  BY <1>2 DEF Nested
<1>7. CountsExact
  <2>1. loose = {r \in Live : res[r].refs = 0}
    BY DEF Init
  <2> QED BY <1>1, <1>3, <1>4, <2>1, RefsParts DEF Balanced, ByParent
<1> QED BY <1>5, <1>6, <1>7, <1>8 DEF IndInv

\* A resource that is ready is not being created.
LEMMA LiveFacts ==
  ASSUME IndInv, NEW r \in Live
  PROVE  /\ r \in Res /\ r /= None /\ DOMAIN res[r] = Fields
         /\ res[r].refs \in Nat /\ res[r].held \in Nat /\ res[r].ready \in BOOLEAN
         /\ res[r].parent \in Live \cup {None}
         /\ res[r].ready <=> r \notin InMaking
         /\ Cardinality(Walks(r)) \in Nat /\ (Cardinality(Walks(r)) = 0 => Walks(r) = {})
         /\ Balanced(r) /\ (res[r].refs = 0 <=> r \in loose)
<1>1. Cardinality(Walks(r)) \in Nat /\ IsFiniteSet(Walks(r))
  BY WalksFinite DEF IndInv
<1>2. Cardinality(Walks(r)) = 0 => Walks(r) = {}
  BY <1>1, FS_EmptySet
<1>3. Balanced(r) /\ (res[r].refs = 0 <=> r \in loose)
  BY RefsParts DEF IndInv
<1> QED BY <1>1, <1>2, <1>3, ResAssumption DEF IndInv, Types, Making, NothingDangles, None

\* sid_res_ref, sid_res_ev_loop_run.
LEMMA RefInd ==
  ASSUME IndInv, NEW r \in Live, sid_res_ref(r)
  PROVE  IndInv'
<1>1. /\ res[r].ready /\ loose' = loose \ {r} /\ UNCHANGED <<iter, src, creating>>
      /\ res' = [res EXCEPT ![r].refs = @ + 1, ![r].held = @ + 1]
  BY DEF sid_res_ref
<1>2. Live' = Live
  BY <1>1 DEF Live
<1>3. ASSUME NEW x \in Live PROVE Rebalanced(x)
  <2>1. /\ DOMAIN res'[x] = Fields
        /\ res'[x].ready = res[x].ready /\ res'[x].parent = res[x].parent
        /\ res'[x].refs = IF x = r THEN res[x].refs + 1 ELSE res[x].refs
        /\ res'[x].held = IF x = r THEN res[x].held + 1 ELSE res[x].held
    BY <1>1, LiveFacts DEF Fields, Live
  <2>2. ByParent(x)' = ByParent(x) /\ ByParent(x) \in Nat
    BY <2>1 DEF ByParent
  <2>3. ~res[x].ready => res[x].held = 0
    BY DEF IndInv, Making
  <2> QED BY <1>1, <2>1, <2>2, <2>3, LiveFacts DEF Rebalanced
<1> QED BY <1>1, <1>2, <1>3, RebalancedInd DEF IndInv, Types, NothingDangles

\* The last reference, its holder's: nobody else has one.
LEMMA DropRefReleases ==
  ASSUME IndInv, NEW r \in Live, DropRef(r), LastRef(r)
  PROVE  Released(r, {}) /\ DestroyAll(Doomed(r), {}) /\ res[r].parent = None
<1>1. res[r].held > 0 /\ UNCHANGED creating /\ DestroyAll(Doomed(r), {})
  BY DEF DropRef
<1>2. res[r].ready /\ r \notin InMaking
  BY <1>1, LiveFacts DEF IndInv, Making
<1>3. Walks(r) = {} /\ ByParent(r) = 0
  <2>1. ByParent(r) \in Nat
    BY DEF ByParent
  <2> QED BY <1>1, <1>2, <2>1, LiveFacts DEF LastRef, Balanced
<1>4. InMaking' = InMaking /\ Nested'
  BY <1>1 DEF InMaking, Nested, IndInv
<1>5. Released(r, {})
  BY <1>2, <1>3, <1>4 DEF Released
<1> QED BY <1>1, <1>3, <1>5 DEF ByParent

\* A reference of a holder is dropped.
LEMMA DropRefInd ==
  ASSUME IndInv, NEW r \in Live, DropRef(r)
  PROVE  IndInv'
<1>1. res[r].held > 0 /\ UNCHANGED creating
  BY DEF DropRef
<1>2. res[r].ready /\ r \notin InMaking
  BY <1>1, LiveFacts DEF IndInv, Making
<1>3. CASE LastRef(r)
  BY <1>3, DropRefReleases, DestroyInd
<1>4. CASE ~LastRef(r)
  <2>1. /\ res' = [res EXCEPT ![r].refs = @ - 1, ![r].held = @ - 1]
        /\ UNCHANGED <<iter, src, loose>>
    BY <1>4 DEF DropRef
  <2>2. Live' = Live
    BY <2>1 DEF Live
  <2>3. ASSUME NEW x \in Live PROVE Rebalanced(x)
    <3>1. /\ DOMAIN res'[x] = Fields
          /\ res'[x].ready = res[x].ready /\ res'[x].parent = res[x].parent
          /\ res'[x].refs = IF x = r THEN res[x].refs - 1 ELSE res[x].refs
          /\ res'[x].held = IF x = r THEN res[x].held - 1 ELSE res[x].held
      BY <2>1, LiveFacts DEF Fields, Live
    <3>2. ByParent(x)' = ByParent(x) /\ ByParent(x) \in Nat
      BY <3>1 DEF ByParent
    <3>3. ~res[x].ready => res[x].held = 0
      BY DEF IndInv, Making
    <3> QED BY <1>1, <1>2, <1>4, <2>1, <3>1, <3>2, <3>3, LiveFacts DEF Rebalanced, LastRef
  <2> QED BY <1>1, <2>1, <2>2, <2>3, RebalancedInd DEF IndInv, Types, NothingDangles
<1> QED BY <1>3, <1>4

\* A resource that nobody holds has no reference but its parent's.
LEMMA UnrefReleases ==
  ASSUME IndInv, NEW r \in Live, res[r].ready, Holders(r) = 0, Unref(r), UNCHANGED creating
  PROVE  Released(r, {}) /\ DestroyAll(Doomed(r), {})
<1>1. r \notin InMaking
  BY LiveFacts
<1>2. res[r].held = 0 /\ Cardinality(Walks(r)) = 0
  BY LiveFacts DEF Holders
<1>3. Walks(r) = {}
  BY <1>2, LiveFacts
<1>4. LastRef(r)
  <2>1. ByParent(r) \in {0, 1}
    BY DEF ByParent
  <2> QED BY <1>1, <1>2, <2>1, LiveFacts DEF LastRef, Balanced
<1>5. DestroyAll(Doomed(r), {})
  BY <1>4 DEF Unref
<1>6. InMaking' = InMaking /\ Nested'
  BY DEF InMaking, Nested, IndInv
<1>7. Released(r, {})
  BY <1>1, <1>3, <1>6 DEF Released
<1> QED BY <1>5, <1>7

\* It goes.
LEMMA UnheldUnref ==
  ASSUME IndInv, NEW r \in Live, res[r].ready, Holders(r) = 0, Unref(r), UNCHANGED creating
  PROVE  IndInv'
BY UnrefReleases, DestroyInd

\* The creator of a resource lets it go.
LEMMA UnrefInd ==
  ASSUME IndInv, NEW r \in Live, sid_res_unref(r)
  PROVE  IndInv'
BY UnheldUnref DEF sid_res_unref

\* The end of a creation.
LEMMA FrontFacts ==
  ASSUME IndInv, ~Idle, creating' = Front(creating)
  PROVE  /\ Last(creating) \in Live /\ Last(creating) \in InMaking
         /\ InMaking' = InMaking \ {Last(creating)}
         /\ Nested'
<1> DEFINE n == Len(creating)
<1>1. creating \in Seq(Res) /\ n \in Nat /\ n > 0 /\ DOMAIN creating = 1..n
  BY DEF IndInv, Nested, Idle
<1>2. Last(creating) = creating[n] /\ creating[n] \in InMaking
  BY <1>1 DEF Last, InMaking, Range
<1>3. creating' = SubSeq(creating, 1, n - 1)
  BY DEF Front
<1>4. /\ creating' \in Seq(Res) /\ Len(creating') = n - 1
      /\ \A i \in 1..(n - 1) : creating'[i] = creating[i]
  BY <1>1, <1>3
<1>5. DOMAIN creating' = 1..(n - 1)
  BY <1>4, LenProperties
<1>6. \A i, j \in 1..n : creating[i] = creating[j] => i = j
  BY DEF IndInv, Nested
<1> HIDE DEF n
<1>7. InMaking' = {creating[i] : i \in 1..(n - 1)} /\ InMaking = {creating[i] : i \in 1..n}
  BY <1>1, <1>4, <1>5 DEF InMaking, Range
<1>8. InMaking' = InMaking \ {creating[n]}
  BY <1>1, <1>6, <1>7
<1>9. Nested'
  BY <1>1, <1>4, <1>6 DEF Nested
<1>10. Last(creating) \in Live
  BY <1>2 DEF IndInv, Making
<1> QED BY <1>2, <1>8, <1>9, <1>10

\* A resource whose init function fails is referred to by its creation only.
LEMMA InitFailedReleases ==
  ASSUME IndInv, InitFailed
  PROVE  /\ Last(creating) \in Live /\ Last(creating) \in InMaking
         /\ Released(Last(creating), {}) /\ DestroyAll(Doomed(Last(creating)), {})
<1> DEFINE r == Last(creating)
<1>1. ~Idle /\ DestroyAll(Doomed(r), {}) /\ creating' = Front(creating)
  BY DEF InitFailed
<1>2. r \in Live /\ r \in InMaking /\ InMaking' = InMaking \ {r} /\ Nested'
  BY <1>1, FrontFacts
<1> HIDE DEF r
<1>3. Walks(r) = {}
  BY <1>2, LiveFacts DEF IndInv, Making
<1>4. Released(r, {})
  BY <1>2, <1>3 DEF Released
<1> QED BY <1>1, <1>2, <1>4 DEF r

\* A failed init function takes along what it made.
LEMMA InitFailedInd ==
  ASSUME IndInv, InitFailed
  PROVE  IndInv'
BY InitFailedReleases, DestroyInd

\* The temporary reference goes, the resource stays.
LEMMA InitDoneInd ==
  ASSUME IndInv, InitDone
  PROVE  IndInv'
<1> DEFINE r == Last(creating)
<1>1. /\ ~Idle /\ creating' = Front(creating) /\ UNCHANGED <<iter, src>>
      /\ res' = [res EXCEPT ![r].refs = @ - 1, ![r].ready = TRUE]
      /\ loose' = IF res[r].refs = 1 THEN loose \cup {r} ELSE loose
  BY DEF InitDone
<1>2. r \in Live /\ r \in InMaking /\ InMaking' = InMaking \ {r} /\ Nested'
  BY <1>1, FrontFacts
<1> HIDE DEF r
<1>3. Live' = Live
  BY <1>1 DEF Live
<1>4. \A x : Walks(x)' = Walks(x)
  BY <1>1 DEF Walks
<1>5. \A x \in Live : /\ DOMAIN res'[x] = Fields
                      /\ res'[x].held = res[x].held /\ res'[x].parent = res[x].parent
                      /\ res'[x].refs = IF x = r THEN res[x].refs - 1 ELSE res[x].refs
  BY <1>1, LiveFacts DEF Fields, Live
<1>6. \A x \in Live : res'[x].ready = IF x = r THEN TRUE ELSE res[x].ready
  BY <1>1, LiveFacts DEF Fields, Live
<1>7. res[r].refs > 0
  <2>1. ByParent(r) \in Nat
    BY DEF ByParent
  <2> QED BY <1>2, <2>1, LiveFacts DEF Balanced
<1>8. Types'
  <2>1. \A x \in Live : res'[x].ready \in BOOLEAN
    BY <1>6, LiveFacts
  <2>2. \A x \in Live : res'[x].refs \in Nat /\ res'[x].held \in Nat
    BY <1>5, <1>7, LiveFacts
  <2>3. Live \subseteq Res /\ loose' \subseteq Live
    BY <1>1, <1>2 DEF IndInv, Types
  <2>4. DOMAIN iter \subseteq Iters
        /\ \A i \in DOMAIN iter : DOMAIN iter[i] = IterFields /\ iter[i].refd \in BOOLEAN
    BY DEF IndInv, Types
  <2> QED BY <1>1, <1>3, <1>5, <2>1, <2>2, <2>3, <2>4 DEF IndInv, Types
<1>9. Making'
  <2>1. \A x \in Live : res'[x].ready <=> x \notin InMaking'
    BY <1>2, <1>6, LiveFacts
  <2>2. \A x \in Live : ~res'[x].ready => res'[x].held = 0 /\ Walks(x)' = {}
    BY <1>4, <1>5, <1>6 DEF IndInv, Making
  <2> QED BY <1>2, <1>3, <2>1, <2>2 DEF IndInv, Making
<1>10. Unheld'
  BY <1>1 DEF IndInv, Unheld
<1>11. NothingDangles'
  BY <1>1, <1>3, <1>5 DEF IndInv, NothingDangles
<1>12. CountsExact'
  <2> SUFFICES ASSUME NEW x \in Live
               PROVE  Balanced(x)' /\ ((res[x].refs = 0)' <=> x \in loose')
    BY <1>3 DEF CountsExact, Balanced, Holders, ByParent, InMaking
  <2>1. ByParent(x)' = ByParent(x) /\ ByParent(x) \in Nat
    BY <1>5 DEF ByParent
  <2>2. x \in InMaking' <=> x \in InMaking /\ x /= r
    BY <1>2
  <2>3. Balanced(x)'
    BY <1>2, <1>4, <1>5, <2>1, <2>2, LiveFacts DEF Balanced
  <2>4. /\ res[x].refs \in Nat /\ (res[x].refs = 0 <=> x \in loose)
        /\ res'[x].refs = IF x = r THEN res[x].refs - 1 ELSE res[x].refs
    BY <1>5, LiveFacts
  <2>5. res'[x].refs = 0 <=> x \in loose'
    <3>1. CASE x = r
      BY <1>1, <1>7, <2>4, <3>1
    <3>2. CASE x /= r
      BY <1>1, <2>4, <3>2
    <3> QED BY <3>1, <3>2
  <2> QED BY <2>3, <2>5
<1> QED BY <1>2, <1>8, <1>9, <1>10, <1>11, <1>12 DEF IndInv

\* A new resource: its temporary reference and, below a parent, that one's.
LEMMA CreateInd ==
  ASSUME IndInv, NEW p \in Live \cup {None}, NEW prio, NEW flags, NEW loop,
         sid_res_create(p, prio, flags, loop)
  PROVE  IndInv'
<1> DEFINE r == Fresh
           new == [parent |-> None, kids |-> << >>, refs |-> 1, held |-> 0,
                   prio |-> prio, flags |-> flags, loop |-> loop, sigfd |-> FALSE,
                   ready |-> FALSE]
           R == [x \in Live \cup {r} |-> IF x = r THEN new ELSE res[x]]
<1>1. /\ res' = AddToParent(R, r, p) /\ creating' = Append(creating, r)
      /\ UNCHANGED <<iter, src, loose>>
  BY DEF sid_res_create
<1>2. r \in Res /\ r \notin Live
  <2>1. \E q \in Res : \A x \in Live : x < q
    BY DEF sid_res_create
  <2>2. r \in Res /\ \A x \in Live : x < r
    BY <2>1 DEF Fresh
  <2> QED BY <2>2, ResAssumption
<1>3. /\ DOMAIN new = Fields /\ new.parent = None /\ new.refs = 1 /\ new.held = 0
      /\ new.ready = FALSE
  BY DEF Fields
<1>4. r /= None /\ None \notin Live
  BY <1>2, ResAssumption DEF IndInv, Types, None
<1> HIDE DEF r, new
<1>5. DOMAIN R = Live \cup {r} /\ R[r] = new /\ \A x \in Live : R[x] = res[x]
  BY <1>2
<1> HIDE DEF R
<1>6. /\ Live' = Live \cup {r}
      /\ \A x \in Live' : DOMAIN res'[x] = Fields
      /\ \A x \in Live : /\ res'[x].refs = res[x].refs /\ res'[x].held = res[x].held
                         /\ res'[x].parent = res[x].parent
      /\ res'[r].refs = (IF p = None THEN 1 ELSE 2) /\ res'[r].held = 0 /\ res'[r].parent = p
  <2>1. CASE p = None
    <3>1. res' = R
      BY <1>1, <2>1 DEF AddToParent
    <3> QED BY <1>2, <1>3, <1>5, <2>1, <3>1, LiveFacts DEF Live
  <2>2. CASE p /= None
    <3>1. res' = [R EXCEPT ![p].kids = Placed(R, @, r), ![r].parent = p, ![r].refs = @ + 1]
      BY <1>1, <2>2 DEF AddToParent
    <3>2. p \in Live /\ p /= r
      BY <1>2, <2>2
    <3>3. DOMAIN res[p] = Fields
      BY <3>2, LiveFacts
    <3> QED BY <1>2, <1>3, <1>5, <2>2, <3>1, <3>2, <3>3, LiveFacts DEF Live, Fields
  <2> QED BY <2>1, <2>2
<1>7. res'[r].ready = FALSE /\ \A x \in Live : res'[x].ready = res[x].ready
  <2>1. CASE p = None
    BY <1>1, <1>3, <1>5, <2>1 DEF AddToParent
  <2>2. CASE p /= None
    <3>1. res' = [R EXCEPT ![p].kids = Placed(R, @, r), ![r].parent = p, ![r].refs = @ + 1]
      BY <1>1, <2>2 DEF AddToParent
    <3>2. p \in Live /\ p /= r
      BY <1>2, <2>2
    <3>3. DOMAIN res[p] = Fields
      BY <3>2, LiveFacts
    <3> QED BY <1>2, <1>3, <1>5, <2>2, <3>1, <3>2, <3>3, LiveFacts DEF Live, Fields
  <2> QED BY <2>1, <2>2
<1>8. \A x : Walks(x)' = Walks(x)
  BY <1>1 DEF Walks
<1>9. Walks(r) = {} /\ Cardinality(Walks(r)) = 0
  BY <1>2, FS_EmptySet DEF Walks, IndInv, NothingDangles
<1>10. r \notin InMaking
  BY <1>2 DEF IndInv, Making
<1>11. InMaking' = InMaking \cup {r} /\ Nested'
  <2> DEFINE n == Len(creating)
  <2>1. creating \in Seq(Res) /\ n \in Nat /\ DOMAIN creating = 1..n
    BY DEF IndInv, Nested
  <2>2. /\ creating' \in Seq(Res) /\ Len(creating') = n + 1 /\ creating'[n + 1] = r
        /\ \A i \in 1..n : creating'[i] = creating[i]
    BY <1>1, <1>2, <2>1
  <2>3. DOMAIN creating' = 1..(n + 1)
    BY <2>2, LenProperties
  <2> HIDE DEF n
  <2>4. InMaking = {creating[i] : i \in 1..n} /\ InMaking' = {creating'[i] : i \in 1..(n + 1)}
    BY <2>1, <2>3 DEF InMaking, Range
  <2>5. InMaking' = InMaking \cup {r}
    BY <2>1, <2>2, <2>4
  <2>6. \A i, j \in 1..n : creating[i] = creating[j] => i = j
    BY DEF IndInv, Nested, n
  <2>7. \A i \in 1..n : creating[i] /= r
    BY <1>10, <2>4
  <2>8. Nested'
    BY <2>1, <2>2, <2>6, <2>7 DEF Nested
  <2> QED BY <2>5, <2>8
<1>12. Types'
  <2>1. \A x \in Live' : res'[x].ready \in BOOLEAN
    BY <1>6, <1>7, LiveFacts
  <2>2. \A x \in Live' : res'[x].refs \in Nat /\ res'[x].held \in Nat
    BY <1>6, LiveFacts
  <2>3. Live' \subseteq Res
    BY <1>2, <1>6 DEF IndInv, Types
  <2> QED BY <1>1, <1>6, <2>1, <2>2, <2>3 DEF IndInv, Types
<1>13. Making'
  <2>1. \A x \in Live' : res'[x].ready <=> x \notin InMaking'
    BY <1>2, <1>6, <1>7, <1>11, LiveFacts
  <2>2. \A x \in Live' : ~res'[x].ready => res'[x].held = 0 /\ Walks(x)' = {}
    BY <1>6, <1>7, <1>8, <1>9 DEF IndInv, Making
  <2> QED BY <1>6, <1>11, <2>1, <2>2 DEF IndInv, Making
<1>14. Unheld'
  BY <1>1 DEF IndInv, Unheld
<1>15. NothingDangles'
  BY <1>1, <1>6 DEF IndInv, NothingDangles
<1>16. CountsExact'
  <2> SUFFICES ASSUME NEW x \in Live'
               PROVE  Balanced(x)' /\ ((res[x].refs = 0)' <=> x \in loose')
    BY DEF CountsExact, Balanced, Holders, ByParent, InMaking
  <2>1. CASE x = r
    <3>1. x \notin loose /\ loose' = loose
      BY <1>1, <1>2, <2>1 DEF IndInv, Types
    <3>2. Walks(x)' = Walks(x) /\ Cardinality(Walks(x)) = 0
      BY <1>8, <1>9, <2>1
    <3>3. Cardinality(Walks(x)') = 0 /\ x \in InMaking'
      BY <1>11, <2>1, <3>2
    <3>4. Balanced(x)' /\ res'[x].refs /= 0
      BY <1>6, <2>1, <3>3 DEF Balanced, ByParent
    <3> QED BY <3>1, <3>4
  <2>2. CASE x /= r
    <3>1. x \in Live
      BY <1>6, <2>2
    <3>2. x \in InMaking' <=> x \in InMaking
      BY <1>11, <2>2
    <3>3. ByParent(x)' = ByParent(x)
      BY <1>6, <3>1 DEF ByParent
    <3> QED BY <1>1, <1>6, <1>8, <3>1, <3>2, <3>3, LiveFacts DEF Balanced
  <2> QED BY <2>1, <2>2
<1> QED BY <1>11, <1>12, <1>13, <1>14, <1>15, <1>16 DEF IndInv

\* A resource leaves its parent.
LEMMA RemovedState ==
  ASSUME NEW Q, NEW r \in DOMAIN Q, Q[r].parent /= None, Q[r].parent \in DOMAIN Q,
         \A x \in DOMAIN Q : DOMAIN Q[x] = Fields
  PROVE  /\ DOMAIN RemoveFromParent(Q, r) = DOMAIN Q
         /\ \A x \in DOMAIN Q :
               /\ DOMAIN RemoveFromParent(Q, r)[x] = Fields
               /\ RemoveFromParent(Q, r)[x].refs = IF x = r THEN Q[x].refs - 1 ELSE Q[x].refs
               /\ RemoveFromParent(Q, r)[x].parent = IF x = r THEN None ELSE Q[x].parent
               /\ RemoveFromParent(Q, r)[x].held = Q[x].held
               /\ RemoveFromParent(Q, r)[x].ready = Q[x].ready
<1> DEFINE p == Q[r].parent
           S == RemoveFromParent(Q, r)
<1>1. S = [Q EXCEPT ![p].kids = Kept(@, {r}), ![r].parent = None, ![r].refs = @ - 1]
  BY DEF RemoveFromParent
<1>2. p \in DOMAIN Q
  OBVIOUS
<1> HIDE DEF p, S
<1> QED BY <1>1, <1>2 DEF Fields, S

\* A resource comes below a parent.
LEMMA AddedState ==
  ASSUME NEW Q, NEW r \in DOMAIN Q, NEW p \in DOMAIN Q, p /= None,
         \A x \in DOMAIN Q : DOMAIN Q[x] = Fields
  PROVE  /\ DOMAIN AddToParent(Q, r, p) = DOMAIN Q
         /\ \A x \in DOMAIN Q :
               /\ DOMAIN AddToParent(Q, r, p)[x] = Fields
               /\ AddToParent(Q, r, p)[x].refs = IF x = r THEN Q[x].refs + 1 ELSE Q[x].refs
               /\ AddToParent(Q, r, p)[x].parent = IF x = r THEN p ELSE Q[x].parent
               /\ AddToParent(Q, r, p)[x].held = Q[x].held
               /\ AddToParent(Q, r, p)[x].ready = Q[x].ready
<1> DEFINE S == AddToParent(Q, r, p)
<1>1. S = [Q EXCEPT ![p].kids = Placed(Q, @, r), ![r].parent = p, ![r].refs = @ + 1]
  BY DEF AddToParent
<1> HIDE DEF S
<1> QED BY <1>1 DEF Fields, S

\* A changed priority moves the resource among its siblings and counts nothing twice.
LEMMA SetPrioInd ==
  ASSUME IndInv, NEW prio, sid_res_set_prio(prio)
  PROVE  IndInv'
<1> DEFINE r == Last(creating)
           p == res[r].parent
           Q == RemoveFromParent(res, r)
           R == [Q EXCEPT ![r].prio = prio]
<1>1. /\ ~Idle /\ p /= None /\ res' = AddToParent(R, r, p)
      /\ UNCHANGED <<iter, src, creating, loose>>
  BY DEF sid_res_set_prio
<1>2. r \in Live
  <2>1. creating \in Seq(Res) /\ Len(creating) > 0
    BY <1>1 DEF IndInv, Nested, Idle
  <2>2. r \in InMaking
    BY <2>1 DEF InMaking, Range, Last
  <2> QED BY <2>2 DEF IndInv, Making
<1> HIDE DEF r
<1>3. p \in Live /\ \A x \in Live : DOMAIN res[x] = Fields
  BY <1>1, <1>2, LiveFacts
<1>4. /\ DOMAIN Q = Live
      /\ \A x \in Live : /\ DOMAIN Q[x] = Fields
                         /\ Q[x].refs = IF x = r THEN res[x].refs - 1 ELSE res[x].refs
                         /\ Q[x].parent = IF x = r THEN None ELSE res[x].parent
                         /\ Q[x].held = res[x].held /\ Q[x].ready = res[x].ready
  BY <1>1, <1>2, <1>3, RemovedState DEF Live
<1> HIDE DEF Q
<1>5. /\ DOMAIN R = Live
      /\ \A x \in Live : /\ DOMAIN R[x] = Fields /\ R[x].refs = Q[x].refs
                         /\ R[x].parent = Q[x].parent
                         /\ R[x].held = Q[x].held /\ R[x].ready = Q[x].ready
  BY <1>2, <1>4 DEF Fields
<1> HIDE DEF R, p
<1>6. /\ Live' = Live
      /\ \A x \in Live : /\ DOMAIN res'[x] = Fields
                         /\ res'[x].refs = IF x = r THEN R[x].refs + 1 ELSE R[x].refs
                         /\ res'[x].parent = IF x = r THEN p ELSE R[x].parent
                         /\ res'[x].held = R[x].held /\ res'[x].ready = R[x].ready
  BY <1>1, <1>2, <1>3, <1>5, AddedState DEF Live
<1>7. ASSUME NEW x \in Live PROVE Rebalanced(x)
  <2>1. /\ res[x].refs \in Nat /\ res[x].held \in Nat
    BY LiveFacts
  <2>2. /\ res'[x].refs = res[x].refs /\ res'[x].parent = res[x].parent
        /\ res'[x].held = res[x].held /\ res'[x].ready = res[x].ready
    BY <1>4, <1>5, <1>6, <2>1 DEF p
  <2>3. ByParent(x)' = ByParent(x) /\ ByParent(x) \in Nat
    BY <2>2 DEF ByParent
  <2>4. ~res[x].ready => res[x].held = 0
    BY DEF IndInv, Making
  <2> QED BY <1>1, <1>6, <2>1, <2>2, <2>3, <2>4, LiveFacts DEF Rebalanced
<1> QED BY <1>1, <1>6, <1>7, RebalancedInd DEF IndInv, Types, NothingDangles

\* A new child gets the reference of its parent.
LEMMA AddChildInd ==
  ASSUME IndInv, NEW r \in Live, NEW c \in Live, NEW flags, sid_res_add_child(r, c, flags)
  PROVE  IndInv'
<1> DEFINE R == [res EXCEPT ![c].flags = flags]
<1>1. /\ r /= c /\ res[c].parent = None /\ res' = AddToParent(R, c, r) /\ loose' = loose \ {c}
      /\ UNCHANGED <<iter, src, creating>>
  BY DEF sid_res_add_child
<1>2. /\ DOMAIN R = Live
      /\ \A x \in Live : /\ DOMAIN R[x] = Fields /\ R[x].refs = res[x].refs
                         /\ R[x].parent = res[x].parent
                         /\ R[x].held = res[x].held /\ R[x].ready = res[x].ready
  BY LiveFacts DEF Fields, Live
<1> HIDE DEF R
<1>3. /\ Live' = Live
      /\ \A x \in Live : /\ DOMAIN res'[x] = Fields
                         /\ res'[x].refs = IF x = c THEN R[x].refs + 1 ELSE R[x].refs
                         /\ res'[x].parent = IF x = c THEN r ELSE R[x].parent
                         /\ res'[x].held = R[x].held /\ res'[x].ready = R[x].ready
  BY <1>1, <1>2, LiveFacts, AddedState DEF Live
<1>4. ASSUME NEW x \in Live PROVE Rebalanced(x)
  <2>1. ~res[x].ready => res[x].held = 0
    BY DEF IndInv, Making
  <2>2. r /= None
    BY LiveFacts
  <2>3. CASE x = c
    BY <1>1, <1>2, <1>3, <2>1, <2>2, <2>3, LiveFacts DEF Rebalanced, ByParent
  <2>4. CASE x /= c
    <3>1. ByParent(x)' = ByParent(x) /\ ByParent(x) \in Nat
      BY <1>2, <1>3, <2>4 DEF ByParent
    <3> QED BY <1>1, <1>2, <1>3, <2>1, <2>4, <3>1, LiveFacts DEF Rebalanced
  <2> QED BY <2>3, <2>4
<1> QED BY <1>1, <1>3, <1>4, RebalancedInd DEF IndInv, Types, NothingDangles

\* An isolated resource loses the reference of its parent; its children change theirs.
LEMMA IsolateInd ==
  ASSUME IndInv, NEW r \in Live, NEW subtree \in BOOLEAN, sid_res_isolate(r, subtree)
  PROVE  IndInv'
<1> DEFINE p == res[r].parent
           Q == IF subtree THEN res ELSE Reparented(r)
           R == RemoveFromParent(Q, r)
<1>1. /\ p /= None /\ res' = R /\ UNCHANGED <<iter, src, creating>>
      /\ loose' = IF R[r].refs = 0 THEN loose \cup {r} ELSE loose
  BY DEF sid_res_isolate
<1>2. p \in Live /\ \A x \in Live : DOMAIN res[x] = Fields
  BY <1>1, LiveFacts
<1>3. /\ DOMAIN Q = Live /\ Q[r].parent = p
      /\ \A x \in Live : /\ DOMAIN Q[x] = Fields /\ Q[x].refs = res[x].refs
                         /\ Q[x].parent = res[x].parent \/ (Q[x].parent = p /\ res[x].parent = r)
                         /\ Q[x].held = res[x].held /\ Q[x].ready = res[x].ready
  <2>1. CASE subtree
    BY <1>2, <2>1 DEF Live
  <2>2. CASE ~subtree
    <3>1. Q = [x \in Live |->
                CASE x = r -> [res[x] EXCEPT !.kids = << >>]
                  [] x = p -> [res[x] EXCEPT !.kids = Joined(r)]
                  [] OTHER -> IF res[x].parent = r THEN [res[x] EXCEPT !.parent = p] ELSE res[x]]
      BY <2>2 DEF Reparented
    <3> HIDE DEF Q, p
    <3>2. ASSUME NEW x \in Live
          PROVE  /\ DOMAIN Q[x] = Fields /\ Q[x].refs = res[x].refs
                 /\ Q[x].parent = res[x].parent \/ (Q[x].parent = p /\ res[x].parent = r)
                 /\ Q[x].held = res[x].held /\ Q[x].ready = res[x].ready
      <4>1. CASE x = r
        BY <1>2, <3>1, <4>1 DEF Fields
      <4>2. CASE x /= r /\ x = p
        BY <1>2, <3>1, <4>2 DEF Fields
      <4>3. CASE x /= r /\ x /= p
        BY <1>2, <3>1, <4>3 DEF Fields
      <4> QED BY <4>1, <4>2, <4>3
    <3>3. Q[r].parent = p
      BY <1>2, <3>1 DEF Fields, p
    <3> QED BY <3>1, <3>2, <3>3
  <2> QED BY <2>1, <2>2
<1> HIDE DEF Q, p
<1>4. /\ DOMAIN R = Live
      /\ \A x \in Live : /\ DOMAIN R[x] = Fields
                         /\ R[x].refs = IF x = r THEN Q[x].refs - 1 ELSE Q[x].refs
                         /\ R[x].parent = IF x = r THEN None ELSE Q[x].parent
                         /\ R[x].held = Q[x].held /\ R[x].ready = Q[x].ready
  BY <1>1, <1>2, <1>3, RemovedState
<1> HIDE DEF R
<1>5. Live' = Live
  BY <1>1, <1>4 DEF Live
<1>6. res[r].refs > 0
  BY <1>1, IndCovered, LiveFacts DEF Covered, ByParent, p
<1>7. ASSUME NEW x \in Live PROVE Rebalanced(x)
  <2>1. ~res[x].ready => res[x].held = 0
    BY DEF IndInv, Making
  <2>2. CASE x = r
    <3>1. ByParent(x) = 1 /\ ByParent(x)' = 0
      BY <1>1, <1>4, <2>2 DEF ByParent, p
    <3>2. /\ res[r].refs \in Nat /\ res[r].held \in Nat
          /\ res'[r].refs = res[r].refs - 1 /\ res'[r].held = res[r].held
          /\ DOMAIN res'[r] = Fields /\ res'[r].parent = None
      BY <1>1, <1>3, <1>4, LiveFacts
    <3>3. res'[r].ready = res[r].ready
      BY <1>1, <1>3, <1>4
    <3>4. res'[r].refs = 0 <=> r \in loose'
      BY <1>1, <1>6, LiveFacts
    <3> QED BY <1>6, <2>1, <2>2, <3>1, <3>2, <3>3, <3>4 DEF Rebalanced
  <2>3. CASE x /= r
    <3>1. r /= None
      BY LiveFacts
    <3>2. ByParent(x)' = ByParent(x) /\ ByParent(x) \in Nat
      BY <1>1, <1>3, <1>4, <2>3, <3>1 DEF ByParent
    <3> QED BY <1>1, <1>2, <1>3, <1>4, <2>1, <2>3, <3>2, LiveFacts DEF Rebalanced
  <2> QED BY <2>2, <2>3
<1>8. loose' \subseteq Live
  BY <1>1 DEF IndInv, Types
<1> QED BY <1>1, <1>5, <1>7, <1>8, RebalancedInd DEF IndInv, Types, NothingDangles

\* A new iterator refers to its resource unless that one is being created.
LEMMA IterCreateInd ==
  ASSUME IndInv, NEW i \in Iters, NEW r \in Live, NEW owner \in Live \cup {Outside},
         sid_res_iter_create(i, r, owner)
  PROVE  IndInv'
<1> DEFINE it == NewIter(r, owner, Refs(r))
<1>1. /\ i \notin DOMAIN iter /\ UNCHANGED <<src, creating>>
      /\ iter' = [j \in DOMAIN iter \cup {i} |-> IF j = i THEN it ELSE iter[j]]
      /\ res' = IF res[r].ready THEN [res EXCEPT ![r].refs = @ + 1] ELSE res
      /\ loose' = IF res[r].ready THEN loose \ {r} ELSE loose
      /\ ~res[r].ready => owner = r
  BY DEF sid_res_iter_create, Refs
<1>2. /\ DOMAIN it = IterFields /\ it.res = r /\ it.owner = owner /\ it.refd = res[r].ready
  BY DEF NewIter, IterFields, Refs
<1> HIDE DEF it
<1>3. /\ DOMAIN iter' = DOMAIN iter \cup {i} /\ iter'[i] = it
      /\ \A j \in DOMAIN iter : iter'[j] = iter[j]
  BY <1>1
<1>4. /\ Live' = Live
      /\ \A x \in Live :
            /\ DOMAIN res'[x] = Fields /\ res'[x].held = res[x].held
            /\ res'[x].parent = res[x].parent
            /\ res'[x].refs = IF x = r /\ res[r].ready THEN res[x].refs + 1 ELSE res[x].refs
  BY <1>1, LiveFacts DEF Fields, Live
<1>5. \A x \in Live : res'[x].ready = res[x].ready
  BY <1>1, LiveFacts DEF Fields, Live
<1>6. \A x \in Live : Walks(x)' = IF x = r /\ res[r].ready THEN Walks(x) \cup {i} ELSE Walks(x)
  BY <1>1, <1>2, <1>3 DEF Walks
<1>7. \A x \in Live :
         Cardinality(Walks(x)') = IF x = r /\ res[r].ready THEN Cardinality(Walks(x)) + 1
                                  ELSE Cardinality(Walks(x))
  <2>1. \A x \in Live : IsFiniteSet(Walks(x)) /\ i \notin Walks(x)
    BY <1>1, WalksFinite DEF IndInv, Walks
  <2> QED BY <1>6, <2>1, FS_AddElement
<1>8. InMaking' = InMaking
  BY <1>1 DEF InMaking
<1>9. Types'
  <2>1. \A x \in Live : res'[x].ready \in BOOLEAN
    BY <1>5, LiveFacts
  <2>2. \A x \in Live : res'[x].refs \in Nat /\ res'[x].held \in Nat
    BY <1>4, LiveFacts
  <2>3. Live \subseteq Res /\ loose' \subseteq Live
    BY <1>1 DEF IndInv, Types
  <2>4. \A j \in DOMAIN iter' : DOMAIN iter'[j] = IterFields /\ iter'[j].refd \in BOOLEAN
    BY <1>2, <1>3, LiveFacts DEF IndInv, Types
  <2> QED BY <1>1, <1>3, <1>4, <2>1, <2>2, <2>3, <2>4 DEF IndInv, Types
<1>10. Nested'
  BY <1>1 DEF IndInv, Nested
<1>11. Making'
  BY <1>4, <1>5, <1>6, <1>8 DEF IndInv, Making
<1>12. Unheld'
  BY <1>1, <1>2, <1>3 DEF IndInv, Unheld
<1>13. NothingDangles'
  BY <1>1, <1>2, <1>3, <1>4 DEF IndInv, NothingDangles
<1>14. CountsExact'
  <2> SUFFICES ASSUME NEW x \in Live
               PROVE  Balanced(x)' /\ ((res[x].refs = 0)' <=> x \in loose')
    BY <1>4 DEF CountsExact, Balanced, Holders, ByParent, InMaking
  <2>1. ByParent(x)' = ByParent(x) /\ ByParent(x) \in Nat
    BY <1>4 DEF ByParent
  <2>2. Balanced(x)'
    BY <1>4, <1>7, <1>8, <2>1, LiveFacts DEF Balanced
  <2>3. res'[x].refs = 0 <=> x \in loose'
    BY <1>1, <1>4, LiveFacts
  <2> QED BY <2>2, <2>3
<1> QED BY <1>9, <1>10, <1>11, <1>12, <1>13, <1>14 DEF IndInv

\* The last reference, an iterator's: nobody else has one.
LEMMA IterDestroyReleases ==
  ASSUME IndInv, NEW i \in DOMAIN iter, sid_res_iter_destroy(i), LastRef(iter[i].res)
  PROVE  /\ iter[i].res \in Live /\ res[iter[i].res].parent = None
         /\ Released(iter[i].res, {i}) /\ DestroyAll(Doomed(iter[i].res), {i})
<1> DEFINE r == iter[i].res
<1>1. iter[i].refd /\ UNCHANGED creating /\ DestroyAll(Doomed(r), {i})
  BY DEF sid_res_iter_destroy
<1>2. r \in Live /\ i \in Walks(r)
  BY <1>1 DEF IndInv, NothingDangles, Walks
<1>3. Cardinality(Walks(r)) > 0 /\ IsFiniteSet(Walks(r))
  <2>1. IsFiniteSet(Walks(r)) /\ Cardinality(Walks(r)) \in Nat
    BY WalksFinite DEF IndInv
  <2> QED BY <1>2, <2>1, FS_EmptySet
<1>4. Cardinality(Walks(r)) = 1 /\ r \notin InMaking /\ ByParent(r) = 0
  <2>1. ByParent(r) \in Nat
    BY DEF ByParent
  <2> QED BY <1>2, <1>3, <2>1, LiveFacts DEF LastRef, Balanced
<1>5. Walks(r) = {i}
  <2>1. PICK j : Walks(r) = {j}
    BY <1>3, <1>4, FS_Singleton
  <2> QED BY <1>2, <2>1
<1>6. InMaking' = InMaking /\ Nested'
  BY <1>1 DEF InMaking, Nested, IndInv
<1>7. Released(r, {i})
  BY <1>4, <1>5, <1>6 DEF Released
<1> QED BY <1>1, <1>2, <1>4, <1>7 DEF ByParent

\* An iterator that goes drops its reference, which may be the last one.
LEMMA IterDestroyInd ==
  ASSUME IndInv, NEW i \in DOMAIN iter, sid_res_iter_destroy(i)
  PROVE  IndInv'
<1> DEFINE r == iter[i].res
<1>1. iter[i].refd /\ UNCHANGED creating
  BY DEF sid_res_iter_destroy
<1>2. r \in Live /\ i \in Walks(r)
  BY <1>1 DEF IndInv, NothingDangles, Walks
<1>4. CASE LastRef(r)
  BY <1>4, IterDestroyReleases, DestroyInd
<1>5. CASE ~LastRef(r)
  <2>1. /\ res' = [res EXCEPT ![r].refs = @ - 1]
        /\ iter' = [j \in DOMAIN iter \ {i} |-> iter[j]]
        /\ UNCHANGED <<src, loose>>
    BY <1>5 DEF sid_res_iter_destroy
  <2> HIDE DEF r
  <2>2. /\ Live' = Live
        /\ \A x \in Live : /\ DOMAIN res'[x] = Fields /\ res'[x].held = res[x].held
                           /\ res'[x].parent = res[x].parent
                           /\ res'[x].refs = IF x = r THEN res[x].refs - 1 ELSE res[x].refs
    BY <1>2, <2>1, LiveFacts DEF Fields, Live
  <2>3. \A x \in Live : res'[x].ready = res[x].ready
    BY <1>2, <2>1, LiveFacts DEF Fields, Live
  <2>4. DOMAIN iter' = DOMAIN iter \ {i} /\ \A j \in DOMAIN iter' : iter'[j] = iter[j]
    BY <2>1
  <2>5. \A x \in Live : Walks(x)' = IF x = r THEN Walks(x) \ {i} ELSE Walks(x)
    BY <2>4 DEF Walks, r
  <2>6. \A x \in Live : Cardinality(Walks(x)') = IF x = r THEN Cardinality(Walks(x)) - 1
                                                 ELSE Cardinality(Walks(x))
    <3>1. IsFiniteSet(Walks(r))
      BY WalksFinite DEF IndInv
    <3> QED BY <1>2, <2>5, <3>1, FS_RemoveElement
  <2>7. InMaking' = InMaking
    BY <1>1 DEF InMaking
  <2>8. res[r].refs > 1 /\ res[r].refs \in Nat
    BY <1>2, <1>5, LiveFacts DEF LastRef, r
  <2>9. Types'
    <3>1. \A x \in Live : res'[x].ready \in BOOLEAN
      BY <2>3, LiveFacts
    <3>2. \A x \in Live : res'[x].refs \in Nat /\ res'[x].held \in Nat
      BY <2>2, <2>8, LiveFacts
    <3> QED BY <2>1, <2>2, <2>4, <3>1, <3>2 DEF IndInv, Types
  <2>10. Nested'
    BY <1>1 DEF IndInv, Nested
  <2>11. Making'
    BY <2>2, <2>3, <2>5, <2>7 DEF IndInv, Making
  <2>12. Unheld'
    BY <2>4 DEF IndInv, Unheld
  <2>13. NothingDangles'
    BY <2>1, <2>2, <2>4 DEF IndInv, NothingDangles
  <2>14. CountsExact'
    <3> SUFFICES ASSUME NEW x \in Live
                 PROVE  Balanced(x)' /\ ((res[x].refs = 0)' <=> x \in loose')
      BY <2>2 DEF CountsExact, Balanced, Holders, ByParent, InMaking
    <3>1. ByParent(x)' = ByParent(x) /\ ByParent(x) \in Nat
      BY <2>2 DEF ByParent
    <3>2. Balanced(x)'
      BY <2>2, <2>6, <2>7, <3>1, LiveFacts DEF Balanced
    <3>3. res'[x].refs = 0 <=> x \in loose'
      BY <2>1, <2>2, <2>8, LiveFacts
    <3> QED BY <3>2, <3>3
  <2> QED BY <2>9, <2>10, <2>11, <2>12, <2>13, <2>14 DEF IndInv
<1> QED BY <1>4, <1>5

\* A step of a walk stays with its resource.
LEMMA MovedFacts ==
  ASSUME NEW it, DOMAIN it = IterFields, NEW step, NEW dir
  PROVE  /\ DOMAIN Moved(it, step, dir) = IterFields
         /\ Moved(it, step, dir).res = it.res /\ Moved(it, step, dir).owner = it.owner
         /\ Moved(it, step, dir).refd = it.refd
BY DEF Moved, IterFields

\* An iterator that moves or is reset refers to the same resource.
LEMMA IterMoved ==
  ASSUME IndInv, NEW i \in DOMAIN iter,
         sid_res_iter_next(i) \/ sid_res_iter_previous(i) \/ sid_res_iter_reset(i)
  PROVE  /\ UNCHANGED <<res, src, creating, loose>> /\ DOMAIN iter' = DOMAIN iter
         /\ \A j \in DOMAIN iter : /\ DOMAIN iter'[j] = IterFields
                                   /\ iter'[j].res = iter[j].res /\ iter'[j].owner = iter[j].owner
                                   /\ iter'[j].refd = iter[j].refd
                                   /\ j /= i => iter'[j] = iter[j]
<1> DEFINE it == iter[i]
<1>1. UNCHANGED <<res, src, creating, loose>>
  BY DEF sid_res_iter_next, sid_res_iter_previous, sid_res_iter_reset
<1>2. DOMAIN it = IterFields
  BY DEF IndInv, Types
<1>3. PICK new : /\ iter' = [iter EXCEPT ![i] = new]
                 /\ DOMAIN new = IterFields /\ new.res = it.res /\ new.owner = it.owner
                 /\ new.refd = it.refd
  <2>1. CASE sid_res_iter_next(i)
    <3> DEFINE step == Onward(it, Kids(it.res), it.next)
               m == Moved(it, step, "fwd")
               new == IF it.next = ListHead THEN [it EXCEPT !.dir = "over"]
                      ELSE [m EXCEPT !.next = step.on]
    <3>1. iter' = [iter EXCEPT ![i] = new]
      BY <2>1 DEF sid_res_iter_next
    <3>2. DOMAIN m = IterFields /\ m.res = it.res /\ m.owner = it.owner /\ m.refd = it.refd
      BY <1>2, MovedFacts
    <3> HIDE DEF m, step, it
    <3>3. DOMAIN new = IterFields /\ new.res = it.res /\ new.owner = it.owner /\ new.refd = it.refd
      BY <1>2, <3>2 DEF IterFields
    <3> QED BY <3>1, <3>3 DEF it
  <2>2. CASE sid_res_iter_previous(i)
    <3> DEFINE step == Onward(it, Reverse(Kids(it.res)), it.prev)
               m == Moved(it, step, "back")
               new == IF it.prev = ListHead THEN [it EXCEPT !.dir = "over"]
                      ELSE [m EXCEPT !.prev = step.on]
    <3>1. iter' = [iter EXCEPT ![i] = new]
      BY <2>2 DEF sid_res_iter_previous
    <3>2. DOMAIN m = IterFields /\ m.res = it.res /\ m.owner = it.owner /\ m.refd = it.refd
      BY <1>2, MovedFacts
    <3> HIDE DEF m, step, it
    <3>3. DOMAIN new = IterFields /\ new.res = it.res /\ new.owner = it.owner /\ new.refd = it.refd
      BY <1>2, <3>2 DEF IterFields
    <3> QED BY <3>1, <3>3 DEF it
  <2>3. CASE sid_res_iter_reset(i)
    <3>1. iter' = [iter EXCEPT ![i] = NewIter(it.res, it.owner, it.refd)]
      BY <2>3 DEF sid_res_iter_reset
    <3> DEFINE new == NewIter(it.res, it.owner, it.refd)
    <3> HIDE DEF it
    <3>2. DOMAIN new = IterFields /\ new.res = it.res /\ new.owner = it.owner /\ new.refd = it.refd
      BY DEF NewIter, IterFields
    <3> HIDE DEF new
    <3> QED BY <3>1, <3>2 DEF it, new
  <2> QED BY <2>1, <2>2, <2>3
<1> QED BY <1>1, <1>3 DEF IndInv, Types

\* Which keeps the counts.
LEMMA IterMoveInd ==
  ASSUME IndInv, NEW i \in DOMAIN iter,
         sid_res_iter_next(i) \/ sid_res_iter_previous(i) \/ sid_res_iter_reset(i)
  PROVE  IndInv'
<1>1. /\ UNCHANGED <<res, src, creating, loose>> /\ DOMAIN iter' = DOMAIN iter
      /\ \A j \in DOMAIN iter : /\ DOMAIN iter'[j] = IterFields
                                /\ iter'[j].res = iter[j].res /\ iter'[j].owner = iter[j].owner
                                /\ iter'[j].refd = iter[j].refd
  BY IterMoved
<1>2. \A e \in DOMAIN src' : DOMAIN src'[e] = SrcFields /\ src'[e].res \in Live
  BY <1>1 DEF IndInv, Types, NothingDangles
<1> QED BY <1>1, <1>2, QuietInd

\* Sources come and go with their resources.
LEMMA EvCreateInd ==
  ASSUME IndInv, NEW e, NEW r \in Live, NEW kind, sid_res_ev_create(e, r, kind)
  PROVE  IndInv'
<1> DEFINE l == ResWithEvLoop[r]
<1>1. /\ UNCHANGED <<iter, creating, loose>>
      /\ res' = [res EXCEPT ![l].sigfd = TRUE] \/ UNCHANGED res
      /\ NewSource(e, r, kind)
  BY DEF sid_res_ev_create
<1> HIDE DEF l
<1>2. \A f \in DOMAIN src' : DOMAIN src'[f] = SrcFields /\ src'[f].res \in Live
  <2> DEFINE new == [res |-> r, kind |-> kind, fired |-> 0, max |-> EventsMax(kind),
                     on |-> Enabled(0, EventsMax(kind))]
  <2>1. DOMAIN new = SrcFields /\ new.res = r
    BY DEF SrcFields
  <2>2. src' = [f \in DOMAIN src \cup {e} |-> IF f # e THEN src[f] ELSE new]
    BY <1>1 DEF NewSource
  <2> HIDE DEF new
  <2> QED BY <2>1, <2>2 DEF IndInv, Types, NothingDangles
<1>3. /\ Live' = Live
      /\ \A x \in Live : /\ DOMAIN res'[x] = Fields /\ res'[x].held = res[x].held
                         /\ res'[x].parent = res[x].parent /\ res'[x].refs = res[x].refs
  BY <1>1, LiveFacts DEF Fields, Live
<1>4. \A x \in Live : res'[x].ready = res[x].ready
  BY <1>1, LiveFacts DEF Fields, Live
<1>5. ASSUME NEW x \in Live PROVE Rebalanced(x)
  <2>1. ByParent(x)' = ByParent(x) /\ ByParent(x) \in Nat
    BY <1>3 DEF ByParent
  <2>2. ~res[x].ready => res[x].held = 0
    BY DEF IndInv, Making
  <2> QED BY <1>1, <1>3, <1>4, <2>1, <2>2, LiveFacts DEF Rebalanced
<1> QED BY <1>1, <1>2, <1>3, <1>5, RebalancedInd DEF IndInv, Types, NothingDangles

\* A source that is changed stays with its resource.
SameSource(s, t) == DOMAIN t = SrcFields /\ t.res = s.res

\* Counting events changes neither the resource nor the kind of a source.
LEMMA SourceFacts ==
  ASSUME NEW s, DOMAIN s = SrcFields
  PROVE  /\ SameSource(s, Fired(s))
         /\ SameSource(s, Failed(s))
         /\ SameSource(s, Rearmed(s))
<1>1. SameSource(s, Fired(s))
  BY DEF Fired, SameSource, SrcFields
<1>2. SameSource(s, Failed(s))
  BY DEF Failed, SameSource, SrcFields
<1>3. SameSource(s, Rearmed(s))
  BY DEF Rearmed, Counted, SameSource, SrcFields
<1> QED BY <1>1, <1>2, <1>3

\* Event sources hold no references.
LEMMA SourceInd ==
  ASSUME IndInv, NEW e \in DOMAIN src, UNCHANGED <<res, iter, creating, loose>>,
         \/ src' = [f \in DOMAIN src \ {e} |-> src[f]]
         \/ \E t : SameSource(src[e], t) /\ src' = [src EXCEPT ![e] = t]
  PROVE  IndInv'
<1>1. \A f \in DOMAIN src' : DOMAIN src'[f] = SrcFields /\ src'[f].res \in Live
  BY DEF IndInv, Types, NothingDangles, SameSource
<1>2. \A i \in DOMAIN iter : DOMAIN iter'[i] = IterFields
  BY DEF IndInv, Types
<1> QED BY <1>1, <1>2, QuietInd

\* A counter is set.
LEMMA SetCounterInd ==
  ASSUME IndInv, NEW e \in DOMAIN src, NEW rel \in BOOLEAN, NEW max,
         sid_res_ev_set_counter(e, rel, max)
  PROVE  IndInv'
<1>1. DOMAIN src[e] = SrcFields
  BY DEF IndInv, Types
<1>2. SameSource(src[e], Counted(src[e], rel, max))
  BY <1>1 DEF Counted, SameSource, SrcFields
<1>3. src' = [src EXCEPT ![e] = Counted(src[e], rel, max)] /\ UNCHANGED <<res, iter, creating, loose>>
  BY DEF sid_res_ev_set_counter
<1> QED BY <1>2, <1>3, SourceInd

\* An event source goes.
LEMMA EvDestroyInd ==
  ASSUME IndInv, NEW e \in DOMAIN src, sid_res_ev_destroy(e)
  PROVE  IndInv'
BY SourceInd DEF sid_res_ev_destroy

\* An event, and what its handler does with the resource.
LEMMA DispatchInd ==
  ASSUME IndInv, NEW e \in DOMAIN src, NEW outcome, Dispatch(e, outcome)
  PROVE  IndInv'
<1> DEFINE s == src[e]
<1>1. DOMAIN s = SrcFields /\ s.res \in Live
  BY DEF IndInv, Types, NothingDangles
<1>2. UNCHANGED creating /\ Idle
  BY DEF Dispatch
<1>3. CASE outcome \in {"done", "rearm", "failed"}
  <2>1. PICK t \in {Fired(s), Rearmed(Fired(s)), Failed(Fired(s))} :
           src' = [src EXCEPT ![e] = t] /\ UNCHANGED <<res, iter, loose>>
    BY <1>3 DEF Dispatch
  <2>2. DOMAIN Fired(s) = SrcFields /\ Fired(s).res = s.res
    BY <1>1, SourceFacts DEF SameSource
  <2>3. SameSource(Fired(s), Failed(Fired(s))) /\ SameSource(Fired(s), Rearmed(Fired(s)))
    BY <2>2, SourceFacts
  <2>4. SameSource(s, t)
    BY <2>2, <2>3 DEF SameSource
  <2> QED BY <1>2, <2>1, <2>4, SourceInd
<1>4. CASE outcome = "gone"
  <2>1. Holders(s.res) = 0 /\ Unref(s.res)
    BY <1>4 DEF Dispatch
  <2>2. res[s.res].ready
    <3>1. InMaking = {}
      BY <1>2 DEF Idle, InMaking, Range
    <3> QED BY <1>1, <3>1, LiveFacts
  <2> QED BY <1>1, <1>2, <2>1, <2>2, UnheldUnref
<1> QED BY <1>3, <1>4 DEF Dispatch

\* A step that changes nothing.
LEMMA StutterInd ==
  ASSUME IndInv, UNCHANGED vars
  PROVE  IndInv'
<1>1. \A i \in DOMAIN iter : DOMAIN iter[i] = IterFields
  BY DEF IndInv, Types
<1>2. \A e \in DOMAIN src : DOMAIN src[e] = SrcFields /\ src[e].res \in Live
  BY DEF IndInv, Types, NothingDangles
<1> QED BY <1>1, <1>2, QuietInd DEF vars

\* Every step preserves the invariant.
LEMMA NextInd ==
  ASSUME IndInv, [Next]_vars
  PROVE  IndInv'
<1>1. ASSUME NEW p \in Live \cup {None}, NEW flags \in FlagSets,
             sid_res_create(p, Normal, flags, FALSE)
      PROVE  IndInv'
  BY <1>1, CreateInd
<1>2. CASE InitDone
  BY <1>2, InitDoneInd
<1>3. CASE InitFailed
  BY <1>3, InitFailedInd
<1>4. ASSUME NEW prio \in Prios, sid_res_set_prio(prio) PROVE IndInv'
  BY <1>4, SetPrioInd
<1>5. ASSUME NEW r \in Live, sid_res_ref(r) \/ sid_res_ev_loop_run(r) PROVE IndInv'
  BY <1>5, RefInd DEF sid_res_ev_loop_run
<1>6. ASSUME NEW r \in Live, DropRef(r) \/ sid_res_unref(r) PROVE IndInv'
  BY <1>6, DropRefInd, UnrefInd
<1>7. ASSUME NEW r \in Live, NEW subtree \in BOOLEAN, sid_res_isolate(r, subtree) PROVE IndInv'
  BY <1>7, IsolateInd
<1>8. ASSUME NEW r \in Live, NEW c \in Live, NEW flags \in FlagSets, sid_res_add_child(r, c, flags)
      PROVE  IndInv'
  BY <1>8, AddChildInd
<1>9. ASSUME NEW r \in Live, NEW i \in Iters, NEW owner \in Live \cup {Outside},
             sid_res_iter_create(i, r, owner)
      PROVE  IndInv'
  BY <1>9, IterCreateInd
<1>10. ASSUME NEW r \in Live, NEW e \in Sources, NEW kind \in Kinds, sid_res_ev_create(e, r, kind)
       PROVE  IndInv'
  BY <1>10, EvCreateInd
<1>11. ASSUME NEW i \in DOMAIN iter,
              sid_res_iter_next(i) \/ sid_res_iter_previous(i) \/ sid_res_iter_reset(i)
       PROVE  IndInv'
  BY <1>11, IterMoveInd
<1>12. ASSUME NEW i \in DOMAIN iter, sid_res_iter_destroy(i) PROVE IndInv'
  BY <1>12, IterDestroyInd
<1>13. ASSUME NEW e \in DOMAIN src, NEW rel \in BOOLEAN, NEW max \in {1, Unlimited - 1},
              sid_res_ev_set_counter(e, rel, max)
       PROVE  IndInv'
  BY <1>13, SetCounterInd
<1>14. ASSUME NEW e \in DOMAIN src, NEW outcome \in {"done", "rearm", "failed", "gone"},
              Dispatch(e, outcome)
       PROVE  IndInv'
  BY <1>14, DispatchInd
<1>15. ASSUME NEW e \in DOMAIN src, sid_res_ev_destroy(e) PROVE IndInv'
  BY <1>15, EvDestroyInd
<1>16. CASE UNCHANGED vars
  BY <1>16, StutterInd
<1> QED BY <1>1, <1>2, <1>3, <1>4, <1>5, <1>6, <1>7, <1>8, <1>9, <1>10, <1>11, <1>12, <1>13,
           <1>14, <1>15, <1>16 DEF Next

\* Whatever resources, iterators and sources come and go in whatever order, and whichever
\* initializers fail.
THEOREM Invariance == Spec => []IndInv
<1>1. IndInv /\ [Next]_vars => IndInv'
  BY NextInd
<1> QED BY <1>1, InitInd, PTL DEF Spec

\* The reference count of a resource is what refers to it, a count of zero is known to who made
\* the resource, and no parent, iterator or event source is a resource that was destroyed,
\* whatever a destruction took along (sid_res_ref, _do_sid_res_unref, sid_res_iter_create).
THEOREM ReferencesExact == Spec => []RefsExact
<1>1. IndInv => RefsExact
  BY DEF IndInv, RefsExact
<1> QED BY <1>1, Invariance, PTL
=============================================================================
