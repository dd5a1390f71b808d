------------------------------- MODULE Resource -------------------------------
(***************************************************************************)
(* The resource tree of res.c: reference counts, the order of siblings,    *)
(* nested creation and destruction, isolation, iterators that tolerate the *)
(* removal of the child they stand on, searches and counted event sources. *)
(*                                                                         *)
(* The rest of the program is the environment.  It keeps to the discipline *)
(* its callers keep to: a reference is dropped once, by who took it; a     *)
(* resource that nobody else refers to is unreferenced by who created it;  *)
(* an iterator kept by a resource is never over an ancestor (the FIXME     *)
(* above sid_res_ref); a walk removes the child it stands on and no other, *)
(* and nothing is attached meanwhile; children are handed to a parent by   *)
(* event handlers only (_connection_cleanup), not while one is made.       *)
(***************************************************************************)
EXTENDS Integers, FiniteSets, Sequences, SequencesExt, FiniteSetsExt

CONSTANTS
    Res,        \* resources that may ever be created, numbered from 1
    Prios,      \* priorities that modules ask for
    FlagSets,   \* flags given to new resources, subsets of Flags
    Iters,      \* iterators that may exist at a time
    Sources,    \* event sources that may exist at a time
    SourceSpecs,\* resources that make event sources, with the kinds they make
    Unlimited,  \* SID_RES_UNLIMITED_EV_COUNT, the greatest counter value
    Starts,     \* the trees to start from
    MaxOps      \* bound on the number of operations

Flags == {"up", "down", "fixed"}   \* RESTRICT_WALK_UP, _DOWN, DISALLOW_ISOLATION

Normal == 0    \* SID_RES_PRIO_NORMAL
None == 0      \* no parent
ListHead == 0      \* the head of a list of children
Outside == 0   \* an owner that is not a resource

\* struct sid_res, as far as it is modelled; held counts the references of owners outside of
\* the tree.
Fields == {"parent", "kids", "refs", "held", "prio", "flags", "loop", "sigfd", "ready"}

ASSUME ResAssumption == Res \subseteq Nat \ {0}
ASSUME ItersAssumption == IsFiniteSet(Iters)

\* Parents and children agree, and siblings are ordered by priority.
Families(R) ==
    \A r \in DOMAIN R :
        /\ \A i \in DOMAIN R[r].kids : R[r].kids[i] \in DOMAIN R /\ R[R[r].kids[i]].parent = r
        /\ \A i, j \in DOMAIN R[r].kids :
               i < j => R[r].kids[i] # R[r].kids[j]
                        /\ R[R[r].kids[i]].prio <= R[R[r].kids[j]].prio
        /\ R[r].parent # None => \E i \in DOMAIN R[R[r].parent].kids : R[R[r].parent].kids[i] = r

ASSUME PriosAssumption == Prios \subseteq Int

\* The trees to start from are made by sid_res_create: parents before their children, and
\* every parent counts once.
ASSUME StartsAssumption ==
    \A R \in Starts :
        /\ DOMAIN R \subseteq Res /\ IsFiniteSet(DOMAIN R)
        /\ Families(R)
        /\ \A r \in DOMAIN R :
              /\ DOMAIN R[r] = Fields
              /\ R[r].parent \in DOMAIN R \cup {None} /\ R[r].parent < r
              /\ R[r].kids \in Seq(Res) /\ R[r].prio \in Int
              /\ R[r].refs = (IF R[r].parent = None THEN 0 ELSE 1)
              /\ R[r].held = 0 /\ R[r].ready = TRUE

VARIABLES
    res,        \* the live resources
    iter,       \* the live iterators
    src,        \* the live event sources
    creating,   \* the resources whose init functions are running, outermost first
    loose,      \* parentless resources without references, known to their creators
    ops

vars == <<res, iter, src, creating, loose, ops>>

Live == DOMAIN res

---------------------------------------------------------------------------
(* The tree.                                                               *)

Kids(r) == res[r].kids

\* Fault: a child goes last whatever its priority.
PlacedLast(R, kids, r) == Append(kids, r)

\* A child goes before the first sibling of a greater priority.
Placed(R, kids, r) ==
    LET later == {i \in DOMAIN kids : R[r].prio < R[kids[i]].prio}
        at == IF later = {} THEN Len(kids) + 1 ELSE Min(later)
    IN  InsertAt(kids, at, r)

AddToParent(R, r, p) ==
    IF p = None THEN R
    ELSE [R EXCEPT ![p].kids = Placed(R, @, r),
                   ![r].parent = p,
                   ![r].refs = @ + 1]

\* The children that are not in D, in their order.
Kept(kids, D) ==
    LET kept[n \in 0..Len(kids)] ==
            IF n = 0 THEN << >>
            ELSE IF kids[n] \in D THEN kept[n - 1] ELSE Append(kept[n - 1], kids[n])
    IN  kept[Len(kids)]

RemoveFromParent(R, r) ==
    IF R[r].parent = None THEN R
    ELSE [R EXCEPT ![R[r].parent].kids = Kept(@, {r}),
                   ![r].parent = None,
                   ![r].refs = @ - 1]

Ancestors(r) ==
    LET up[x \in Live \cup {None}] ==
            IF x = None THEN {} ELSE LET p == res[x].parent IN ({p} \ {None}) \cup up[p]
    IN  up[r]

Below(r) == {x \in Live : r \in Ancestors(x)}

\* Fault: what the destroyed resources refer to is forgotten, not unreferenced.
LostFromParent(D, x) == IF res[x].parent \in D THEN 1 ELSE 0

\* The iterators that hold a reference on r.
Walks(r) == {i \in DOMAIN iter : iter[i].refd /\ iter[i].res = r}

\* References on x that go when the resources of D go: the one of its parent
\* and the ones of iterators that destroy functions of D destroy.
Lost(D, x) ==
    (IF res[x].parent \in D THEN 1 ELSE 0) + Cardinality({i \in Walks(x) : iter[i].owner \in D})

\* Nothing outside of D loses its last reference when D goes.
Closed(D) == \A x \in Live \ D : Lost(D, x) > 0 => res[x].refs # Lost(D, x)

\* Destroying r destroys, children first and the last child first, whatever
\* loses its last reference by it; what is still referred to is cut loose.
Doomed(r) ==
    LET closed == {D \in SUBSET Live : r \in D /\ Closed(D)}
    IN  {x \in Live : \A D \in closed : x \in D}

DestroyAll(D, gone) ==
    /\ res' = [x \in Live \ D |->
                  [res[x] EXCEPT !.refs = @ - Lost(D, x),
                                 !.parent = IF @ \in D THEN None ELSE @,
                                 !.kids = Kept(@, D)]]
    /\ iter' = [i \in {j \in DOMAIN iter \ gone : iter[j].owner \notin D} |-> iter[i]]
    /\ src' = [e \in {f \in DOMAIN src : src[f].res \notin D} |-> src[e]]
    /\ loose' = loose \ D

\* _do_sid_res_unref, not nested: the last reference, a parent's included,
\* takes the resource with it.
LastRef(r) == res[r].refs <= 1

Unref(r) ==
    IF LastRef(r)
    THEN DestroyAll(Doomed(r), {})
    ELSE res' = [res EXCEPT ![r].refs = @ - 1] /\ UNCHANGED <<iter, src, loose>>

Holders(r) == res[r].held + Cardinality(Walks(r))

\* No walk over the siblings of r is about to step on r.
Steppable(r) ==
    \A i \in DOMAIN iter : iter[i].res = res[r].parent /\ res[r].parent # None
                           => iter[i].dir = "over" \/ iter[i].cur = r

\* Nothing is in the middle of a walk over r.
Unwalked(r) == \A i \in DOMAIN iter : iter[i].res = r => iter[i].dir \in {"start", "over"}

---------------------------------------------------------------------------
(* Creation.                                                               *)

Step == ops < MaxOps /\ ops' = ops + 1

Idle == creating = << >>

Fresh == CHOOSE r \in Res : \A x \in Live : x < r

\* sid_res_create up to its call of the init function.  A temporary reference
\* keeps the resource while it is initialised.
sid_res_create(p, prio, flags, loop) ==
    /\ Step
    /\ \E r \in Res : \A x \in Live : x < r
    /\ Idle => p = None \/ p \in Live
    /\ ~Idle => p \in {None, Last(creating)}
    /\ Unwalked(p)
    /\ LET r == Fresh
           new == [parent |-> None, kids |-> << >>, refs |-> 1, held |-> 0,
                   prio |-> prio, flags |-> flags, loop |-> loop, sigfd |-> FALSE,
                   ready |-> FALSE]
           R == [x \in Live \cup {r} |-> IF x = r THEN new ELSE res[x]]
       IN  /\ res' = AddToParent(R, r, p)
           /\ creating' = Append(creating, r)
    /\ UNCHANGED <<iter, src, loose>>

InitDone ==
    /\ Step
    /\ ~Idle
    /\ LET r == Last(creating) IN
       /\ res' = [res EXCEPT ![r].refs = @ - 1, ![r].ready = TRUE]
       /\ loose' = IF res[r].refs = 1 THEN loose \cup {r} ELSE loose
    /\ creating' = Front(creating)
    /\ UNCHANGED <<iter, src>>

\* The init function fails: the children made so far, the event sources and
\* the resource itself go.  Nothing outside refers to the children yet.
InitFailed ==
    /\ Step
    /\ ~Idle
    /\ LET r == Last(creating) IN
       /\ Below(r) \subseteq Doomed(r)
       /\ DestroyAll(Doomed(r), {})
    /\ creating' = Front(creating)

---------------------------------------------------------------------------
(* References and structure.                                               *)

\* sid_res_ref, by the daemon for its top resource, or by sid_res_ev_loop_run.
sid_res_ref(r) ==
    /\ Step
    /\ res[r].ready
    /\ res' = [res EXCEPT ![r].refs = @ + 1, ![r].held = @ + 1]
    /\ loose' = loose \ {r}
    /\ UNCHANGED <<iter, src, creating>>

\* The holder of that reference drops it.
DropRef(r) ==
    /\ Step
    /\ res[r].held > 0 /\ Idle
    /\ IF LastRef(r)
       THEN DestroyAll(Doomed(r), {})
       ELSE /\ res' = [res EXCEPT ![r].refs = @ - 1, ![r].held = @ - 1]
            /\ UNCHANGED <<iter, src, loose>>
    /\ UNCHANGED creating

\* The resource with the loop runs it, holding itself, until the loop returns.
sid_res_ev_loop_run(r) == res[r].loop /\ sid_res_ref(r)

\* Who made the resource lets it go.
sid_res_unref(r) ==
    /\ Step
    /\ res[r].ready /\ Holders(r) = 0 /\ Steppable(r)
    /\ Range(creating) \cap (Below(r) \cup {r}) = {}
    /\ Unref(r)
    /\ UNCHANGED creating

\* The only caller that changes a priority is the init function of a module.
sid_res_set_prio(prio) ==
    /\ Step
    /\ ~Idle
    /\ LET r == Last(creating)
           p == res[r].parent
           R == [RemoveFromParent(res, r) EXCEPT ![r].prio = prio]
       IN  /\ prio # res[r].prio /\ p # None
           /\ res' = AddToParent(R, r, p)
    /\ UNCHANGED <<iter, src, creating, loose>>

\* -EBUSY for a child that has a parent; the flags of the child are replaced.
sid_res_add_child(r, c, flags) ==
    /\ Step
    /\ res[r].ready /\ res[c].ready /\ r # c /\ r \notin Below(c)
    /\ res[c].parent = None
    /\ \A i \in DOMAIN iter : iter[i].res = r => iter[i].dir = "over"
    /\ \A i \in DOMAIN iter : iter[i].refd /\ iter[i].res \in Ancestors(r) \cup {r}
                              => iter[i].owner \notin Below(c) \cup {c}
    /\ res' = AddToParent([res EXCEPT ![c].flags = flags], c, r)
    /\ loose' = loose \ {c}
    /\ UNCHANGED <<iter, src, creating>>

\* The children of r go to the parent of r, one by one in their order; each loses the
\* reference of r and gets that of its new parent.
Joined(r) ==
    LET joined[n \in 0..Len(Kids(r))] ==
            IF n = 0 THEN Kids(res[r].parent) ELSE Placed(res, joined[n - 1], Kids(r)[n])
    IN  joined[Len(Kids(r))]

Reparented(r) ==
    [x \in Live |->
        CASE x = r             -> [res[x] EXCEPT !.kids = << >>]
          [] x = res[r].parent -> [res[x] EXCEPT !.kids = Joined(r)]
          [] OTHER             -> IF res[x].parent = r
                                  THEN [res[x] EXCEPT !.parent = res[r].parent] ELSE res[x]]

\* sid_res_isolate: -EPERM for a resource with a loop, without a parent or
\* not to be isolated; else r leaves the tree, with its subtree or without.
sid_res_isolate(r, subtree) ==
    /\ Step
    /\ ~res[r].loop /\ res[r].parent # None /\ "fixed" \notin res[r].flags
    /\ res[r].ready /\ Steppable(r)
    /\ subtree \/ /\ Idle
                  /\ \A i \in DOMAIN iter : iter[i].res # r
                        /\ (iter[i].res = res[r].parent => iter[i].dir = "over")
    /\ LET R == RemoveFromParent(IF subtree THEN res ELSE Reparented(r), r) IN
       /\ res' = R
       /\ loose' = IF R[r].refs = 0 THEN loose \cup {r} ELSE loose
    /\ UNCHANGED <<iter, src, creating>>

---------------------------------------------------------------------------
(* Iterators.                                                              *)

StartOf(kids) == IF kids = << >> THEN ListHead ELSE kids[1]
EndOf(kids) == IF kids = << >> THEN ListHead ELSE Last(kids)

Hidden(r) == "down" \in res[r].flags

Shown(kids) == Kept(kids, {k \in Range(kids) : Hidden(k)})

\* A new iterator stands before the first child; toSee and seen record, for
\* the properties, what a walk has to show and has shown.
NewIter(r, owner, refd) ==
    [res |-> r, owner |-> owner, refd |-> refd, cur |-> ListHead,
     prev |-> EndOf(Kids(r)), next |-> StartOf(Kids(r)), dir |-> "start",
     toSee |-> {k \in Range(Kids(r)) : ~Hidden(k)}, seen |-> << >>]

\* Fault: every iterator takes a reference.
RefsAlways(r) == TRUE

\* A resource being initialised is not referenced by its own iterator.
Refs(r) == res[r].ready

sid_res_iter_create(i, r, owner) ==
    /\ Step
    /\ i \notin DOMAIN iter
    /\ IF res[r].ready
       THEN /\ Idle /\ owner \notin Below(r) \cup {r}
            /\ owner # Outside => res[owner].ready
       ELSE owner = r /\ r = Last(creating)
    /\ iter' = [j \in DOMAIN iter \cup {i} |->
                   IF j = i THEN NewIter(r, owner, Refs(r)) ELSE iter[j]]
    /\ res' = IF Refs(r) THEN [res EXCEPT ![r].refs = @ + 1] ELSE res
    /\ loose' = IF Refs(r) THEN loose \ {r} ELSE loose
    /\ UNCHANGED <<src, creating>>

After(kids, i) == IF i = Len(kids) THEN ListHead ELSE kids[i + 1]

\* Fault: the neighbour is looked up from the current child when it is needed.
OnwardFromCurrent(it, kids, from) ==
    LET here == {i \in DOMAIN kids : kids[i] = it.cur}
        at == IF it.cur = ListHead THEN 1 ELSE IF here = {} THEN Len(kids) + 1 ELSE Min(here) + 1
        shown == {i \in at..Len(kids) : ~Hidden(kids[i])}
        m == Min(shown)
    IN  IF shown = {} THEN [cur |-> Last(kids), on |-> ListHead, shows |-> << >>]
        ELSE [cur |-> kids[m], on |-> After(kids, m), shows |-> <<kids[m]>>]

\* A step onto the saved neighbour, past the children not to be walked to,
\* and the neighbour saved for the next step.
Onward(it, kids, from) ==
    LET at == CHOOSE i \in DOMAIN kids : kids[i] = from
        shown == {i \in at..Len(kids) : ~Hidden(kids[i])}
        m == Min(shown)
    IN  IF shown = {} THEN [cur |-> Last(kids), on |-> ListHead, shows |-> << >>]
        ELSE [cur |-> kids[m], on |-> After(kids, m), shows |-> <<kids[m]>>]

Moved(it, step, dir) ==
    [it EXCEPT !.cur = step.cur, !.seen = @ \o step.shows,
               !.dir = IF step.shows = << >> THEN "over" ELSE dir]

sid_res_iter_next(i) ==
    /\ Step
    /\ Idle /\ iter[i].dir \in {"start", "fwd"}
    /\ LET it == iter[i]
           step == Onward(it, Kids(it.res), it.next)
       IN  iter' = [iter EXCEPT ![i] =
                       IF it.next = ListHead THEN [it EXCEPT !.dir = "over"]
                       ELSE [Moved(it, step, "fwd") EXCEPT !.next = step.on]]
    /\ UNCHANGED <<res, src, creating, loose>>

sid_res_iter_previous(i) ==
    /\ Step
    /\ Idle /\ iter[i].dir \in {"start", "back"}
    /\ LET it == iter[i]
           step == Onward(it, Reverse(Kids(it.res)), it.prev)
       IN  iter' = [iter EXCEPT ![i] =
                       IF it.prev = ListHead THEN [it EXCEPT !.dir = "over"]
                       ELSE [Moved(it, step, "back") EXCEPT !.prev = step.on]]
    /\ UNCHANGED <<res, src, creating, loose>>

sid_res_iter_reset(i) ==
    /\ Step
    /\ Idle
    /\ iter' = [iter EXCEPT ![i] = NewIter(@.res, @.owner, @.refd)]
    /\ UNCHANGED <<res, src, creating, loose>>

sid_res_iter_destroy(i) ==
    /\ Step
    /\ Idle /\ iter[i].refd
    /\ LET r == iter[i].res IN
       IF LastRef(r) THEN DestroyAll(Doomed(r), {i})
       ELSE /\ res' = [res EXCEPT ![r].refs = @ - 1]
            /\ iter' = [j \in DOMAIN iter \ {i} |-> iter[j]]
            /\ UNCHANGED <<src, loose>>
    /\ UNCHANGED creating

---------------------------------------------------------------------------
(* Searches: the resources a search visits, in its order.                  *)

VisitDFS ==
    LET v[r \in Live] == FlattenSeq([i \in DOMAIN Shown(Kids(r)) |->
                                        <<Shown(Kids(r))[i]>> \o v[Shown(Kids(r))[i]]])
    IN  v

\* Fault: nothing below a hidden child is looked at.
VisitWideDFSShown ==
    LET v[r \in Live] == Shown(Kids(r)) \o
                             FlattenSeq([i \in DOMAIN Shown(Kids(r)) |-> v[Shown(Kids(r))[i]]])
    IN  v

\* All children first, then what is below them, below the hidden ones too.
VisitWideDFS ==
    LET v[r \in Live] == Shown(Kids(r)) \o
                             FlattenSeq([i \in DOMAIN Kids(r) |-> v[Kids(r)[i]]])
    IN  v

CanWalkUp(r) == res[r].parent # None /\ "up" \notin res[r].flags

\* The topmost resource, none if the walk up is restricted on the way.
SearchTop ==
    LET t[r \in Live] == IF res[r].parent = None THEN {r}
                         ELSE IF CanWalkUp(r) THEN t[res[r].parent] ELSE {}
    IN  t

\* What a search of the whole tree, and one among the siblings, looks at.
SearchGenus(r) ==
    LET top == SearchTop[r] IN
    IF top = {} THEN << >> ELSE VisitWideDFS[CHOOSE t \in top : TRUE]

SearchSib(r) ==
    IF CanWalkUp(r) THEN Kept(Shown(Kids(res[r].parent)), {r}) ELSE << >>

\* The resource itself or the nearest one above it that runs a loop.
ResWithEvLoop ==
    LET l[r \in Live] == IF res[r].loop THEN r
                         ELSE IF res[r].parent = None THEN None ELSE l[res[r].parent]
    IN  l

---------------------------------------------------------------------------
(* Event sources and their counters.                                       *)

Kinds == {"io", "signal", "child", "post", "time", "deferred"}

EventsMax(kind) == IF kind \in {"time", "deferred"} THEN 1 ELSE Unlimited

Enabled(fired, max) ==
    IF fired = max THEN "off" ELSE IF fired + 1 = max THEN "oneshot" ELSE "on"

NewSource(e, r, kind) ==
    src' = [f \in DOMAIN src \cup {e} |->
               IF f # e THEN src[f]
               ELSE [res |-> r, kind |-> kind, fired |-> 0, max |-> EventsMax(kind),
                     on |-> Enabled(0, EventsMax(kind))]]

\* -ENOMEDIUM without a loop above, -EADDRINUSE for a second signal source.
sid_res_ev_create(e, r, kind) ==
    LET l == ResWithEvLoop[r] IN
    /\ Step
    /\ e \notin DOMAIN src /\ l # None
    /\ IF kind = "signal"
       THEN ~res[l].sigfd /\ res' = [res EXCEPT ![l].sigfd = TRUE]
       ELSE UNCHANGED res
    /\ NewSource(e, r, kind)
    /\ UNCHANGED <<iter, creating, loose>>

\* The value a call of sid_res_ev_set_counter gives to events_max.
NewMax(s, rel, max) ==
    LET sum == (s.fired + max) % (Unlimited + 1) IN
    IF max = Unlimited THEN Unlimited
    ELSE IF ~rel THEN (IF max < s.fired THEN s.fired ELSE max)
    ELSE IF sum = Unlimited \/ sum < s.fired THEN Unlimited - 1 ELSE sum

Counted(s, rel, max) ==
    LET m == NewMax(s, rel, max) IN
    [s EXCEPT !.max = m, !.on = IF m = Unlimited THEN "on" ELSE Enabled(s.fired, m)]

\* The end of sid_res_ev_rearm_time: one more event.
Rearmed(s) == Counted(s, TRUE, 1)

sid_res_ev_set_counter(e, rel, max) ==
    /\ Step
    /\ src' = [src EXCEPT ![e] = Counted(@, rel, max)]
    /\ UNCHANGED <<res, iter, creating, loose>>

sid_res_ev_destroy(e) ==
    /\ Step
    /\ src' = [f \in DOMAIN src \ {e} |-> src[f]]
    /\ UNCHANGED <<res, iter, creating, loose>>

\* The loop disarms a one-shot source, then the counter is raised and the
\* source turned off at its maximum, then the handler is called.
Fired(s) ==
    LET n == s.fired + 1
        off == s.on = "oneshot" \/ (s.max # Unlimited /\ n = s.max)
    IN  [s EXCEPT !.fired = n, !.on = IF off THEN "off" ELSE @]

\* A failed handler: the loop turns the source off; but for child events the
\* maximum is set to the count reached.
Failed(s) == [s EXCEPT !.on = "off", !.max = IF s.kind = "child" THEN @ ELSE s.fired]

\* One event and what its handler does: nothing else, arm the source again,
\* fail, or let its resource go and succeed.
Dispatch(e, outcome) ==
    LET s == src[e] IN
    /\ Step
    /\ Idle /\ s.on # "off" /\ s.fired + 2 < Unlimited
    /\ \/ /\ outcome = "done"
          /\ src' = [src EXCEPT ![e] = Fired(@)] /\ UNCHANGED <<res, iter, loose>>
       \/ /\ outcome = "rearm"
          /\ src' = [src EXCEPT ![e] = Rearmed(Fired(@))]
          /\ UNCHANGED <<res, iter, loose>>
       \/ /\ outcome = "failed"
          /\ src' = [src EXCEPT ![e] = Failed(Fired(@))] /\ UNCHANGED <<res, iter, loose>>
       \/ /\ outcome = "gone"
          /\ Holders(s.res) = 0 /\ Steppable(s.res)
          /\ Unref(s.res)
    /\ UNCHANGED creating

---------------------------------------------------------------------------
Init ==
    /\ res \in Starts
    /\ iter = << >> /\ src = << >> /\ creating = << >> /\ ops = 0
    /\ loose = {r \in Live : res[r].refs = 0}

Next ==
    \/ \E p \in Live \cup {None}, flags \in FlagSets :
           sid_res_create(p, Normal, flags, FALSE)
    \/ InitDone
    \/ InitFailed
    \/ \E prio \in Prios : sid_res_set_prio(prio)
    \/ \E r \in Live :
           \/ sid_res_ref(r)
           \/ DropRef(r)
           \/ sid_res_ev_loop_run(r)
           \/ sid_res_unref(r)
           \/ \E subtree \in BOOLEAN : sid_res_isolate(r, subtree)
           \/ \E c \in Live, flags \in FlagSets : sid_res_add_child(r, c, flags)
           \/ \E i \in Iters, owner \in Live \cup {Outside} : sid_res_iter_create(i, r, owner)
           \/ \E e \in Sources, kind \in Kinds :
                  <<r, kind>> \in SourceSpecs /\ sid_res_ev_create(e, r, kind)
    \/ \E i \in DOMAIN iter :
           \/ sid_res_iter_next(i)
           \/ sid_res_iter_previous(i)
           \/ sid_res_iter_reset(i)
           \/ sid_res_iter_destroy(i)
    \/ \E e \in DOMAIN src :
           \/ \E rel \in BOOLEAN, max \in {1, Unlimited - 1} :
                  sid_res_ev_set_counter(e, rel, max)
           \/ \E outcome \in {"done", "rearm", "failed", "gone"} : Dispatch(e, outcome)
           \/ sid_res_ev_destroy(e)

Spec == Init /\ [][Next]_vars

---------------------------------------------------------------------------
(* Properties.                                                             *)

\* The count of a resource is its parent, the holders, the iterators over it
\* and, while it is made, the temporary one; without any it is known to who
\* made it, so nothing leaks.
CountsExact ==
    \A r \in Live :
        /\ res[r].refs = (IF res[r].parent = None THEN 0 ELSE 1)
                             + Holders(r) + (IF r \in Range(creating) THEN 1 ELSE 0)
        /\ res[r].refs = 0 <=> r \in loose

\* No resource, iterator or event source names a resource that was destroyed,
\* whatever went with the last reference of another one (_do_sid_res_unref).
NothingDangles ==
    /\ \A r \in Live : res[r].parent \in Live \cup {None}
    /\ \A i \in DOMAIN iter : iter[i].res \in Live /\ iter[i].owner \in Live \cup {Outside}
    /\ \A e \in DOMAIN src : src[e].res \in Live

\* Every reference is accounted for: the counts are exact, and who refers to a
\* resource refers to one that is there.
RefsExact == CountsExact /\ NothingDangles

\* What is out of the tree is kept by somebody outside of it: a reference that
\* only the resource itself or one below it would drop is never dropped (the
\* FIXME above sid_res_ref).
NothingKeepsItself ==
    \A r \in Live \ (loose \cup Range(creating)) :
        res[r].parent = None =>
            \/ res[r].held > 0
            \/ \E i \in DOMAIN iter : iter[i].res = r /\ iter[i].refd
                                      /\ iter[i].owner \notin Below(r) \cup {r}

\* Parents and children agree, siblings are ordered by priority, and nothing is
\* above itself, whatever is moved, isolated, destroyed or changes its priority
\* (_add_res_to_parent_res, _remove_res_from_parent_res).
TreeSound == Families(res) /\ \A r \in Live : r \notin Ancestors(r)

\* A walk shows every child there was at its start and still is, once, even
\* when the child it stands on is removed on the way.
WalkMissesNothing ==
    \A i \in DOMAIN iter :
        LET it == iter[i]
            there == it.toSee \cap Range(Kids(it.res))
        IN  /\ \A a, b \in DOMAIN it.seen : a # b => it.seen[a] # it.seen[b]
            /\ it.dir = "over" => there \subseteq Range(it.seen)
            /\ it.dir = "fwd" /\ it.next # ListHead => it.next \in Range(Kids(it.res))
            /\ it.dir = "back" /\ it.prev # ListHead => it.prev \in Range(Kids(it.res))

\* The searches the program relies on: from the top everything but the hidden
\* resources themselves is found, the worker control below the hidden internal
\* aggregate included; a plain depth-first search stays out of there.
SearchesReach ==
    LET wide == VisitWideDFS
        deep == VisitDFS
    IN \A r \in Live :
        /\ Range(wide[r]) = {x \in Below(r) : ~Hidden(x)}
        /\ Range(deep[r]) = {x \in Below(r) : ~Hidden(x) /\
                                     \A y \in Ancestors(x) \cap Below(r) : ~Hidden(y)}
        /\ (\A x \in (Ancestors(r) \cup {r}) : "up" \notin res[x].flags) =>
               \A x \in Below(r) \cup {r} : x \in Range(SearchGenus(r))
                                             \/ Hidden(x) \/ res[x].parent = None
        /\ r \notin Range(SearchSib(r))
=============================================================================
