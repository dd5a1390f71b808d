------------------------------- MODULE MCBPTree -------------------------------
(***************************************************************************)
(* BPTree for TLC: order 4, as ubr.c creates its stores.  Ten keys are the *)
(* fewest that need three levels; with twelve an inner node borrows from   *)
(* its right neighbour, with fourteen also from its left one.              *)
(***************************************************************************)
EXTENDS BPTree

CONSTANTS a, b

MCKeys == 1..14

\* Aliases that are next to their key in the order of the keys.
NextToKey == {<<1, 2>>, <<6, 5>>}

MCPrefixes == {<<1, 4>>, <<4, 6>>, <<7, 7>>}

MCStarts == {<< >>, [i \in 1..12 |-> i], [i \in 1..14 |-> 15 - i],
             <<5, 1, 8, 3, 10, 6, 2>>}

\* Three records in one leaf; the alias of the first sorts behind the second.
AcrossKey == {<<1, 3>>}
SmallKeys == 1..3
SmallStarts == {<<1, 2>>}
=============================================================================
