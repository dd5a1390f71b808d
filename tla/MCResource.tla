------------------------------ MODULE MCResource ------------------------------
(***************************************************************************)
(* Resource for TLC, started from the tree of the daemon: the top resource *)
(* with the loop, the bridge, its hidden internal aggregate and the common *)
(* resource below that; and from a registry with three modules.            *)
(***************************************************************************)
EXTENDS Resource

Made(parent, kids, refs, flags, prio) ==
    [parent |-> parent, kids |-> kids, refs |-> refs, held |-> 0, prio |-> prio,
     flags |-> flags, loop |-> parent = None, sigfd |-> FALSE, ready |-> TRUE]

DaemonTree == <<Made(0, <<2>>, 0, {}, 0), Made(1, <<3>>, 1, {"down", "fixed"}, 0),
                Made(2, << >>, 1, {}, 0)>>

Registry == <<Made(0, <<2, 3, 4>>, 0, {}, 0), Made(1, << >>, 1, {"up"}, 0),
              Made(1, << >>, 1, {"down"}, 0), Made(1, << >>, 1, {}, 1)>>

MCPrios == {-1, 1}

MCStarts == {DaemonTree, Registry}

\* The top resource takes signals, the others what their kinds do.
MCSources == {<<1, "signal">>, <<3, "time">>, <<4, "child">>}

MCFlags == {{}, {"down", "fixed"}}
=============================================================================
