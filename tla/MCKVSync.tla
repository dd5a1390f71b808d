------------------------------- MODULE MCKVSync -------------------------------
(***************************************************************************)
(* KVSync for TLC: exports of commands that ran at the same time.          *)
(***************************************************************************)
EXTENDS KVSync

CONSTANTS k1, k2, k3, a, b, m1, m2

R(op, k, kind, n, own, fl, d) ==
    [op |-> op, key |-> k, kind |-> kind, seq |-> n, own |-> own, fl |-> fl, data |-> d]

\* k1 is a scalar of m1, k2 and k3 are vectors of the core changed by deltas.
MCExports == {
    <<R("plus", k2, "vector", 1, Core, {}, {a}),
      R("set", k1, "scalar", 1, m1, {"AR"}, {a})>>,
    <<R("plus", k2, "vector", 2, Core, {}, {b}), R("plus", k3, "vector", 2, Core, {}, {a}),
      R("minus", k2, "vector", 2, Core, {}, {a}),
      R("set", k1, "scalar", 2, m1, {}, {b})>>,
    <<R("minus", k2, "vector", 3, Core, {}, {b}), R("minus", k3, "vector", 3, Core, {}, {a})>>,
    <<R("set", k1, "scalar", 3, m1, {}, {}), R("set", k3, "vector", 3, m2, {"RS"}, {})>>,
    <<R("set", k1, "scalar", 4, m1, {"AR"}, {}), R("set", k3, "vector", 4, Core, {}, {b})>>,
    <<R("set", k1, "scalar", 0, m2, {}, {b})>> }

\* A group gets a member and loses another one, a record is removed into its archive, and
\* the record after that is broken.
Undone == {
    <<R("plus", k2, "vector", 1, Core, {}, {a}), R("set", k1, "scalar", 1, m1, {}, {a})>>,
    <<R("plus", k2, "vector", 2, Core, {}, {b}), R("minus", k2, "vector", 2, Core, {}, {a}),
      R("set", k1, "scalar", 2, m1, {"AR"}, {}), R("set", k3, "vector", 2, m1, {}, {b})>> }

\* The broken record of an export is its last one, as in test_multi_broken_1.
LastIsBroken == failed' /\ ~failed => Len(rest) = 1

\* Two groups lose their last member in one command.
TwoEmptied == {
    <<R("plus", k2, "vector", 1, Core, {}, {a}), R("plus", k3, "vector", 1, Core, {}, {b})>>,
    <<R("minus", k2, "vector", 2, Core, {}, {a}), R("minus", k3, "vector", 2, Core, {}, {b})>> }
=============================================================================
