-------------------------- MODULE MCWorkerControl --------------------------
(***************************************************************************)
(* WorkerControl for TLC: one message payload, small lanes.                *)
(***************************************************************************)
EXTENDS WorkerControl, TLC

Symmetry == Permutations(Workers)
=============================================================================
