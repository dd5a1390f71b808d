----------------------------- MODULE MCChannel -----------------------------
(***************************************************************************)
(* Channel for TLC.  A prefix of two bytes can be cut in the middle, and a *)
(* body of two bytes makes two parts (two iovecs of a reply).  An external *)
(* lane's buffer is filled up and grows.                                   *)
(***************************************************************************)
EXTENDS Channel
=============================================================================
