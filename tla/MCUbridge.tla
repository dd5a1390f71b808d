----------------------------- MODULE MCUbridge -----------------------------
(***************************************************************************)
(* Ubridge for TLC.  All constants are given in the .cfg files.  Workers   *)
(* share only the main process' two event sources, whose loss is also a    *)
(* fault an instance with one worker can choose.                           *)
(***************************************************************************)
EXTENDS Ubridge
=============================================================================
