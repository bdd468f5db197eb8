---------------------------- MODULE MCStreamRing ----------------------------
(* StreamRing on a buffer that wraps around several times.                 *)
EXTENDS StreamRing
=============================================================================
