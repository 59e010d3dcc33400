------------------------------- MODULE MCBench ------------------------------
(* Three platforms, both modes, up to MaxLate answers that come too late.  *)
EXTENDS Bench
=============================================================================
