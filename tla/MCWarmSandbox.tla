---------------------------- MODULE MCWarmSandbox ----------------------------
(* Two threads over one table of workers.                                   *)
EXTENDS WarmSandbox, TLC
=============================================================================
